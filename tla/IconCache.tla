----------------------------- MODULE IconCache -----------------------------
(***************************************************************************)
(* The icons of tokens and their issuers: which urls are in use, by whom,  *)
(* what was downloaded from each, and which picture each token links to    *)
(* (cache/icons.js, and its worker in cache/worker.js).                    *)
(*                                                                         *)
(* A picture is its content: the files it is stored in are named by a hash *)
(* of it.  There is one worker, and it waits only while it downloads; what *)
(* it does between two downloads is split into steps for each url.         *)
(***************************************************************************)
EXTENDS Integers, Sequences, SequencesExt, FiniteSets, Functions, TLC

CONSTANTS
  Tokens, Accounts,
  IssuerOf,      \* [Tokens -> Accounts]
  Urls,          \* the urls that validateURL accepts
  Pictures,
  Nothing,       \* no url, and the picture of an icon without hash: "undefined.undefined"
  Nobody,        \* the subject of a worker that has no task
  MaxChanges,    \* bound: changes of the urls of a subject
  MaxRenewals,   \* bound: icons that become due again
  MaxFailures,   \* bound: downloads that fail
  MaxCrashes     \* bound: crashes of the process

Subjects == Tokens \cup Accounts
ASSUME IconAssumption ==
  /\ IssuerOf \in [Tokens -> Accounts]
  /\ Tokens \cap Accounts = {}
  /\ Nothing \notin Urls \cup Pictures /\ Nobody \notin Subjects

VARIABLES
  named,     \* by subject: the urls of its icons in the core database
  todos,     \* cache.todos: subjects whose icons are to be updated
  icons,     \* cache.icons, by url: [picture, due]
  users,     \* cache.iconUsers: <<url, subject>>
  rows,      \* tokens that have a row in cache.tokens
  links,     \* cachedIcons of that row, by token: url -> picture
  files,     \* pictures on disk
  worker,    \* the task: [subject, using, urls, left, url]
  changes, renewals, failures, crashes,   \* bounds
  lost,      \* history: subjects with a change no task is to come for: never
             \* marked, or its mark lost, or its task cut off
  missed,    \* history: <<url, subject>> whose last download failed
  cut,       \* history: <<url, token>> unlinked for another user than the one left
  shot       \* history: <<url, picture>> downloaded at any time

bounds == <<changes, renewals, failures, crashes>>
history == <<lost, missed, cut, shot>>
vars == <<named, todos, icons, users, rows, links, files, worker, bounds, history>>

Idle == [subject |-> Nobody, using |-> {}, urls |-> {}, left |-> {}, url |-> Nothing]

Targets(subject) ==
  IF subject \in Tokens THEN {subject} ELSE {token \in Tokens : IssuerOf[token] = subject}

UrlsOf(subject) == {url \in Urls : <<url, subject>> \in users}

---------------------------------------------------------------------------
(* The core database, the token worker, and time.                          *)

\* markCacheDirtyForTokenIcons, markCacheDirtyForAccountIcons.
Mark(subject) == todos' = IF subject \in Range(todos) THEN todos ELSE Append(todos, subject)

\* Icons are written and marked, whether that changes them or not; the mark at
\* the end of a diff is one that changes nothing.  The mark of a subject whose
\* task is running is the row of that very task.
Write(subject, urls) ==
  /\ changes < MaxChanges
  /\ changes' = changes + 1
  /\ named' = [named EXCEPT ![subject] = urls]
  /\ Mark(subject)
  /\ lost' = IF worker.subject = subject THEN lost \cup {subject} ELSE lost
  /\ UNCHANGED <<icons, users, rows, links, files, worker, renewals, failures, crashes, missed, cut, shot>>

\* A diff changes the icons of a subject, in a chunk or in its sweep.  What its
\* chunks have changed is marked at its end, if it comes there; what it sweeps
\* away is marked for the properties of the subject only, never for its icons.
Diff(subject, urls) ==
  /\ changes < MaxChanges
  /\ changes' = changes + 1
  /\ urls # named[subject]
  /\ named' = [named EXCEPT ![subject] = urls]
  /\ lost' = lost \cup {subject}
  /\ UNCHANGED <<todos, icons, users, rows, links, files, worker, renewals, failures, crashes,
                 missed, cut, shot>>

\* The worker of the other tasks creates the row of a token.
CreateRow(token) ==
  /\ rows' = rows \cup {token}
  /\ UNCHANGED <<named, todos, icons, users, links, files, worker, bounds, history>>

\* An icon's lifetime ends.
Renew(url) ==
  /\ renewals < MaxRenewals
  /\ renewals' = renewals + 1
  /\ url \in DOMAIN icons /\ ~icons[url].due
  /\ icons' = [icons EXCEPT ![url].due = TRUE]
  /\ UNCHANGED <<named, todos, users, rows, links, files, worker, changes, failures, crashes, history>>

---------------------------------------------------------------------------
(* updateIconCacheFor.                                                     *)

Begin ==
  /\ worker = Idle /\ todos # <<>>
  /\ LET subject == Head(todos)
     IN  /\ worker' = [subject |-> subject, using |-> UrlsOf(subject),
                       urls |-> named[subject], left |-> named[subject], url |-> Nothing]
         /\ lost' = lost \ {subject}
  /\ UNCHANGED <<named, todos, icons, users, rows, links, files, bounds, missed, cut, shot>>

\* linkCachedIconToTokenCache, for each token of the task.
Link(url, picture) ==
  LET targets == Targets(worker.subject)
  IN  /\ rows' = rows \cup targets
      /\ links' = [token \in Tokens |->
           IF token \in targets
           THEN [u \in DOMAIN links[token] \cup {url} |-> IF u = url THEN picture ELSE links[token][u]]
           ELSE links[token]]
      /\ missed' = missed \ {<<url, worker.subject>>}
      /\ cut' = cut \ ({url} \X targets)

IconOf(url) ==
  IF url \in DOMAIN icons THEN icons[url] ELSE [picture |-> Nothing, due |-> TRUE]

Linked_Downloaded(url) == UNCHANGED <<rows, links, missed, cut>>
Linked(url) == Link(url, IconOf(url).picture)

\* The next url of the task: it has an icon and this user.  It is downloaded if
\* it is due and linked as it is if not.
Take(url) ==
  /\ worker.subject # Nobody /\ worker.url = Nothing
  /\ url \in worker.left
  /\ icons' = [u \in DOMAIN icons \cup {url} |-> IconOf(u)]
  /\ users' = users \cup {<<url, worker.subject>>}
  /\ IF IconOf(url).due
       THEN /\ worker' = [worker EXCEPT !.left = @ \ {url}, !.url = url]
            /\ UNCHANGED <<rows, links, missed, cut>>
       ELSE /\ worker' = [worker EXCEPT !.left = @ \ {url}]
            /\ Linked(url)
  /\ UNCHANGED <<named, todos, files, bounds, lost, shot>>

Downloaded(picture) ==
  /\ worker.url # Nothing
  /\ files' = files \cup {picture}
  /\ shot' = shot \cup {<<worker.url, picture>>}
  /\ icons' = [icons EXCEPT ![worker.url] = [picture |-> picture, due |-> FALSE]]
  /\ Link(worker.url, picture)
  /\ worker' = [worker EXCEPT !.url = Nothing]
  /\ UNCHANGED <<named, todos, users, bounds, lost>>

\* The download or the resizing fails: the file may be there already.  The
\* icon is not due for a while, and nothing is linked.
DownloadFailed(picture) ==
  /\ failures < MaxFailures
  /\ failures' = failures + 1
  /\ worker.url # Nothing
  /\ files' \in {files, files \cup {picture}}
  /\ icons' = [icons EXCEPT ![worker.url].due = FALSE]
  /\ worker' = [worker EXCEPT !.url = Nothing]
  /\ missed' = missed \cup {<<worker.url, worker.subject>>}
  /\ UNCHANGED <<named, todos, users, rows, links, changes, renewals, crashes, lost, cut, shot>>

Removed_Swapped(task) == task.urls \ task.using
Removed(task) == task.using \ task.urls

\* unlinkCachedIconFromTokenCache.
Unlink(urls, targets) ==
  links' = [token \in Tokens |->
    IF token \in targets THEN Restrict(links[token], DOMAIN links[token] \ urls) ELSE links[token]]

Unused_Before(task, left) == {url \in task.using : ~\E subject \in Subjects : <<url, subject>> \in users}
Unused_Mine(task, left) == Removed(task)
Unused(task, left) == {url \in task.using : ~\E subject \in Subjects : <<url, subject>> \in left}

\* What the subject no longer names is unlinked, it is no user of it any more,
\* and an icon without users is deleted, its picture too.
Finish ==
  LET removed == Removed(worker)
      targets == Targets(worker.subject)
      left == users \ (removed \X {worker.subject})
      unused == Unused(worker, left)
  IN  /\ removed = {} \/ targets \subseteq rows
      /\ Unlink(removed, targets)
      /\ users' = left
      /\ files' = files \ {icons[url].picture : url \in unused}
      /\ icons' = Restrict(icons, DOMAIN icons \ unused)
      /\ cut' = cut \cup {link \in removed \X targets :
                            \E other \in {link[2], IssuerOf[link[2]]} : <<link[1], other>> \in left}
      /\ UNCHANGED lost

\* A token without a row cannot be unlinked: the task ends there, after some
\* of the tokens for one of the urls.
FinishFails ==
  LET removed == Removed(worker)
      targets == Targets(worker.subject)
  IN  /\ ~(targets \subseteq rows)
      /\ \E url \in removed : \E first \in SUBSET (targets \cap rows) : Unlink({url}, first)
      /\ cut' = cut \cup (removed \X targets)
      /\ lost' = lost \cup {worker.subject}
      /\ UNCHANGED <<users, files, icons>>

\* The task is deleted, however it has ended.
End ==
  /\ worker.subject # Nobody /\ worker.url = Nothing /\ worker.left = {}
  /\ Finish \/ FinishFails
  /\ todos' = RemoveFirst(todos, worker.subject)
  /\ worker' = Idle
  /\ UNCHANGED <<named, rows, bounds, missed, shot>>

\* The process ends, and starts again: the task is still there.
Crash ==
  /\ crashes < MaxCrashes
  /\ crashes' = crashes + 1
  /\ worker # Idle
  /\ worker' = Idle
  /\ UNCHANGED <<named, todos, icons, users, rows, links, files, changes, renewals, failures, history>>

---------------------------------------------------------------------------
Init ==
  /\ named = [subject \in Subjects |-> {}]
  /\ todos = <<>>
  /\ icons = <<>> /\ users = {} /\ rows = {} /\ files = {}
  /\ links = [token \in Tokens |-> <<>>]
  /\ worker = Idle
  /\ changes = 0 /\ renewals = 0 /\ failures = 0 /\ crashes = 0
  /\ lost = {} /\ missed = {} /\ cut = {} /\ shot = {}

Next ==
  \/ \E subject \in Subjects : \E urls \in SUBSET Urls :
       Write(subject, urls) \/ Diff(subject, urls)
  \/ \E token \in Tokens : CreateRow(token)
  \/ \E url \in Urls : Renew(url) \/ Take(url)
  \/ \E picture \in Pictures : Downloaded(picture) \/ DownloadFailed(picture)
  \/ Begin \/ End \/ Crash

Spec == Init /\ [][Next]_vars

---------------------------------------------------------------------------
Icons == [picture : Pictures \cup {Nothing}, due : BOOLEAN]
Tasks == [subject : Subjects, using : SUBSET Urls, urls : SUBSET Urls, left : SUBSET Urls,
          url : Urls \cup {Nothing}]

\* Type correctness; a subject is marked once.
TypeOK ==
  /\ named \in [Subjects -> SUBSET Urls]
  /\ todos \in Seq(Subjects) /\ IsInjective(todos)
  /\ \E using \in SUBSET Urls : icons \in [using -> Icons]
  /\ users \subseteq Urls \X Subjects
  /\ rows \subseteq Tokens
  /\ DOMAIN links = Tokens
  /\ \A token \in Tokens :
       \E linked \in SUBSET Urls : links[token] \in [linked -> Pictures \cup {Nothing}]
  /\ files \subseteq Pictures \cup {Nothing}
  /\ worker \in Tasks \cup {Idle}
  /\ lost \subseteq Subjects /\ missed \subseteq Urls \X Subjects
  /\ cut \subseteq Urls \X Tokens /\ shot \subseteq Urls \X Pictures

\* Once its task is done, a subject is a user of the urls it names and of no
\* others, unless it was marked while its task was running, or that failed, or
\* a diff has changed its icons and not marked it since.
UsersAreExact ==
  \A subject \in Subjects : subject \notin Range(todos) \cup lost => UrlsOf(subject) = named[subject]

\* An icon is kept exactly as long as somebody uses it, and what a token links
\* to is used by itself or by its issuer.
IconsHaveUsers ==
  /\ DOMAIN icons = {use[1] : use \in users}
  /\ \A token \in Tokens : DOMAIN links[token] \subseteq UrlsOf(token) \cup UrlsOf(IssuerOf[token])

\* A picture that a token links to is on disk, unless another url has had the
\* same picture.
LinksResolve ==
  \A token \in Tokens : \A url \in DOMAIN links[token] :
     links[token][url] \in files \cup {Nothing} \cup
        {picture \in Pictures : \E other \in Urls \ {url} : <<other, picture>> \in shot}

\* What a subject names is linked from all its tokens once its task is done,
\* unless the download failed or the other user of the url has removed it.
IconsAreShown ==
  \A subject \in Subjects \ (Range(todos) \cup lost) : \A token \in Targets(subject) :
     \A url \in named[subject] :
        \/ url \in DOMAIN links[token]
        \/ <<url, subject>> \in missed
        \/ <<url, token>> \in cut

\* applyIconCaches: the icons that a manifest shows of a token.
Shown(token) ==
  {links[token][url] : url \in (named[token] \cup named[IssuerOf[token]]) \cap DOMAIN links[token]}

\* An icon url of the live token manifest leads to a picture.  This does not
\* hold: an icon that failed is linked without one.  No run checks it.
ManifestIconsExist == \A token \in Tokens : Shown(token) \subseteq files
=============================================================================
