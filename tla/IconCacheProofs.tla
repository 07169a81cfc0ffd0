-------------------------- MODULE IconCacheProofs --------------------------
(***************************************************************************)
(* Proofs about IconCache, for every number of tokens, issuers, urls,      *)
(* pictures, failures and crashes.                                         *)
(*                                                                         *)
(* The four properties hold together or not at all: a link may be kept     *)
(* only while its url has a user, a file only while an icon has it, and    *)
(* both are decided at the end of a task from what the task has made of    *)
(* the users.  The invariant adds what a task has done so far.             *)
(***************************************************************************)
EXTENDS IconCache, TLAPS

USE IconAssumption

---------------------------------------------------------------------------
(* The queue of marks.                                                     *)

\* What a sequence is made of when two are put together.
LEMMA ConcatFacts ==
  ASSUME NEW S, NEW s \in Seq(S), NEW t \in Seq(S)
  PROVE  /\ s \o t \in Seq(S) /\ Len(s \o t) = Len(s) + Len(t)
         /\ \A i \in 1 .. Len(s) : (s \o t)[i] = s[i]
         /\ \A i \in 1 .. Len(t) : (s \o t)[Len(s) + i] = t[i]
  OBVIOUS

\* Removing an element that is there once leaves the others.
LEMMA RemoveFirstFacts ==
  ASSUME NEW S, NEW s \in Seq(S), IsInjective(s), NEW e
  PROVE  /\ RemoveFirst(s, e) \in Seq(S)
         /\ IsInjective(RemoveFirst(s, e))
         /\ Range(RemoveFirst(s, e)) = Range(s) \ {e}
<1> DEFINE I == {i \in 1 .. Len(s) : s[i] = e}
<1>1. CASE I = {}
  <2>1. RemoveFirst(s, e) = s
    BY <1>1 DEF RemoveFirst
  <2> QED
    BY <1>1, <2>1 DEF Range
<1>2. CASE I # {}
  <2>1. PICK k \in 1 .. Len(s) : s[k] = e
    BY <1>2
  <2>2. I = {k}
    BY <2>1 DEF IsInjective
  <2>3. SelectInSeq(s, LAMBDA v : v = e) = k
    BY <2>2 DEF SelectInSeq, Min
  <2>4. RemoveFirst(s, e) = SubSeq(s, 1, k - 1) \o SubSeq(s, k + 1, Len(s))
    BY <2>1, <2>3 DEF RemoveFirst, RemoveAt
  <2>5. /\ SubSeq(s, 1, k - 1) \in Seq(S) /\ Len(SubSeq(s, 1, k - 1)) = k - 1
        /\ SubSeq(s, k + 1, Len(s)) \in Seq(S) /\ Len(SubSeq(s, k + 1, Len(s))) = Len(s) - k
        /\ \A i \in 1 .. k - 1 : SubSeq(s, 1, k - 1)[i] = s[i]
        /\ \A i \in 1 .. Len(s) - k : SubSeq(s, k + 1, Len(s))[i] = s[i + k]
    OBVIOUS
  <2> DEFINE t == RemoveFirst(s, e)
  <2>6. /\ t \in Seq(S) /\ Len(t) = Len(s) - 1
        /\ \A i \in 1 .. k - 1 : t[i] = s[i]
        /\ \A i \in k .. Len(s) - 1 : t[i] = s[i + 1]
    <3> DEFINE before == SubSeq(s, 1, k - 1)
               after == SubSeq(s, k + 1, Len(s))
    <3>1. /\ before \in Seq(S) /\ Len(before) = k - 1
          /\ after \in Seq(S) /\ Len(after) = Len(s) - k
          /\ \A i \in 1 .. k - 1 : before[i] = s[i]
          /\ \A i \in 1 .. Len(s) - k : after[i] = s[i + k]
      BY <2>5
    <3>2. t = before \o after
      BY <2>4
    <3> HIDE DEF before, after, t
    <3>3. /\ t \in Seq(S) /\ Len(t) = Len(before) + Len(after)
          /\ \A i \in 1 .. Len(before) : t[i] = before[i]
          /\ \A i \in 1 .. Len(after) : t[Len(before) + i] = after[i]
      <4>1. before \in Seq(S) /\ after \in Seq(S)
        BY <3>1
      <4>2. /\ before \o after \in Seq(S) /\ Len(before \o after) = Len(before) + Len(after)
            /\ \A i \in 1 .. Len(before) : (before \o after)[i] = before[i]
            /\ \A i \in 1 .. Len(after) : (before \o after)[Len(before) + i] = after[i]
        BY <4>1, ConcatFacts
      <4> QED
        BY <4>2, <3>2
    <3>4. ASSUME NEW i \in k .. Len(s) - 1 PROVE t[i] = s[i + 1]
      <4>1. i - (k - 1) \in 1 .. Len(s) - k
        OBVIOUS
      <4>2. t[Len(before) + (i - (k - 1))] = s[i - (k - 1) + k]
        BY <3>1, <3>3, <4>1
      <4> QED
        BY <3>1, <4>2
    <3> QED
      BY <3>1, <3>3, <3>4
  <2> HIDE DEF t
  <2>7. IsInjective(t)
    <3> DEFINE From(i) == IF i < k THEN i ELSE i + 1
    <3>1. \A i \in 1 .. Len(s) - 1 : From(i) \in 1 .. Len(s) /\ t[i] = s[From(i)]
      BY <2>6
    <3>2. \A i, j \in 1 .. Len(s) - 1 : From(i) = From(j) => i = j
      OBVIOUS
    <3> HIDE DEF From
    <3>3. DOMAIN t = 1 .. Len(s) - 1 /\ DOMAIN s = 1 .. Len(s)
      BY <2>6
    <3> QED
      BY <3>1, <3>2, <3>3 DEF IsInjective
  <2>8. ASSUME NEW x \in Range(s) \ {e} PROVE x \in Range(t)
    <3>1. PICK i \in 1 .. Len(s) : s[i] = x
      BY DEF Range
    <3>2. CASE i < k
      BY <3>1, <3>2, <2>6 DEF Range
    <3>3. CASE i > k
      <4>1. i - 1 \in 1 .. Len(s) - 1 /\ t[i - 1] = s[i]
        BY <3>3, <2>6
      <4> QED
        BY <3>1, <4>1, <2>6 DEF Range
    <3> QED
      BY <3>1, <3>2, <3>3, <2>1
  <2>9. ASSUME NEW x \in Range(t) PROVE x \in Range(s) \ {e}
    <3>1. PICK i \in 1 .. Len(s) - 1 : t[i] = x
      BY <2>6 DEF Range
    <3>2. PICK j \in 1 .. Len(s) : x = s[j] /\ j # k
      <4>1. CASE i < k
        <5>1. i \in 1 .. k - 1 /\ i \in 1 .. Len(s) /\ i # k
          BY <4>1
        <5>2. t[i] = s[i]
          BY <5>1, <2>6
        <5> QED
          BY <3>1, <5>1, <5>2
      <4>2. CASE i >= k
        <5>1. i + 1 \in 1 .. Len(s) /\ x = s[i + 1] /\ i + 1 # k
          BY <3>1, <4>2, <2>6
        <5> QED
          BY <5>1
      <4> QED
        BY <4>1, <4>2
    <3> QED
      BY <3>2, <2>1 DEF Range, IsInjective
  <2> QED
    BY <2>6, <2>7, <2>8, <2>9 DEF t
<1> QED
  BY <1>1, <1>2

\* A mark is there once, and the others stay.
LEMMA MarkFacts ==
  ASSUME todos \in Seq(Subjects), IsInjective(todos), NEW subject \in Subjects, Mark(subject)
  PROVE  /\ todos' \in Seq(Subjects) /\ IsInjective(todos')
         /\ Range(todos') = Range(todos) \cup {subject}
<1>1. CASE subject \in Range(todos)
  BY <1>1 DEF Mark
<1>2. CASE subject \notin Range(todos)
  <2>1. todos' = Append(todos, subject)
    BY <1>2 DEF Mark
  <2>2. /\ todos' \in Seq(Subjects) /\ Len(todos') = Len(todos) + 1
        /\ \A i \in 1 .. Len(todos) : todos'[i] = todos[i]
        /\ todos'[Len(todos) + 1] = subject
    BY <2>1
  <2>3. \A i \in 1 .. Len(todos) : todos[i] # subject
    BY <1>2 DEF Range
  <2>4. IsInjective(todos')
    BY <2>2, <2>3 DEF IsInjective
  <2>5. Range(todos') = Range(todos) \cup {subject}
    BY <2>2 DEF Range
  <2> QED
    BY <2>2, <2>4, <2>5
<1> QED
  BY <1>1, <1>2
---------------------------------------------------------------------------
(* Type correctness.                                                       *)

\* A worker that has a task has a real one.
LEMMA TaskType ==
  ASSUME TypeOK, worker.subject # Nobody
  PROVE  worker \in Tasks /\ worker.subject \in Subjects
  BY DEF TypeOK, Idle, Tasks

LEMMA DownloadType ==
  ASSUME TypeOK, worker.url # Nothing
  PROVE  worker \in Tasks /\ worker.url \in Urls /\ worker.subject \in Subjects
  BY DEF TypeOK, Idle, Tasks

LEMMA IconType ==
  ASSUME TypeOK
  PROVE  /\ DOMAIN icons \subseteq Urls
         /\ \A url : IconOf(url) \in Icons
         /\ \A url \in DOMAIN icons : icons[url] \in Icons /\ IconOf(url) = icons[url]
  BY DEF TypeOK, Icons, IconOf

LEMMA LinkType ==
  ASSUME TypeOK, NEW token \in Tokens
  PROVE  /\ DOMAIN links[token] \subseteq Urls
         /\ \A url \in DOMAIN links[token] : links[token][url] \in Pictures \cup {Nothing}
         /\ links[token] = [url \in DOMAIN links[token] |-> links[token][url]]
  BY DEF TypeOK

\* The tokens of a task.
LEMMA TargetFacts ==
  ASSUME NEW subject \in Subjects
  PROVE  /\ Targets(subject) \subseteq Tokens
         /\ \A token \in Tokens :
              token \in Targets(subject) <=> subject \in {token, IssuerOf[token]}
  BY DEF Targets, Subjects

\* Linking adds one url to the links of the task's tokens.
LEMMA LinkFacts ==
  ASSUME TypeOK, worker.subject # Nobody,
         NEW url \in Urls, NEW picture \in Pictures \cup {Nothing}, Link(url, picture)
  PROVE  /\ DOMAIN links' = Tokens
         /\ \A token \in Tokens :
              /\ DOMAIN links'[token] \subseteq Urls
              /\ links'[token] \in [DOMAIN links'[token] -> Pictures \cup {Nothing}]
         /\ \A token \in Targets(worker.subject) :
              /\ token \in Tokens
              /\ DOMAIN links'[token] = DOMAIN links[token] \cup {url}
              /\ links'[token][url] = picture
              /\ \A u \in DOMAIN links[token] \ {url} : links'[token][u] = links[token][u]
         /\ \A token \in Tokens \ Targets(worker.subject) : links'[token] = links[token]
<1>1. Targets(worker.subject) \subseteq Tokens
  BY TaskType, TargetFacts
<1>2. ASSUME NEW token \in Targets(worker.subject)
      PROVE  /\ links'[token] \in [DOMAIN links[token] \cup {url} -> Pictures \cup {Nothing}]
             /\ links'[token][url] = picture
             /\ \A u \in DOMAIN links[token] \ {url} : links'[token][u] = links[token][u]
             /\ DOMAIN links[token] \subseteq Urls
  BY <1>1, <1>2, LinkType DEF Link
<1>3. ASSUME NEW token \in Tokens \ Targets(worker.subject) PROVE links'[token] = links[token]
  BY <1>3 DEF Link
<1>4. ASSUME NEW token \in Tokens
      PROVE  /\ DOMAIN links'[token] \subseteq Urls
             /\ links'[token] \in [DOMAIN links'[token] -> Pictures \cup {Nothing}]
  <2>1. CASE token \in Targets(worker.subject)
    BY <1>2, <2>1
  <2>2. CASE token \notin Targets(worker.subject)
    <3>1. links'[token] = links[token]
      BY <1>3, <2>2
    <3>2. /\ DOMAIN links[token] \subseteq Urls
          /\ links[token] \in [DOMAIN links[token] -> Pictures \cup {Nothing}]
      BY LinkType
    <3> QED
      BY <3>1, <3>2
  <2> QED
    BY <2>1, <2>2
<1>5. DOMAIN links' = Tokens
  BY DEF Link
<1> QED
  BY <1>1, <1>2, <1>3, <1>4, <1>5

\* Unlinking takes urls away from the links of some tokens.
LEMMA UnlinkFacts ==
  ASSUME TypeOK, NEW urls, NEW targets, Unlink(urls, targets)
  PROVE  /\ DOMAIN links' = Tokens
         /\ \A token \in Tokens :
              /\ links'[token] \in [DOMAIN links'[token] -> Pictures \cup {Nothing}]
              /\ DOMAIN links'[token]
                   = IF token \in targets THEN DOMAIN links[token] \ urls ELSE DOMAIN links[token]
              /\ \A url \in DOMAIN links'[token] : links'[token][url] = links[token][url]
  BY LinkType DEF Unlink, Restrict

LEMMA LinksTyped ==
  ASSUME TypeOK, DOMAIN links' = Tokens,
         \A token \in Tokens : /\ DOMAIN links'[token] \subseteq Urls
                               /\ links'[token] \in [DOMAIN links'[token] -> Pictures \cup {Nothing}]
  PROVE  \A token \in Tokens :
           \E linked \in SUBSET Urls : links'[token] \in [linked -> Pictures \cup {Nothing}]
  OBVIOUS

LEMMA TypeWrite ==
  ASSUME TypeOK, NEW subject \in Subjects, NEW urls \in SUBSET Urls, Write(subject, urls)
  PROVE  TypeOK'
<1>1. Mark(subject)
  BY DEF Write
<1>2. todos' \in Seq(Subjects) /\ IsInjective(todos')
  BY <1>1, MarkFacts DEF TypeOK
<1> QED
  BY <1>2 DEF TypeOK, Write

LEMMA TypeDiff ==
  ASSUME TypeOK, NEW subject \in Subjects, NEW urls \in SUBSET Urls, Diff(subject, urls)
  PROVE  TypeOK'
  BY DEF TypeOK, Diff

LEMMA TypeTake ==
  ASSUME TypeOK, NEW url \in Urls, Take(url)
  PROVE  TypeOK'
<1>1. worker \in Tasks /\ worker.subject \in Subjects
  BY TaskType DEF Take
<1>2. icons' \in [DOMAIN icons \cup {url} -> Icons] /\ DOMAIN icons \cup {url} \subseteq Urls
  BY IconType DEF Take
<1>3. users' \subseteq Urls \X Subjects
  BY <1>1 DEF Take, TypeOK
<1>4. worker' \in Tasks
  <2>1. \/ worker' = [worker EXCEPT !.left = @ \ {url}, !.url = url]
        \/ worker' = [worker EXCEPT !.left = @ \ {url}]
    BY DEF Take
  <2>2. worker.left \ {url} \in SUBSET Urls /\ url \in Urls \cup {Nothing}
    BY <1>1 DEF Tasks
  <2> QED
    BY <1>1, <2>1, <2>2 DEF Tasks
<1>5. CASE IconOf(url).due
  BY <1>2, <1>3, <1>4, <1>5 DEF Take, TypeOK
<1>6. CASE ~IconOf(url).due
  <2>1. Link(url, IconOf(url).picture) /\ worker.subject # Nobody
    BY <1>6 DEF Take, Linked
  <2>2. IconOf(url).picture \in Pictures \cup {Nothing}
    BY IconType DEF Icons
  <2>3. Targets(worker.subject) \subseteq Tokens
    BY <1>1, TargetFacts
  <2>4. /\ DOMAIN links' = Tokens
        /\ \A token \in Tokens : /\ DOMAIN links'[token] \subseteq Urls
                                  /\ links'[token] \in [DOMAIN links'[token] -> Pictures \cup {Nothing}]
    BY <2>1, <2>2, LinkFacts
  <2>5. \A token \in Tokens :
          \E linked \in SUBSET Urls : links'[token] \in [linked -> Pictures \cup {Nothing}]
    BY <2>4, LinksTyped
  <2>6. rows' \subseteq Tokens /\ missed' \subseteq Urls \X Subjects /\ cut' \subseteq Urls \X Tokens
    BY <2>1, <2>3 DEF Link, TypeOK
  <2> QED
    BY <1>2, <1>3, <1>4, <2>4, <2>5, <2>6 DEF Take, TypeOK
<1> QED
  BY <1>5, <1>6

LEMMA TypeDownloaded ==
  ASSUME TypeOK, NEW picture \in Pictures, Downloaded(picture)
  PROVE  TypeOK'
<1>1. worker \in Tasks /\ worker.url \in Urls /\ worker.subject \in Subjects
  BY DownloadType DEF Downloaded
<1>2. DOMAIN icons \subseteq Urls /\ icons' \in [DOMAIN icons -> Icons]
  BY IconType DEF Downloaded, TypeOK, Icons
<1>3. worker' \in Tasks
  BY <1>1 DEF Downloaded, Tasks
<1>4. Link(worker.url, picture) /\ worker.subject # Nobody
  BY <1>1 DEF Downloaded
<1>5. Targets(worker.subject) \subseteq Tokens
  BY <1>1, TargetFacts
<1>6. /\ DOMAIN links' = Tokens
      /\ \A token \in Tokens : /\ DOMAIN links'[token] \subseteq Urls
                                /\ links'[token] \in [DOMAIN links'[token] -> Pictures \cup {Nothing}]
  BY <1>1, <1>4, LinkFacts
<1>7. \A token \in Tokens :
        \E linked \in SUBSET Urls : links'[token] \in [linked -> Pictures \cup {Nothing}]
  BY <1>6, LinksTyped
<1>8. rows' \subseteq Tokens /\ missed' \subseteq Urls \X Subjects /\ cut' \subseteq Urls \X Tokens
  BY <1>4, <1>5 DEF Link, TypeOK
<1>9. files' \subseteq Pictures \cup {Nothing} /\ shot' \subseteq Urls \X Pictures
  BY <1>1 DEF Downloaded, TypeOK
<1> QED
  BY <1>2, <1>3, <1>6, <1>7, <1>8, <1>9 DEF Downloaded, TypeOK

LEMMA TypeDownloadFailed ==
  ASSUME TypeOK, NEW picture \in Pictures, DownloadFailed(picture)
  PROVE  TypeOK'
<1>1. worker \in Tasks /\ worker.url \in Urls /\ worker.subject \in Subjects
  BY DownloadType DEF DownloadFailed
<1>2. DOMAIN icons \subseteq Urls /\ icons' \in [DOMAIN icons -> Icons]
  BY IconType DEF DownloadFailed, TypeOK, Icons
<1>3. worker' \in Tasks
  BY <1>1 DEF DownloadFailed, Tasks
<1>4. missed' \subseteq Urls \X Subjects /\ files' \subseteq Pictures \cup {Nothing}
  BY <1>1 DEF DownloadFailed, TypeOK
<1> QED
  BY <1>2, <1>3, <1>4 DEF DownloadFailed, TypeOK

LEMMA TypeEnd ==
  ASSUME TypeOK, End
  PROVE  TypeOK'
<1>1. worker \in Tasks /\ worker.subject \in Subjects
  BY TaskType DEF End
<1>2. todos' \in Seq(Subjects) /\ IsInjective(todos')
  BY RemoveFirstFacts DEF End, TypeOK
<1>3. Targets(worker.subject) \subseteq Tokens
  BY <1>1, TargetFacts
<1>4. \E urls, targets : Unlink(urls, targets)
  BY DEF End, Finish, FinishFails
<1>5. /\ DOMAIN links' = Tokens
      /\ \A token \in Tokens :
           \E linked \in SUBSET Urls : links'[token] \in [linked -> Pictures \cup {Nothing}]
  BY <1>4, UnlinkFacts, LinkType, LinksTyped
<1>6. CASE Finish
  <2>1. Removed(worker) \subseteq Urls
    BY <1>1 DEF Removed, Tasks
  <2>2. users' \subseteq Urls \X Subjects /\ files' \subseteq Pictures \cup {Nothing}
    BY <1>6 DEF Finish, TypeOK
  <2>3. \E using \in SUBSET Urls : icons' \in [using -> Icons]
    <3>1. PICK unused : icons' = Restrict(icons, DOMAIN icons \ unused)
      BY <1>6 DEF Finish
    <3>2. DOMAIN icons \ unused \in SUBSET Urls /\ icons' \in [DOMAIN icons \ unused -> Icons]
      BY <3>1, IconType DEF Restrict
    <3> QED
      BY <3>2
  <2>4. cut' \subseteq Urls \X Tokens /\ lost' = lost
    BY <1>6, <1>3, <2>1 DEF Finish, TypeOK
  <2> QED
    BY <1>2, <1>5, <2>2, <2>3, <2>4 DEF End, TypeOK
<1>7. CASE FinishFails
  <2>1. Removed(worker) \subseteq Urls
    BY <1>1 DEF Removed, Tasks
  <2>2. cut' \subseteq Urls \X Tokens /\ lost' \subseteq Subjects
    BY <1>7, <1>1, <1>3, <2>1 DEF FinishFails, TypeOK
  <2> QED
    BY <1>2, <1>5, <1>7, <2>2 DEF End, FinishFails, TypeOK
<1> QED
  BY <1>6, <1>7 DEF End

LEMMA TypeStep ==
  ASSUME TypeOK, [Next]_vars
  PROVE  TypeOK'
<1>1. CASE UNCHANGED vars
  BY <1>1 DEF vars, bounds, history, TypeOK
<1>2. ASSUME NEW subject \in Subjects, NEW urls \in SUBSET Urls, Write(subject, urls) \/ Diff(subject, urls)
      PROVE TypeOK'
  BY <1>2, TypeWrite, TypeDiff
<1>3. ASSUME NEW token \in Tokens, CreateRow(token) PROVE TypeOK'
  BY <1>3 DEF CreateRow, bounds, history, TypeOK
<1>4. ASSUME NEW url \in Urls, Renew(url) PROVE TypeOK'
  <2>1. icons' \in [DOMAIN icons -> Icons] /\ DOMAIN icons \subseteq Urls
    BY <1>4, IconType DEF Renew, TypeOK, Icons
  <2> QED
    BY <1>4, <2>1 DEF Renew, history, TypeOK
<1>5. ASSUME NEW url \in Urls, Take(url) PROVE TypeOK'
  BY <1>5, TypeTake
<1>6. ASSUME NEW picture \in Pictures, Downloaded(picture) \/ DownloadFailed(picture) PROVE TypeOK'
  BY <1>6, TypeDownloaded, TypeDownloadFailed
<1>7. CASE Begin
  <2>1. Head(todos) \in Subjects /\ UrlsOf(Head(todos)) \subseteq Urls
    BY <1>7 DEF Begin, TypeOK, UrlsOf
  <2>2. worker' \in Tasks
    BY <1>7, <2>1 DEF Begin, TypeOK, Tasks
  <2> QED
    BY <1>7, <2>2 DEF Begin, bounds, TypeOK
<1>8. CASE End
  BY <1>8, TypeEnd
<1>9. CASE Crash
  BY <1>9 DEF Crash, history, TypeOK
<1> QED
  BY <1>1, <1>2, <1>3, <1>4, <1>5, <1>6, <1>7, <1>8, <1>9 DEF Next

LEMMA TypeInit ==
  ASSUME Init
  PROVE  TypeOK
<1>1. icons \in [{} -> Icons] /\ IsInjective(todos)
  BY DEF Init, IsInjective
<1>2. \A token \in Tokens : links[token] \in [{} -> Pictures \cup {Nothing}]
  BY DEF Init
<1>3. todos \in Seq(Subjects) /\ named \in [Subjects -> SUBSET Urls] /\ DOMAIN links = Tokens
  BY DEF Init
<1>4. /\ \E using \in SUBSET Urls : icons \in [using -> Icons]
      /\ \A token \in Tokens :
           \E linked \in SUBSET Urls : links[token] \in [linked -> Pictures \cup {Nothing}]
  BY <1>1, <1>2
<1> QED
  BY <1>1, <1>3, <1>4 DEF Init, TypeOK

---------------------------------------------------------------------------
(* The invariant.                                                          *)

\* What IconsAreShown asks of an url that a subject names, for one token.
ShownOrExcused(subject, token, url) ==
  \/ url \in DOMAIN links[token]
  \/ <<url, subject>> \in missed
  \/ <<url, token>> \in cut

\* What LinksResolve asks of a picture that an url leads to.
Resolves(url, picture) ==
  picture \in files \cup {Nothing} \cup
    {p \in Pictures : \E other \in Urls \ {url} : <<other, p>> \in shot}

\* The urls of its task that the worker has dealt with.
Dealt == worker.urls \ (worker.left \cup {worker.url})

\* A task is still marked.  Its subject uses what it did at the beginning and
\* what the worker has taken up; what is dealt with is shown; and the urls are
\* those the subject names unless it was marked again.
TaskInv ==
  worker.subject # Nobody =>
    /\ worker.subject \in Range(todos)
    /\ worker.left \subseteq worker.urls
    /\ worker.url # Nothing => worker.url \in worker.urls \ worker.left
    /\ UrlsOf(worker.subject) = worker.using \cup (worker.urls \ worker.left)
    /\ worker.subject \notin lost => named[worker.subject] = worker.urls
    /\ \A token \in Targets(worker.subject) : \A url \in Dealt :
         ShownOrExcused(worker.subject, token, url)

\* The picture of an icon is on disk or was another's too, and was downloaded
\* from its url.
IconsResolve ==
  \A url \in DOMAIN icons :
    /\ Resolves(url, icons[url].picture)
    /\ icons[url].picture # Nothing => <<url, icons[url].picture>> \in shot

IInv ==
  /\ TypeOK /\ TaskInv
  /\ UsersAreExact /\ IconsHaveUsers /\ IconsResolve /\ LinksResolve /\ IconsAreShown

LEMMA InvInit ==
  ASSUME Init
  PROVE  IInv
<1>1. TypeOK
  BY TypeInit
<1>2. /\ users = {} /\ DOMAIN icons = {} /\ worker.subject = Nobody
      /\ \A subject \in Subjects : named[subject] = {}
      /\ \A token \in Tokens : DOMAIN links[token] = {}
  BY DEF Init, Idle
<1> QED
  BY <1>1, <1>2 DEF IInv, TaskInv, UsersAreExact, IconsHaveUsers, IconsResolve, LinksResolve,
                    IconsAreShown, UrlsOf, Resolves

LEMMA InvWrite ==
  ASSUME IInv, TypeOK', NEW subject \in Subjects, NEW urls \in SUBSET Urls, Write(subject, urls)
  PROVE  IInv'
<1>1. Range(todos') = Range(todos) \cup {subject}
  BY MarkFacts DEF IInv, TypeOK, Write
<1>2. /\ lost' = IF worker.subject = subject THEN lost \cup {subject} ELSE lost
      /\ named' = [named EXCEPT ![subject] = urls]
      /\ UNCHANGED <<icons, users, links, files, worker, missed, cut, shot>>
  BY DEF Write
<1>3. \A other \in Subjects \ {subject} : named'[other] = named[other]
  BY <1>2 DEF IInv, TypeOK
<1>4. /\ UNCHANGED Dealt
      /\ \A other : UrlsOf(other)' = UrlsOf(other)
      /\ \A other, token, url : ShownOrExcused(other, token, url)' = ShownOrExcused(other, token, url)
  BY <1>2 DEF Dealt, UrlsOf, ShownOrExcused
<1>5. TaskInv'
  BY <1>1, <1>2, <1>3, <1>4, TaskType DEF IInv, TaskInv
<1>6. UsersAreExact'
  BY <1>1, <1>2, <1>3, <1>4 DEF IInv, UsersAreExact
<1>7. IconsHaveUsers' /\ IconsResolve' /\ LinksResolve'
  BY <1>2, <1>4 DEF IInv, IconsHaveUsers, IconsResolve, Resolves, LinksResolve
<1>8. IconsAreShown'
  BY <1>1, <1>2, <1>3 DEF IInv, IconsAreShown
<1> QED
  BY <1>5, <1>6, <1>7, <1>8 DEF IInv

LEMMA InvDiff ==
  ASSUME IInv, TypeOK', NEW subject \in Subjects, NEW urls \in SUBSET Urls, Diff(subject, urls)
  PROVE  IInv'
<1>1. /\ lost' = lost \cup {subject}
      /\ named' = [named EXCEPT ![subject] = urls]
      /\ UNCHANGED <<todos, icons, users, links, files, worker, missed, cut, shot>>
  BY DEF Diff
<1>2. \A other \in Subjects \ {subject} : named'[other] = named[other]
  BY <1>1 DEF IInv, TypeOK
<1>3. /\ UNCHANGED Dealt
      /\ \A other : UrlsOf(other)' = UrlsOf(other)
      /\ \A other, token, url : ShownOrExcused(other, token, url)' = ShownOrExcused(other, token, url)
  BY <1>1 DEF Dealt, UrlsOf, ShownOrExcused
<1>4. TaskInv'
  BY <1>1, <1>2, <1>3, TaskType DEF IInv, TaskInv
<1>5. UsersAreExact'
  BY <1>1, <1>2, <1>3 DEF IInv, UsersAreExact
<1>6. IconsHaveUsers' /\ IconsResolve' /\ LinksResolve'
  BY <1>1, <1>3 DEF IInv, IconsHaveUsers, IconsResolve, Resolves, LinksResolve
<1>7. IconsAreShown'
  BY <1>1, <1>2 DEF IInv, IconsAreShown
<1> QED
  BY <1>4, <1>5, <1>6, <1>7 DEF IInv

LEMMA InvRenew ==
  ASSUME IInv, TypeOK', NEW url \in Urls, Renew(url)
  PROVE  IInv'
<1>1. UNCHANGED <<named, todos, users, links, files, worker, lost, missed, cut, shot>>
  BY DEF Renew, history
<1>2. DOMAIN icons' = DOMAIN icons /\ \A u \in DOMAIN icons : icons'[u].picture = icons[u].picture
  BY DEF Renew, IInv, TypeOK, Icons
<1>3. TaskInv' /\ UsersAreExact'
  BY <1>1 DEF IInv, TaskInv, UsersAreExact, UrlsOf, ShownOrExcused, Dealt
<1>4. IconsHaveUsers' /\ IconsResolve' /\ LinksResolve' /\ IconsAreShown'
  BY <1>1, <1>2 DEF IInv, IconsHaveUsers, UrlsOf, IconsResolve, Resolves, LinksResolve, IconsAreShown
<1> QED
  BY <1>3, <1>4 DEF IInv

LEMMA InvBegin ==
  ASSUME IInv, TypeOK', Begin
  PROVE  IInv'
<1> DEFINE subject == Head(todos)
<1>1. /\ worker' = [subject |-> subject, using |-> UrlsOf(subject),
                    urls |-> named[subject], left |-> named[subject], url |-> Nothing]
      /\ lost' = lost \ {subject}
      /\ UNCHANGED <<named, todos, icons, users, links, files, missed, cut, shot>>
  BY DEF Begin
<1>2. subject \in Range(todos) /\ subject \in Subjects
  BY DEF Begin, IInv, TypeOK, Range
<1> HIDE DEF subject
<1>3. TaskInv'
  BY <1>1, <1>2 DEF TaskInv, Dealt, UrlsOf
<1>4. UsersAreExact' /\ IconsAreShown'
  BY <1>1, <1>2 DEF IInv, UsersAreExact, IconsAreShown, UrlsOf
<1>5. IconsHaveUsers' /\ IconsResolve' /\ LinksResolve'
  BY <1>1 DEF IInv, IconsHaveUsers, UrlsOf, IconsResolve, Resolves, LinksResolve
<1> QED
  BY <1>3, <1>4, <1>5 DEF IInv

LEMMA InvUnmoved ==
  ASSUME IInv, TypeOK',
         UNCHANGED <<named, todos, icons, users, links, files, lost, missed, cut, shot>>,
         worker' \in {worker, Idle}
  PROVE  IInv'
<1>1. TaskInv'
  BY DEF IInv, TaskInv, Dealt, UrlsOf, ShownOrExcused, Idle
<1>2. UsersAreExact' /\ IconsAreShown' /\ IconsHaveUsers' /\ IconsResolve' /\ LinksResolve'
  BY DEF IInv, UsersAreExact, IconsAreShown, IconsHaveUsers, UrlsOf, IconsResolve, Resolves, LinksResolve
<1> QED
  BY <1>1, <1>2 DEF IInv

\* What was shown or excused stays so when an url is linked.
LEMMA LinkShows ==
  ASSUME TypeOK, worker.subject # Nobody,
         NEW url \in Urls, NEW picture \in Pictures \cup {Nothing}, Link(url, picture),
         NEW subject \in Subjects, NEW token \in Targets(subject), NEW u,
         \/ ShownOrExcused(subject, token, u)
         \/ subject = worker.subject /\ u = url
  PROVE  ShownOrExcused(subject, token, u)'
<1>1. token \in Tokens
  BY TargetFacts
<1>2. token \in Targets(worker.subject) => url \in DOMAIN links'[token]
  BY LinkFacts
<1>3. CASE u \in DOMAIN links[token]
  <2>1. u \in DOMAIN links'[token]
    <3>1. CASE token \in Targets(worker.subject)
      BY <1>3, <3>1, LinkFacts
    <3>2. CASE token \notin Targets(worker.subject)
      BY <1>1, <1>3, <3>2, LinkFacts
    <3> QED
      BY <3>1, <3>2
  <2> QED
    BY <2>1 DEF ShownOrExcused
<1>4. CASE <<u, subject>> \in missed
  BY <1>2, <1>4 DEF ShownOrExcused, Link
<1>5. CASE <<u, token>> \in cut
  BY <1>1, <1>2, <1>5 DEF ShownOrExcused, Link
<1>6. CASE subject = worker.subject /\ u = url
  BY <1>2, <1>6 DEF ShownOrExcused
<1> QED
  BY <1>3, <1>4, <1>5, <1>6 DEF ShownOrExcused

\* An url that its subject uses may be linked to a picture that resolves.
LEMMA LinkSound ==
  ASSUME IInv, worker.subject # Nobody,
         NEW url \in Urls, NEW picture \in Pictures \cup {Nothing}, Link(url, picture),
         UNCHANGED <<named, todos, lost>>,
         users \subseteq users', files \subseteq files', shot \subseteq shot',
         <<url, worker.subject>> \in users', Resolves(url, picture)'
  PROVE  /\ LinksResolve' /\ IconsAreShown'
         /\ \A token \in Tokens :
              DOMAIN links'[token] \subseteq UrlsOf(token)' \cup UrlsOf(IssuerOf[token])'
<1>0. worker.subject \in Subjects /\ TypeOK
  BY TaskType DEF IInv
<1>1. \A token \in Tokens : \A u \in DOMAIN links[token] : Resolves(u, links[token][u])
  BY DEF IInv, LinksResolve, Resolves
<1>2. \A u, p : Resolves(u, p) => Resolves(u, p)'
  BY DEF Resolves
<1>3. ASSUME NEW token \in Tokens, NEW u \in DOMAIN links'[token], NEW p, p = links'[token][u]
      PROVE  /\ Resolves(u, p)'
             /\ u \in UrlsOf(token)' \cup UrlsOf(IssuerOf[token])'
  <2>1. CASE u \in DOMAIN links[token] /\ p = links[token][u]
    <3>1. Resolves(u, p)'
      BY <1>1, <1>2, <2>1
    <3>2. u \in UrlsOf(token) \cup UrlsOf(IssuerOf[token])
      BY <2>1 DEF IInv, IconsHaveUsers
    <3> QED
      BY <3>1, <3>2 DEF UrlsOf
  <2>2. CASE token \in Targets(worker.subject) /\ u = url
    <3>1. p = picture
      BY <1>0, <1>3, <2>2, LinkFacts
    <3>2. worker.subject \in {token, IssuerOf[token]}
      BY <1>0, <2>2, TargetFacts
    <3> QED
      BY <2>2, <3>1, <3>2 DEF UrlsOf
  <2> QED
    <3>1. CASE token \in Targets(worker.subject)
      <4>1. /\ DOMAIN links'[token] = DOMAIN links[token] \cup {url}
            /\ \A v \in DOMAIN links[token] \ {url} : links'[token][v] = links[token][v]
        BY <1>0, <3>1, LinkFacts
      <4> QED
        BY <1>3, <2>1, <2>2, <3>1, <4>1
    <3>2. CASE token \notin Targets(worker.subject)
      <4>1. links'[token] = links[token]
        BY <1>0, <3>2, LinkFacts
      <4> QED
        BY <1>3, <2>1, <4>1
    <3> QED
      BY <3>1, <3>2
<1>4. LinksResolve'
  <2>1. ASSUME NEW token \in Tokens, NEW u \in DOMAIN links'[token], NEW p, p = links'[token][u]
        PROVE  p \in files' \cup {Nothing} \cup
                 {q \in Pictures : \E other \in Urls \ {u} : <<other, q>> \in shot'}
    BY <1>3, <2>1 DEF Resolves
  <2> QED
    BY <2>1 DEF LinksResolve
<1>5. IconsAreShown'
  <2>1. ASSUME NEW subject \in Subjects \ (Range(todos) \cup lost), NEW token \in Targets(subject),
               NEW u \in named[subject]
        PROVE  ShownOrExcused(subject, token, u)'
    <3>1. ShownOrExcused(subject, token, u)
      BY <2>1 DEF IInv, IconsAreShown, ShownOrExcused
    <3> QED
      BY <1>0, <2>1, <3>1, LinkShows
  <2> QED
    BY <2>1 DEF IconsAreShown, ShownOrExcused
<1> QED
  BY <1>3, <1>4, <1>5

LEMMA InvTake ==
  ASSUME IInv, TypeOK', NEW url \in Urls, Take(url)
  PROVE  IInv'
<1> SUFFICES ASSUME NEW subject, subject = worker.subject,
                    NEW picture, picture = IconOf(url).picture
             PROVE  IInv'
  OBVIOUS
<1>0. worker \in Tasks /\ subject \in Subjects /\ subject # Nobody /\ worker.url = Nothing
  BY TaskType DEF IInv, Take
<1>1. /\ icons' = [u \in DOMAIN icons \cup {url} |-> IconOf(u)]
      /\ users' = users \cup {<<url, subject>>}
      /\ url \in worker.left
      /\ UNCHANGED <<named, todos, files, lost, shot>>
  BY DEF Take
<1>2. /\ worker'.subject = subject /\ worker'.using = worker.using /\ worker'.urls = worker.urls
      /\ worker'.left = worker.left \ {url}
      /\ worker'.url = IF IconOf(url).due THEN url ELSE Nothing
  BY <1>0 DEF Take, Tasks
<1>3. /\ \A other \in Subjects \ {subject} : UrlsOf(other)' = UrlsOf(other)
      /\ UrlsOf(subject)' = UrlsOf(subject) \cup {url}
  BY <1>1 DEF UrlsOf
<1>4. IconsResolve'
  <2>1. ASSUME NEW u \in DOMAIN icons PROVE icons'[u] = icons[u]
    BY <1>1, <2>1 DEF IconOf
  <2>2. url \notin DOMAIN icons => icons'[url].picture = Nothing
    BY <1>1 DEF IconOf
  <2>3. DOMAIN icons' = DOMAIN icons \cup {url}
    BY <1>1
  <2>4. \A u, p : Resolves(u, p)' <=> Resolves(u, p)
    BY <1>1 DEF Resolves
  <2>5. Resolves(url, Nothing)
    BY DEF Resolves
  <2>6. ASSUME NEW u \in DOMAIN icons'
        PROVE  /\ Resolves(u, icons'[u].picture)
               /\ icons'[u].picture # Nothing => <<u, icons'[u].picture>> \in shot
    <3>1. CASE u \in DOMAIN icons
      BY <2>1, <3>1 DEF IInv, IconsResolve
    <3>2. CASE u \notin DOMAIN icons
      BY <2>2, <2>3, <2>5, <2>6, <3>2
    <3> QED
      BY <3>1, <3>2
  <2> QED
    BY <1>1, <2>4, <2>6 DEF IconsResolve, Resolves
<1>5. UsersAreExact'
  BY <1>0, <1>1, <1>3 DEF IInv, TaskInv, UsersAreExact
<1>6. DOMAIN icons' = {use[1] : use \in users'}
  <2>1. DOMAIN icons = {use[1] : use \in users}
    BY DEF IInv, IconsHaveUsers
  <2>2. {use[1] : use \in users \cup {<<url, subject>>}} = {use[1] : use \in users} \cup {url}
    <3>1. <<url, subject>>[1] = url
      OBVIOUS
    <3> DEFINE uses == users \cup {<<url, subject>>}
    <3>2. \A use \in uses : use \in users \/ use = <<url, subject>>
      OBVIOUS
    <3>3. <<url, subject>> \in uses /\ users \subseteq uses
      OBVIOUS
    <3> HIDE DEF uses
    <3>4. {use[1] : use \in uses} \subseteq {use[1] : use \in users} \cup {url}
      BY <3>1, <3>2
    <3>5. {use[1] : use \in users} \cup {url} \subseteq {use[1] : use \in uses}
      BY <3>1, <3>3
    <3> QED
      BY <3>4, <3>5 DEF uses
  <2> QED
    BY <1>1, <2>1, <2>2
<1>7. /\ LinksResolve' /\ IconsAreShown'
      /\ \A token \in Tokens :
           DOMAIN links'[token] \subseteq UrlsOf(token)' \cup UrlsOf(IssuerOf[token])'
  <2>1. CASE IconOf(url).due
    <3>1. UNCHANGED <<links, missed, cut>>
      BY <2>1 DEF Take
    <3> QED
      BY <1>1, <1>3, <3>1 DEF IInv, LinksResolve, IconsAreShown, IconsHaveUsers, UrlsOf
  <2>2. CASE ~IconOf(url).due
    <3>1. Link(url, picture)
      BY <2>2 DEF Take, Linked
    <3>2. picture \in Pictures \cup {Nothing} /\ Resolves(url, picture)
      BY IconType DEF IInv, Icons, IconsResolve, IconOf, Resolves
    <3>3. Resolves(url, picture)'
      BY <1>1, <3>2 DEF Resolves
    <3> QED
      BY <1>0, <1>1, <3>1, <3>2, <3>3, LinkSound
  <2> QED
    BY <2>1, <2>2
<1>8. TaskInv'
  <2>1. /\ worker'.subject \in Range(todos') /\ worker'.left \subseteq worker'.urls
        /\ worker'.url # Nothing => worker'.url \in worker'.urls \ worker'.left
        /\ worker'.subject \notin lost' => named'[worker'.subject] = worker'.urls
    BY <1>0, <1>1, <1>2 DEF IInv, TaskInv
  <2>2. UrlsOf(subject)' = worker'.using \cup (worker'.urls \ worker'.left)
    BY <1>0, <1>1, <1>2, <1>3 DEF IInv, TaskInv
  <2>3. ASSUME NEW token \in Targets(subject), NEW u \in Dealt'
        PROVE  ShownOrExcused(subject, token, u)'
    <3>0. \A v \in Dealt : ShownOrExcused(subject, token, v)
      BY <1>0 DEF IInv, TaskInv
    <3>1. CASE IconOf(url).due
      <4>1. UNCHANGED <<links, missed, cut>>
        BY <3>1 DEF Take
      <4>2. u \in Dealt
        <5>1. u \in worker.urls /\ u \notin worker.left /\ u # url
          BY <1>2, <2>3, <3>1 DEF Dealt
        <5>2. u # Nothing
          BY <1>0, <5>1, IconAssumption DEF Tasks
        <5> QED
          BY <1>0, <5>1, <5>2 DEF Dealt
      <4> QED
        BY <3>0, <4>1, <4>2 DEF ShownOrExcused
    <3>2. CASE ~IconOf(url).due
      <4>1. Link(url, picture) /\ picture \in Pictures \cup {Nothing} /\ TypeOK
        BY <3>2, IconType DEF Take, Linked, IInv, Icons
      <4>2. u = url \/ u \in Dealt
        BY <1>0, <1>1, <1>2, <3>2, IconAssumption DEF Dealt
      <4>3. u = url \/ ShownOrExcused(subject, token, u)
        BY <3>0, <4>2
      <4> QED
        BY <1>0, <4>1, <4>3, LinkShows
    <3> QED
      BY <3>1, <3>2
  <2> QED
    BY <1>2, <2>1, <2>2, <2>3 DEF TaskInv
<1> QED
  BY <1>4, <1>5, <1>6, <1>7, <1>8 DEF IInv, IconsHaveUsers

LEMMA InvDownloaded ==
  ASSUME IInv, TypeOK', NEW picture \in Pictures, Downloaded(picture)
  PROVE  IInv'
<1> SUFFICES ASSUME NEW subject, subject = worker.subject, NEW url, url = worker.url
             PROVE  IInv'
  OBVIOUS
<1>0. /\ worker \in Tasks /\ subject \in Subjects /\ subject # Nobody /\ url \in Urls /\ url # Nothing
      /\ TypeOK /\ Link(url, picture)
  BY DownloadType DEF IInv, Downloaded
<1>1. /\ files' = files \cup {picture} /\ shot' = shot \cup {<<url, picture>>}
      /\ icons' = [icons EXCEPT ![url] = [picture |-> picture, due |-> FALSE]]
      /\ UNCHANGED <<named, todos, users, lost>>
  BY DEF Downloaded
<1>2. /\ worker'.subject = subject /\ worker'.using = worker.using /\ worker'.urls = worker.urls
      /\ worker'.left = worker.left /\ worker'.url = Nothing
  BY <1>0 DEF Downloaded, Tasks
<1>3. \A other : UrlsOf(other)' = UrlsOf(other)
  BY <1>1 DEF UrlsOf
<1>4. <<url, subject>> \in users /\ url \in worker.urls
  BY <1>0 DEF IInv, TaskInv, UrlsOf
<1>5. DOMAIN icons' = DOMAIN icons
  BY <1>1
<1>6. UsersAreExact'
  BY <1>1, <1>3 DEF IInv, UsersAreExact
<1>7. picture \in Pictures \cup {Nothing} /\ Resolves(url, picture)'
  BY <1>1 DEF Resolves
<1>8. /\ LinksResolve' /\ IconsAreShown'
      /\ \A token \in Tokens :
           DOMAIN links'[token] \subseteq UrlsOf(token)' \cup UrlsOf(IssuerOf[token])'
  BY <1>0, <1>1, <1>4, <1>7, LinkSound
<1>9. IconsHaveUsers'
  BY <1>1, <1>5, <1>8 DEF IInv, IconsHaveUsers
<1>10. IconsResolve'
  <2>1. ASSUME NEW u \in DOMAIN icons, NEW p, p = icons'[u].picture
        PROVE  Resolves(u, p)' /\ (p # Nothing => <<u, p>> \in shot')
    <3>1. CASE u = url
      BY <1>1, <1>7, <2>1, <3>1
    <3>2. CASE u # url
      <4>1. p = icons[u].picture
        BY <1>1, <2>1, <3>2
      <4>2. Resolves(u, p) /\ (p # Nothing => <<u, p>> \in shot)
        BY <4>1 DEF IInv, IconsResolve
      <4> QED
        BY <1>1, <4>2 DEF Resolves
    <3> QED
      BY <3>1, <3>2
  <2>2. ASSUME NEW u \in DOMAIN icons', NEW p, p = icons'[u].picture
        PROVE  /\ p \in files' \cup {Nothing} \cup
                    {q \in Pictures : \E other \in Urls \ {u} : <<other, q>> \in shot'}
               /\ p # Nothing => <<u, p>> \in shot'
    BY <1>5, <2>1, <2>2 DEF Resolves
  <2> QED
    BY <2>2 DEF IconsResolve, Resolves
<1>11. TaskInv'
  <2>1. /\ worker'.subject \in Range(todos') /\ worker'.left \subseteq worker'.urls
        /\ worker'.url = Nothing
        /\ worker'.subject \notin lost' => named'[worker'.subject] = worker'.urls
        /\ UrlsOf(subject)' = worker'.using \cup (worker'.urls \ worker'.left)
    BY <1>0, <1>1, <1>2, <1>3 DEF IInv, TaskInv
  <2>2. ASSUME NEW token \in Targets(subject), NEW u \in Dealt'
        PROVE  ShownOrExcused(subject, token, u)'
    <3>1. u = url \/ u \in Dealt
      BY <1>2, <2>2 DEF Dealt
    <3>2. u = url \/ ShownOrExcused(subject, token, u)
      BY <1>0, <3>1 DEF IInv, TaskInv
    <3> QED
      BY <1>0, <1>7, <3>2, LinkShows
  <2> QED
    BY <1>2, <2>1, <2>2 DEF TaskInv
<1> QED
  BY <1>6, <1>8, <1>9, <1>10, <1>11 DEF IInv

LEMMA InvDownloadFailed ==
  ASSUME IInv, TypeOK', NEW picture \in Pictures, DownloadFailed(picture)
  PROVE  IInv'
<1> SUFFICES ASSUME NEW subject, subject = worker.subject, NEW url, url = worker.url
             PROVE  IInv'
  OBVIOUS
<1>0. worker \in Tasks /\ subject \in Subjects /\ subject # Nobody /\ url \in Urls
  BY DownloadType DEF IInv, DownloadFailed
<1>1. /\ files \subseteq files' /\ missed' = missed \cup {<<url, subject>>}
      /\ UNCHANGED <<named, todos, users, links, lost, cut, shot>>
      /\ worker'.subject = subject /\ worker'.using = worker.using /\ worker'.urls = worker.urls
      /\ worker'.left = worker.left /\ worker'.url = Nothing
  BY <1>0 DEF DownloadFailed, Tasks
<1>2. DOMAIN icons' = DOMAIN icons /\ \A u \in DOMAIN icons : icons'[u].picture = icons[u].picture
  BY IconType DEF DownloadFailed, IInv, Icons
<1>3. \A u, p : Resolves(u, p) => Resolves(u, p)'
  BY <1>1 DEF Resolves
<1>4. \A other, token, u : ShownOrExcused(other, token, u) => ShownOrExcused(other, token, u)'
  BY <1>1 DEF ShownOrExcused
<1>5. UsersAreExact' /\ IconsHaveUsers'
  BY <1>1, <1>2 DEF IInv, UsersAreExact, IconsHaveUsers, UrlsOf
<1>6. LinksResolve' /\ IconsAreShown'
  BY <1>1 DEF IInv, LinksResolve, IconsAreShown
<1>7. IconsResolve'
  BY <1>1, <1>2 DEF IInv, IconsResolve, Resolves
<1>8. TaskInv'
  <2>1. /\ worker'.subject \in Range(todos') /\ worker'.left \subseteq worker'.urls
        /\ worker'.subject \notin lost' => named'[worker'.subject] = worker'.urls
        /\ UrlsOf(subject)' = worker'.using \cup (worker'.urls \ worker'.left)
    BY <1>0, <1>1 DEF IInv, TaskInv, UrlsOf
  <2>2. ASSUME NEW token \in Targets(subject), NEW u \in Dealt'
        PROVE  ShownOrExcused(subject, token, u)'
    <3>1. u = url \/ u \in Dealt
      BY <1>1, <2>2 DEF Dealt
    <3>2. u = url \/ ShownOrExcused(subject, token, u)
      BY <1>0, <3>1 DEF IInv, TaskInv
    <3> QED
      BY <1>1, <1>4, <3>2 DEF ShownOrExcused
  <2> QED
    BY <1>1, <2>1, <2>2 DEF TaskInv
<1> QED
  BY <1>5, <1>6, <1>7, <1>8 DEF IInv

LEMMA InvFinish ==
  ASSUME IInv, TypeOK', End, Finish
  PROVE  IInv'
<1> SUFFICES ASSUME NEW subject, subject = worker.subject, NEW removed, removed = Removed(worker),
                    NEW unused, unused = Unused(worker, users \ (removed \X {subject}))
             PROVE  IInv'
  OBVIOUS
<1>0. /\ worker \in Tasks /\ subject \in Subjects /\ subject # Nobody
      /\ worker.left = {} /\ worker.url = Nothing /\ TypeOK
  BY TaskType DEF IInv, End
<1>1. /\ Unlink(removed, Targets(subject))
      /\ users' = users \ (removed \X {subject})
      /\ files' = files \ {icons[url].picture : url \in unused}
      /\ icons' = Restrict(icons, DOMAIN icons \ unused)
      /\ cut' = cut \cup {link \in removed \X Targets(subject) :
                            \E other \in {link[2], IssuerOf[link[2]]} : <<link[1], other>> \in users'}
      /\ UNCHANGED <<named, lost, missed, shot>>
      /\ worker' = Idle
  BY DEF End, Finish
<1>2. Range(todos') = Range(todos) \ {subject}
  BY <1>0, RemoveFirstFacts DEF End, TypeOK
<1>3. /\ removed = worker.using \ worker.urls
      /\ UrlsOf(subject) = worker.using \cup worker.urls
      /\ subject \notin lost => named[subject] = worker.urls
      /\ \A token \in Targets(subject) : \A url \in worker.urls : ShownOrExcused(subject, token, url)
  <2>1. Dealt = worker.urls
    BY <1>0, IconAssumption DEF Dealt, Tasks
  <2> QED
    BY <1>0, <2>1 DEF IInv, TaskInv, Removed
<1>4. /\ UrlsOf(subject)' = worker.urls
      /\ \A other \in Subjects \ {subject} : UrlsOf(other)' = UrlsOf(other)
      /\ \A other \in Subjects : UrlsOf(other) \ removed \subseteq UrlsOf(other)'
  BY <1>0, <1>1, <1>3 DEF UrlsOf, Tasks
<1>5. \A url \in unused : ~\E other \in Subjects : <<url, other>> \in users'
  BY <1>1 DEF Unused
<1>6. \A url \in DOMAIN icons \ unused : \E other \in Subjects : <<url, other>> \in users'
  <2>1. ASSUME NEW url \in DOMAIN icons \ unused PROVE \E other \in Subjects : <<url, other>> \in users'
    <3>1. PICK use \in users : url = use[1]
      BY DEF IInv, IconsHaveUsers
    <3>2. use = <<url, use[2]>> /\ use[2] \in Subjects
      BY <1>0, <3>1 DEF TypeOK
    <3>3. CASE url \in worker.using
      BY <1>1, <2>1, <3>3 DEF Unused
    <3>4. CASE url \notin worker.using
      BY <1>1, <1>3, <3>2, <3>4
    <3> QED
      BY <3>3, <3>4
  <2> QED
    BY <2>1
<1>7. DOMAIN icons' = DOMAIN icons \ unused /\ \A url \in DOMAIN icons' : icons'[url] = icons[url]
  BY <1>1 DEF Restrict
<1>8. UsersAreExact'
  BY <1>0, <1>1, <1>2, <1>3, <1>4 DEF IInv, UsersAreExact
<1>9. DOMAIN icons' = {use[1] : use \in users'}
  <2>1. ASSUME NEW url \in DOMAIN icons' PROVE url \in {use[1] : use \in users'}
    <3>1. PICK other \in Subjects : <<url, other>> \in users'
      BY <1>6, <1>7
    <3>2. url = <<url, other>>[1]
      OBVIOUS
    <3> QED
      BY <3>1, <3>2
  <2>2. ASSUME NEW use \in users' PROVE use[1] \in DOMAIN icons'
    <3>1. use \in users /\ use = <<use[1], use[2]>> /\ use[2] \in Subjects
      BY <1>0, <1>1 DEF TypeOK
    <3>2. use[1] \in DOMAIN icons
      BY <3>1 DEF IInv, IconsHaveUsers
    <3>3. use[1] \notin unused
      BY <1>5, <2>2, <3>1
    <3> QED
      BY <1>7, <3>2, <3>3
  <2> QED
    BY <2>1, <2>2
<1>10. /\ DOMAIN links' = Tokens
       /\ \A token \in Tokens :
            /\ DOMAIN links'[token]
                 = IF token \in Targets(subject) THEN DOMAIN links[token] \ removed ELSE DOMAIN links[token]
            /\ \A url \in DOMAIN links'[token] : links'[token][url] = links[token][url]
  BY <1>0, <1>1, UnlinkFacts
<1>11. ASSUME NEW token \in Tokens, NEW url \in DOMAIN links'[token]
       PROVE  url \in UrlsOf(token)' \cup UrlsOf(IssuerOf[token])'
  <2>1. url \in UrlsOf(token) \cup UrlsOf(IssuerOf[token])
    BY <1>10 DEF IInv, IconsHaveUsers
  <2>2. token \in Subjects /\ IssuerOf[token] \in Subjects
    BY DEF Subjects
  <2>3. CASE token \in Targets(subject)
    BY <1>4, <1>10, <1>11, <2>1, <2>2, <2>3
  <2>4. CASE token \notin Targets(subject)
    <3>1. subject \notin {token, IssuerOf[token]}
      BY <1>0, <2>4, TargetFacts
    <3> QED
      BY <1>4, <2>1, <2>2, <3>1
  <2> QED
    BY <2>3, <2>4
<1>12. ASSUME NEW url \in Urls, NEW p, url \notin unused, Resolves(url, p)
       PROVE  Resolves(url, p)'
  <2>1. CASE p \in {icons[u].picture : u \in unused} /\ p # Nothing
    <3>1. PICK u \in unused : p = icons[u].picture
      BY <2>1
    <3>2. u \in DOMAIN icons /\ u \in Urls
      <4>1. u \in worker.using /\ u \in Urls /\ u \in UrlsOf(subject)
        BY <1>0, <1>3 DEF Unused, Tasks
      <4>2. <<u, subject>> \in users /\ u = <<u, subject>>[1]
        BY <4>1 DEF UrlsOf
      <4> QED
        BY <4>1, <4>2 DEF IInv, IconsHaveUsers
    <3>3. <<u, p>> \in shot /\ p \in Pictures
      BY <1>0, <2>1, <3>1, <3>2, IconType DEF IInv, IconsResolve, Icons
    <3> QED
      BY <1>1, <1>12, <3>2, <3>3 DEF Resolves
  <2> QED
    BY <1>1, <1>12, <2>1 DEF Resolves
<1>13. LinksResolve'
  <2>1. ASSUME NEW token \in Tokens, NEW url \in DOMAIN links'[token], NEW p, p = links'[token][url]
        PROVE  p \in files' \cup {Nothing} \cup
                 {q \in Pictures : \E other \in Urls \ {url} : <<other, q>> \in shot'}
    <3>1. url \in DOMAIN links[token] /\ p = links[token][url]
      BY <1>10, <2>1
    <3>2. Resolves(url, p)
      BY <3>1 DEF IInv, LinksResolve, Resolves
    <3>3. url \in Urls /\ url \notin unused
      <4>1. token \in Subjects /\ IssuerOf[token] \in Subjects
        BY DEF Subjects
      <4> QED
        BY <1>5, <1>11, <2>1, <4>1 DEF UrlsOf
    <3>4. Resolves(url, p)'
      BY <1>12, <3>2, <3>3
    <3> QED
      BY <3>4 DEF Resolves
  <2> QED
    BY <2>1 DEF LinksResolve
<1>14. IconsResolve'
  <2>1. ASSUME NEW url \in DOMAIN icons', NEW p, p = icons'[url].picture
        PROVE  /\ p \in files' \cup {Nothing} \cup
                    {q \in Pictures : \E other \in Urls \ {url} : <<other, q>> \in shot'}
               /\ p # Nothing => <<url, p>> \in shot'
    <3>1. url \in DOMAIN icons /\ url \notin unused /\ p = icons[url].picture /\ url \in Urls
      BY <1>0, <1>7, <2>1, IconType
    <3>2. Resolves(url, p) /\ (p # Nothing => <<url, p>> \in shot)
      BY <3>1 DEF IInv, IconsResolve
    <3>3. Resolves(url, p)'
      BY <1>12, <3>1, <3>2
    <3> QED
      BY <1>1, <3>2, <3>3 DEF Resolves
  <2> QED
    BY <2>1 DEF IconsResolve, Resolves
<1>15. IconsAreShown'
  <2>1. ASSUME NEW other \in Subjects \ (Range(todos') \cup lost'), NEW token \in Targets(other),
               NEW url \in named'[other]
        PROVE  ShownOrExcused(other, token, url)'
    <3>0. token \in Tokens /\ other \in {token, IssuerOf[token]}
      BY TargetFacts
    <3>1. ShownOrExcused(other, token, url)
      <4>1. CASE other = subject
        BY <1>1, <1>3, <2>1, <4>1
      <4>2. CASE other # subject
        BY <1>1, <1>2, <2>1, <4>2 DEF IInv, IconsAreShown, ShownOrExcused
      <4> QED
        BY <4>1, <4>2
    <3>2. CASE url \in DOMAIN links[token] /\ url \notin DOMAIN links'[token]
      <4>1. token \in Targets(subject) /\ url \in removed
        BY <1>10, <3>0, <3>2
      <4>2. other # subject
        BY <1>1, <1>3, <2>1, <4>1
      <4>3. <<url, other>> \in users'
        BY <1>1, <1>2, <1>4, <2>1, <4>2 DEF IInv, UsersAreExact, UrlsOf
      <4>4. <<url, token>> \in removed \X Targets(subject) /\ other \in {<<url, token>>[2], IssuerOf[<<url, token>>[2]]}
            /\ <<url, token>>[1] = url
        BY <3>0, <4>1
      <4>5. <<url, token>> \in cut'
        BY <1>1, <4>3, <4>4
      <4> QED
        BY <4>5 DEF ShownOrExcused
    <3>3. CASE ~(url \in DOMAIN links[token] /\ url \notin DOMAIN links'[token])
      BY <1>1, <3>1, <3>3 DEF ShownOrExcused
    <3> QED
      BY <3>2, <3>3
  <2> QED
    BY <2>1 DEF IconsAreShown, ShownOrExcused
<1>16. TaskInv'
  BY <1>1 DEF TaskInv, Idle
<1>17. IconsHaveUsers'
  BY <1>9, <1>11 DEF IconsHaveUsers
<1> QED
  BY <1>8, <1>13, <1>14, <1>15, <1>16, <1>17 DEF IInv

LEMMA InvFinishFails ==
  ASSUME IInv, TypeOK', End, FinishFails
  PROVE  IInv'
<1> SUFFICES ASSUME NEW subject, subject = worker.subject
             PROVE  IInv'
  OBVIOUS
<1>0. worker \in Tasks /\ subject \in Subjects /\ subject # Nobody /\ TypeOK
  BY TaskType DEF IInv, End
<1>1. PICK urls \in SUBSET Removed(worker), first \in SUBSET Targets(subject) : Unlink(urls, first)
  <2>1. PICK url \in Removed(worker), first \in SUBSET (Targets(subject) \cap rows) : Unlink({url}, first)
    BY DEF FinishFails
  <2> QED
    BY <2>1
<1>2. /\ cut' = cut \cup (Removed(worker) \X Targets(subject))
      /\ lost' = lost \cup {subject} /\ worker' = Idle
      /\ UNCHANGED <<named, users, files, icons, missed, shot>>
  BY DEF End, FinishFails
<1>3. Range(todos') = Range(todos) \ {subject}
  BY <1>0, RemoveFirstFacts DEF End, TypeOK
<1>4. /\ DOMAIN links' = Tokens
      /\ \A token \in Tokens :
           /\ DOMAIN links'[token]
                = IF token \in first THEN DOMAIN links[token] \ urls ELSE DOMAIN links[token]
           /\ \A u \in DOMAIN links'[token] : links'[token][u] = links[token][u]
  BY <1>0, <1>1, UnlinkFacts
<1>5. UsersAreExact' /\ IconsHaveUsers' /\ IconsResolve'
  <2>0. UsersAreExact /\ IconsHaveUsers /\ IconsResolve
    BY DEF IInv
  <2>1. UsersAreExact'
    BY <1>2, <1>3, <2>0 DEF UsersAreExact, UrlsOf
  <2>2. IconsHaveUsers'
    <3>1. \A token \in Tokens : DOMAIN links'[token] \subseteq DOMAIN links[token]
      BY <1>4
    <3> QED
      BY <1>2, <2>0, <3>1 DEF IconsHaveUsers, UrlsOf
  <2>3. IconsResolve'
    BY <1>2, <2>0 DEF IconsResolve, Resolves
  <2> QED
    BY <2>1, <2>2, <2>3
<1>6. LinksResolve'
  <2>1. ASSUME NEW token \in Tokens, NEW u \in DOMAIN links'[token], NEW p, p = links'[token][u]
        PROVE  p \in files' \cup {Nothing} \cup
                 {q \in Pictures : \E other \in Urls \ {u} : <<other, q>> \in shot'}
    <3>1. u \in DOMAIN links[token] /\ p = links[token][u]
      BY <1>4, <2>1
    <3>2. Resolves(u, p)
      BY <3>1 DEF IInv, LinksResolve, Resolves
    <3> QED
      BY <1>2, <3>2 DEF Resolves
  <2> QED
    BY <2>1 DEF LinksResolve
<1>7. IconsAreShown'
  <2>1. ASSUME NEW other \in Subjects \ (Range(todos') \cup lost'), NEW token \in Targets(other),
               NEW u \in named'[other]
        PROVE  ShownOrExcused(other, token, u)'
    <3>1. ShownOrExcused(other, token, u) /\ token \in Tokens
      BY <1>2, <1>3, <2>1, TargetFacts DEF IInv, IconsAreShown, ShownOrExcused
    <3>2. CASE u \in urls /\ token \in first
      BY <1>1, <1>2, <3>2 DEF ShownOrExcused
    <3>3. CASE ~(u \in urls /\ token \in first)
      BY <1>2, <1>4, <3>1, <3>3 DEF ShownOrExcused
    <3> QED
      BY <3>2, <3>3
  <2> QED
    BY <2>1 DEF IconsAreShown, ShownOrExcused
<1>8. TaskInv'
  BY <1>2 DEF TaskInv, Idle
<1> QED
  BY <1>5, <1>6, <1>7, <1>8 DEF IInv

LEMMA InvStep ==
  ASSUME IInv, [Next]_vars
  PROVE  IInv'
<1>0. TypeOK'
  BY TypeStep DEF IInv
<1>1. CASE UNCHANGED vars
  BY <1>0, <1>1, InvUnmoved DEF vars, history
<1>2. ASSUME NEW subject \in Subjects, NEW urls \in SUBSET Urls, Write(subject, urls) \/ Diff(subject, urls)
      PROVE IInv'
  BY <1>0, <1>2, InvWrite, InvDiff
<1>3. ASSUME NEW token \in Tokens, CreateRow(token) PROVE IInv'
  BY <1>0, <1>3, InvUnmoved DEF CreateRow, history
<1>4. ASSUME NEW url \in Urls, Renew(url) \/ Take(url) PROVE IInv'
  BY <1>0, <1>4, InvRenew, InvTake
<1>5. ASSUME NEW picture \in Pictures, Downloaded(picture) \/ DownloadFailed(picture) PROVE IInv'
  BY <1>0, <1>5, InvDownloaded, InvDownloadFailed
<1>6. CASE Begin
  BY <1>0, <1>6, InvBegin
<1>7. CASE End
  BY <1>0, <1>7, InvFinish, InvFinishFails DEF End
<1>8. CASE Crash
  BY <1>0, <1>8, InvUnmoved DEF Crash, history
<1> QED
  BY <1>1, <1>2, <1>3, <1>4, <1>5, <1>6, <1>7, <1>8 DEF Next

---------------------------------------------------------------------------
(* The theorems.                                                           *)

\* The invariant holds in every state the icon cache reaches.
THEOREM IconInvariant == Spec => []IInv
<1>1. Init => IInv
  BY InvInit
<1>2. IInv /\ [Next]_vars => IInv'
  BY InvStep
<1> QED
  BY <1>1, <1>2, PTL DEF Spec

\* Every state is well typed: a subject is queued in cache.todos at most once,
\* and the worker's task is about urls and a subject that exist.
THEOREM TypesHold == Spec => []TypeOK
<1>1. IInv => TypeOK
  BY DEF IInv
<1> QED
  BY <1>1, IconInvariant, PTL

\* The user lists that decide which icons are deleted (cache.iconUsers) are
\* exact for every subject that is not waiting for its task, whatever the order
\* in which tasks, new marks, failed downloads and crashes come.
THEOREM UsersExact == Spec => []UsersAreExact
<1>1. IInv => UsersAreExact
  BY DEF IInv
<1> QED
  BY <1>1, IconInvariant, PTL

\* No icon without a user is kept and none with a user is deleted, and a token
\* links to no url that neither it nor its issuer uses.
THEOREM IconsUsed == Spec => []IconsHaveUsers
<1>1. IInv => IconsHaveUsers
  BY DEF IInv
<1> QED
  BY <1>1, IconInvariant, PTL

\* Deleting the file of an unused icon breaks the link of another token only
\* where two urls have had the same picture.
THEOREM LinksLeadToFiles == Spec => []LinksResolve
<1>1. IInv => LinksResolve
  BY DEF IInv
<1> QED
  BY <1>1, IconInvariant, PTL

\* The tokens of a subject whose task is done link to what it names, but for
\* downloads that failed and urls that another user has taken away.
THEOREM IconsShown == Spec => []IconsAreShown
<1>1. IInv => IconsAreShown
  BY DEF IInv
<1> QED
  BY <1>1, IconInvariant, PTL

===========================================================================
