------------------------------- MODULE Crawl -------------------------------
(***************************************************************************)
(* The crawlers: the three schedules of crawl/schedule.js with their       *)
(* operations table, what each crawler asks for and writes, the chunked    *)
(* diff of db/helpers/props.js, and the marks it leaves for the cache.     *)
(*                                                                         *)
(* All crawlers run in one process; a step is what one of them does        *)
(* between two awaits.  Time is abstracted: an operation is in ops while   *)
(* it is younger than its interval.                                        *)
(***************************************************************************)
EXTENDS Props

CONSTANTS
  Hashed,       \* the accounts with an email hash
  TrustLevel,   \* the most a trust list may give
  Trustlists, CuratedLists, ServiceLists, WellKnownLists,  \* what these lists may say
  Avatars,      \* what a request for a picture may show
  Tomls,        \* what the domain of an account may publish
  Profiles,     \* what a request for profiles may show: a picture by handle
  ChunkSize,    \* DIFF_CHUNK_SIZE
  BatchSize,    \* of the crawler of X
  Concurrency,  \* of those of kyc and domains
  Rows0,        \* the rows at the first launch
  Configs,      \* the sets of crawlers that a configuration leaves enabled
  MaxFetches,   \* bound: requests over the network
  MaxChanges,   \* bound: changes of an account's domain on the ledger
  MaxCrashes    \* bound: how often the process ends

ASSUME CrawlAssumption ==
  /\ {ChunkSize, BatchSize, Concurrency} \subseteq Nat \ {0}
  /\ {TrustLevel, MaxFetches, MaxChanges, MaxCrashes} \subseteq Nat
  /\ IsFiniteSet(Accounts) /\ IsFiniteSet(Tokens)

VARIABLES
  enabled,      \* ctx.config: the tasks of the crawlers that run
  rows,         \* AccountProp, TokenProp
  domains,      \* the accounts whose AccountRoot has a domain
  ops,          \* Operation: <<task, subject>>
  todos,        \* cache.todos: <<task, subject>>
  lists,        \* by list: the diff in progress
  ids,          \* by iterator: the items it has yet to look at
  jobs,         \* by iterator and worker: the item it waits for
  batches,      \* the batched iterator
  fetches, changes, crashes,  \* bounds
  behind,       \* history: what has changed since the cache last looked at it
  lost,         \* history: the part of behind that a crash or a diff that failed
                \* has left unmarked
  retry         \* history: the items of failed batches that are not yet tried again

core == <<rows, domains>>
schedule == <<lists, ids, jobs, batches>>
bounds == <<fetches, changes, crashes>>
history == <<behind, lost, retry>>
vars == <<enabled, core, ops, todos, schedule, bounds, history>>

Lists == {"trustlist", "curated", "services", "wellknown"}
Iterators == {"kyc", "avatar", "gravatar", "domains"}
Global == "global"
Tasks(crawler) ==
  CASE crawler = "trustlists" -> {"trustlist"}
    [] crawler = "xaman"      -> {"curated", "kyc", "avatar"}
    [] crawler = "bithomp"    -> {"services"}
    [] crawler = "xrpscan"    -> {"wellknown"}
    [] OTHER                  -> {crawler}
Nobody == "nobody"
ASSUME NobodyAssumption == Nobody \notin Accounts
Workers(t) == 1 .. (IF t \in {"kyc", "domains"} THEN Concurrency ELSE 1)

Idle == [diffs |-> <<>>, kept |-> {}, dirty |-> {}, icons |-> {}, said |-> <<>>]
Waiting == [ids |-> <<>>, queue |-> <<>>, commit |-> <<>>, open |-> FALSE]

Fetch == fetches < MaxFetches /\ fetches' = fetches + 1

---------------------------------------------------------------------------
(* Marks.  In behind, "props" stands for all rows of a subject, "icons" for *)
(* its icons.                                                              *)

Marks(props, icons) == ({"props"} \X props) \cup ({"icons"} \X icons)
Differences(before, after) == Marks(Changed(before, after), IconChanged(before, after))

\* writeAccountProps, writeTokenProps: one write [subject, props].  A token
\* without properties is skipped.
MarksOf(write) ==
  IF write.subject \in Tokens /\ DOMAIN write.props = {} THEN {}
  ELSE Marks({write.subject}, IF "icon" \in DOMAIN write.props THEN {write.subject} ELSE {})

Written(writes, source) ==
  FoldLeft(LAMBDA r, w : ApplyProps(r, w.subject, w.props, source), rows, writes)

\* The rows become these, and these marks are left.
Commit(after, marks) ==
  /\ rows' = after
  /\ todos' = todos \cup marks
  /\ behind' = behind \cup Differences(rows, after)
  /\ UNCHANGED lost

---------------------------------------------------------------------------
(* What the lists say.  A diff is [of, entries]: a table and its entries.  *)

Entry(subject, props) == [subject |-> subject, props |-> props]

\* The entries of a list that pass a test, in their order.
Where(entries, Test(_)) ==
  FlattenSeq([i \in DOMAIN entries |-> IF Test(entries[i]) THEN <<entries[i]>> ELSE <<>>])

Capped(entry) ==
  IF "trust_level" \in DOMAIN entry.props
  THEN [entry EXCEPT !.props["trust_level"] = Min({@, TrustLevel})]
  ELSE entry

\* A list of tokens: issuers and tokens, and advisories, which are one more
\* entry for the account they warn of.
TrustlistDiffs(list) ==
  LET advisories == [i \in DOMAIN list.advised |-> Entry(list.advised[i], [advisories |-> 1])]
      capped(entries) == [i \in DOMAIN entries |-> Capped(entries[i])]
  IN  << [of      |-> Accounts,
          entries |-> capped(list.issuers) \o (IF TrustLevel > 0 THEN advisories ELSE <<>>)],
         [of |-> Tokens, entries |-> capped(list.tokens)] >>

\* The curated assets: an entry for its issuer with each token of a native
\* issuer.
CuratedDiffs(list) ==
  LET native == Where(list, LAMBDA asset : asset.native)
      Level(shortlist) == IF shortlist THEN 3 ELSE 2
  IN  << [of      |-> Accounts,
          entries |-> [i \in DOMAIN native |->
                         Entry(IssuerOf[native[i].token],
                               [icon |-> native[i].avatar, trust_level |-> Level(native[i].shortlist)])]],
         [of      |-> Tokens,
          entries |-> [i \in DOMAIN native |->
                         Entry(native[i].token,
                               [icon        |-> native[i].icon,
                                trust_level |-> IF native[i].curated THEN Level(native[i].short) ELSE 1])]] >>

\* The services: an entry for each address of each of them.
ServicesDiffs(list) ==
  LET Of(service) == [i \in DOMAIN service.addresses |-> Entry(service.addresses[i], service.props)]
  IN  << [of |-> Accounts, entries |-> FlattenSeq([i \in DOMAIN list |-> Of(list[i])])] >>

\* The well-known accounts: entries without an account are skipped.
WellKnownDiffs(list) ==
  << [of |-> Accounts, entries |-> Where(list, LAMBDA entry : entry.subject \in Accounts)] >>

\* What is parsed of a list, or published: entries for accounts and tokens, with
\* finitely many keys.  The tables have a row at most for a subject, key and
\* source; services and well-known accounts are accounts.
Values == Nat \cup {NoValue}
IsProps(props) ==
  /\ IsFiniteSet(DOMAIN props)
  /\ props = [key \in DOMAIN props |-> props[key]]
  /\ \A key \in DOMAIN props : key \in STRING /\ props[key] \in Values
IsEntry(entry, subjects) ==
  /\ entry = Entry(entry.subject, entry.props)
  /\ entry.subject \in subjects
  /\ IsProps(entry.props)
IsList(list) == list \in Seq(Range(list))
AreEntries(list, subjects) ==
  /\ IsList(list)
  /\ \A entry \in Range(list) :
       /\ IsEntry(entry, subjects)
       /\ "trust_level" \in DOMAIN entry.props => entry.props["trust_level"] \in Nat

ASSUME ListAssumption ==
  /\ \A list \in Trustlists : /\ AreEntries(list.issuers, Accounts)
                              /\ AreEntries(list.tokens, Tokens)
                              /\ list.advised \in Seq(Accounts)
  /\ \A list \in CuratedLists :
       list \in Seq([native: BOOLEAN, token: Tokens, avatar: Values, icon: Values,
                     shortlist: BOOLEAN, short: BOOLEAN, curated: BOOLEAN])
  /\ \A list \in ServiceLists : /\ IsList(list)
                                /\ \A service \in Range(list) : /\ service.addresses \in Seq(Accounts)
                                                              /\ IsProps(service.props)
  /\ \A list \in WellKnownLists :
       IsList(list) /\ \A entry \in Range(list) : entry.subject \in Accounts => IsEntry(entry, Accounts)

ASSUME AnswerAssumption ==
  /\ Avatars \subseteq Nat
  /\ \A toml \in Tomls : IsList(toml) /\ \A entry \in Range(toml) : IsEntry(entry, Subjects)
  /\ \A profiles \in Profiles : \A handle \in DOMAIN profiles : profiles[handle] \in Nat

ASSUME RowsAssumption ==
  /\ IsFiniteSet(Rows0)
  /\ \A r \in Rows0 :
       /\ r = Row(r.subject, r.key, r.source, r.value)
       /\ r.subject \in Subjects /\ r.key \in STRING /\ r.source \in STRING /\ r.value \in Nat
       /\ r.source \in {"services", "wellknown"} => r.subject \in Accounts
       /\ \A q \in Rows0 : [q EXCEPT !.value = 0] = [r EXCEPT !.value = 0] => q = r

Diffs(t) ==
  CASE t = "trustlist" -> {TrustlistDiffs(list) : list \in Trustlists}
    [] t = "curated"   -> {CuratedDiffs(list) : list \in CuratedLists}
    [] t = "services"  -> {ServicesDiffs(list) : list \in ServiceLists}
    [] t = "wellknown" -> {WellKnownDiffs(list) : list \in WellKnownLists}

---------------------------------------------------------------------------
(* scheduleGlobal, and the diffs of a list: diffMultiAccountProps, then    *)
(* diffMultiTokenProps.                                                    *)

\* The list is fetched once its last operation has expired.  What cannot be
\* fetched or parsed is tried again after 4 s; the list of well-known accounts
\* takes what is no list for an answer.
Listed(t) ==
  /\ lists[t] = Idle
  /\ <<t, Global>> \notin ops
  /\ Fetch
  /\ UNCHANGED <<core, todos, ids, jobs, batches, changes, crashes, history>>
  /\ \/ UNCHANGED <<lists, ops>>
     \/ /\ t = "wellknown"
        /\ ops' = ops \cup {<<t, Global>>}
        /\ UNCHANGED lists
     \/ /\ \E diffs \in Diffs(t) :
             lists' = [lists EXCEPT ![t] = [Idle EXCEPT !.diffs = diffs, !.said = diffs]]
        /\ UNCHANGED ops

Diffing(t) == lists[t] # Idle
Diff(t) == Head(lists[t].diffs)
Unswept(t) == Stale(rows, Diff(t).of, lists[t].kept, t)

\* A chunk of entries, in one transaction.
WriteChunk(t) ==
  /\ Diffing(t)
  /\ Diff(t).entries # <<>>
  /\ LET entries == Diff(t).entries
         size    == Min({ChunkSize, Len(entries)})
         diff    == Diffed([rows |-> rows, kept |-> lists[t].kept,
                            dirty |-> lists[t].dirty, icons |-> lists[t].icons],
                           SubSeq(entries, 1, size), t)
     IN  /\ Commit(diff.rows, {})
         /\ lists' = [lists EXCEPT
              ![t].diffs[1].entries = SubSeq(entries, size + 1, Len(entries)),
              ![t].kept = diff.kept, ![t].dirty = diff.dirty, ![t].icons = diff.icons]
  /\ UNCHANGED <<domains, ops, ids, jobs, batches, bounds, retry>>

\* An entry of the chunk cannot be written, an address that is none: the routine
\* ends there, and the list is fetched again after 4 s.  The rows of the chunks
\* before stay, what was to be marked for them is forgotten.
ChunkFails(t) ==
  /\ Diffing(t)
  /\ Diff(t).entries # <<>>
  /\ lists' = [lists EXCEPT ![t] = Idle]
  /\ lost' = lost \cup ((behind \cap Marks(lists[t].dirty, lists[t].icons)) \ todos)
  /\ UNCHANGED <<core, ops, todos, ids, jobs, batches, bounds, behind, retry>>

\* A chunk of the rows that the list no longer names.  Their subjects are to
\* be marked, their icons are not.
Swept(slice) ==
  /\ rows' = rows \ slice
  /\ behind' = behind \cup Marks(Changed(rows, rows'), {})
  /\ UNCHANGED <<todos, lost>>

SweepChunk_Silent(t) ==
  /\ Diffing(t)
  /\ Diff(t).entries = <<>>
  /\ Unswept(t) # {}
  /\ \E slice \in kSubset(Min({ChunkSize, Cardinality(Unswept(t))}), Unswept(t)) :
       Swept(slice)
  /\ UNCHANGED <<domains, ops, schedule, bounds, retry>>
SweepChunk(t) ==
  /\ Diffing(t)
  /\ Diff(t).entries = <<>>
  /\ Unswept(t) # {}
  /\ \E slice \in kSubset(Min({ChunkSize, Cardinality(Unswept(t))}), Unswept(t)) :
       /\ Swept(slice)
       /\ lists' = [lists EXCEPT ![t].dirty = @ \cup {r.subject : r \in slice}]
  /\ UNCHANGED <<domains, ops, ids, jobs, batches, bounds, retry>>

MarksDue(t) ==
  IF Diffing(t) /\ Diff(t).entries = <<>> /\ Unswept(t) = {}
  THEN Marks(IF Diff(t).of = Tokens THEN Deduped(lists[t].dirty) ELSE lists[t].dirty, lists[t].icons)
  ELSE {}

\* At the end of a diff the marks; after the last one the operation is done.
EndDiff(t) ==
  /\ Diffing(t)
  /\ Diff(t).entries = <<>>
  /\ Unswept(t) = {}
  /\ todos' = todos \cup MarksDue(t)
  /\ IF Len(lists[t].diffs) > 1
     THEN /\ lists' = [lists EXCEPT
               ![t] = [Idle EXCEPT !.diffs = Tail(lists[t].diffs), !.said = lists[t].said]]
          /\ UNCHANGED ops
     ELSE /\ lists' = [lists EXCEPT ![t] = Idle]
          /\ ops' = ops \cup {<<t, Global>>}
  /\ UNCHANGED <<core, ids, jobs, batches, bounds, history>>

---------------------------------------------------------------------------
(* scheduleIterator, over the issuers.                                     *)

\* collectItemIds: the crawler of domains wants issuers of IOUs.
Items(t) ==
  {IssuerOf[token] : token \in IF t = "domains" THEN Tokens \ MPTs ELSE Tokens}

NewPass(t) ==
  /\ ids[t] = <<>>
  /\ jobs[t] = [w \in Workers(t) |-> Nobody]
  /\ ids' = [ids EXCEPT ![t] = Reverse(SetToSeq(Items(t)))]
  /\ UNCHANGED <<core, ops, todos, lists, jobs, batches, bounds, history>>

Approved(account) == Row(account, "kyc", "kyc", Yes) \in rows

\* What a routine does without a request, as a set of at most one sequence of
\* writes: nothing for who is approved; no icon without an email hash.
Direct_Always(t, account) ==
  CASE t = "gravatar" /\ account \notin Hashed -> {<<Entry(account, [icon |-> NoValue])>>}
    [] OTHER                                   -> {}
Direct(t, account) ==
  CASE t = "kyc" /\ Approved(account)          -> {<<>>}
    [] t = "gravatar" /\ account \notin Hashed -> {<<Entry(account, [icon |-> NoValue])>>}
    [] OTHER                                   -> {}

\* clearAccountProps and clearTokenProps for an issuer without a domain.
Cleared(account) ==
  {r \in rows : r.source = "domains"
                /\ r.subject \in {account} \cup {token \in Tokens : IssuerOf[token] = account}}

Done(t, account) == ops' = ops \cup {<<t, account>>}

\* A worker takes the next item, and asks or is done with it at once.
Take_Peeks(t, w) ==
  /\ ids[t] # <<>>
  /\ jobs[t][w] = Nobody
  /\ <<t, Head(ids[t])>> \notin ops
  /\ jobs' = [jobs EXCEPT ![t][w] = Head(ids[t])]
  /\ Fetch
  /\ UNCHANGED <<core, ops, todos, lists, ids, batches, changes, crashes, history>>
Take(t, w) ==
  /\ ids[t] # <<>>
  /\ jobs[t][w] = Nobody
  /\ ids' = [ids EXCEPT ![t] = Tail(@)]
  /\ LET item == Head(ids[t])
     IN  \/ /\ <<t, item>> \in ops
            /\ UNCHANGED <<rows, ops, todos, behind, lost, jobs, fetches>>
         \/ /\ <<t, item>> \notin ops
            /\ \E writes \in Direct(t, item) :
                 Commit(Written(writes, t), UNION {MarksOf(writes[i]) : i \in DOMAIN writes})
            /\ Done(t, item)
            /\ UNCHANGED <<jobs, fetches>>
         \/ /\ <<t, item>> \notin ops
            /\ t = "domains" /\ ~KnowsDomain(rows, domains, item)
            /\ LET subjects == {r.subject : r \in Cleared(item)}
               IN  Commit(rows \ Cleared(item), Marks(subjects, subjects))
            /\ Done(t, item)
            /\ UNCHANGED <<jobs, fetches>>
         \/ /\ <<t, item>> \notin ops
            /\ Direct(t, item) = {}
            /\ t = "domains" => KnowsDomain(rows, domains, item)
            /\ jobs' = [jobs EXCEPT ![t][w] = item]
            /\ Fetch
            /\ UNCHANGED <<rows, ops, todos, behind, lost>>
  /\ UNCHANGED <<domains, lists, batches, changes, crashes, retry>>

\* What a domain may say of its account: nothing of others, and not how far it
\* is to be trusted.
Published(toml, account) ==
  LET own == Where(toml, LAMBDA entry :
               account \in {entry.subject} \cup {IssuerOf[token] : token \in {entry.subject} \cap Tokens})
  IN  [i \in DOMAIN own |-> [own[i] EXCEPT !.props = Restrict(@, DOMAIN @ \ {"trust_level"})]]

\* The answers a routine may get, as the writes it makes of them: an answer
\* without the field deletes the row.  A domain that shows no file is no error.
Answers(t, account) ==
  CASE t = "kyc"      -> {<<Entry(account, [kyc |-> value])>> : value \in {Yes, No, NoValue}}
    [] t = "avatar"   -> {<<Entry(account, [icon |-> url])>> : url \in Avatars \cup {NoValue}}
    [] t = "gravatar" -> {<<Entry(account, [icon |-> url])>> : url \in Avatars \cup {NoValue}}
    [] t = "domains"  -> {Published(toml, account) : toml \in Tomls} \cup {<<>>}

Answered(t, w) ==
  /\ jobs[t][w] \in Accounts
  /\ \E writes \in Answers(t, jobs[t][w]) :
       Commit(Written(writes, t), UNION {MarksOf(writes[i]) : i \in DOMAIN writes})
  /\ Done(t, jobs[t][w])
  /\ jobs' = [jobs EXCEPT ![t][w] = Nobody]
  /\ UNCHANGED <<domains, lists, ids, batches, bounds, retry>>

\* A routine that fails is waited for 3 s and is done as well.
Failed(t, w) ==
  /\ t # "domains"
  /\ jobs[t][w] \in Accounts
  /\ Done(t, jobs[t][w])
  /\ jobs' = [jobs EXCEPT ![t][w] = Nobody]
  /\ UNCHANGED <<core, todos, lists, ids, batches, bounds, history>>

---------------------------------------------------------------------------
(* scheduleBatchedIterator, over the tokens for which a handle is known.   *)

UrlRows(token) ==
  {r \in rows : r.key = "urls" /\ r.subject \in {IssuerOf[token], token}}

OpenPass ==
  /\ ~batches.open
  /\ batches' = [Waiting EXCEPT
       !.open = TRUE,
       !.ids = Reverse(SetToSeq({token \in Tokens \ MPTs : UrlRows(token) # {}}))]
  /\ UNCHANGED <<core, ops, todos, lists, ids, jobs, bounds, history>>

\* accumulate: a task for each handle, with the tokens that wait for it and
\* the subjects that have named it.
Accumulate(queue, token, row) ==
  LET known == {i \in DOMAIN queue : queue[i].handle = row.value}
      task  == [handle |-> row.value, items |-> {token}, subjects |-> {row.subject}]
  IN  IF known = {} THEN Append(queue, task)
      ELSE [i \in DOMAIN queue |->
              IF i \in known
              THEN [queue[i] EXCEPT !.items = @ \cup {token}, !.subjects = @ \cup {row.subject}]
              ELSE queue[i]]

\* The urls of the issuer come first.
Accumulated(token) ==
  LET issuers == {r \in UrlRows(token) : r.subject \in Accounts}
  IN  FoldLeft(LAMBDA q, r : Accumulate(q, token, r), batches.queue,
               SetToSeq(issuers) \o SetToSeq(UrlRows(token) \ issuers))

\* The next token: a full queue is flushed, and the loop waits for it.
Gather ==
  /\ batches.open
  /\ batches.commit = <<>>
  /\ batches.ids # <<>>
  /\ LET token == Head(batches.ids)
         queue == IF <<"x", token>> \in ops THEN batches.queue ELSE Accumulated(token)
         full  == <<"x", token>> \notin ops /\ Len(queue) >= BatchSize
     IN  /\ IF full THEN Fetch ELSE UNCHANGED fetches
         /\ batches' = [batches EXCEPT
              !.ids = Tail(@),
              !.commit = IF full THEN SubSeq(queue, 1, BatchSize) ELSE <<>>,
              !.queue = IF full THEN SubSeq(queue, BatchSize + 1, Len(queue)) ELSE queue]
         /\ retry' = IF <<"x", token>> \in ops THEN retry ELSE retry \ {token}
  /\ UNCHANGED <<core, ops, todos, lists, ids, jobs, changes, crashes, behind, lost>>

\* After the last token one more batch; what is left of the queue then is
\* dropped.
LastBatch ==
  /\ batches.open
  /\ batches.commit = <<>>
  /\ batches.ids = <<>>
  /\ IF batches.queue = <<>>
     THEN batches' = Waiting /\ UNCHANGED fetches
     ELSE /\ Fetch
          /\ batches' = [batches EXCEPT
               !.commit = SubSeq(batches.queue, 1, Min({BatchSize, Len(batches.queue)})),
               !.queue = <<>>]
  /\ UNCHANGED <<core, ops, todos, lists, ids, jobs, changes, crashes, history>>

BatchItems == UNION {batches.commit[i].items : i \in DOMAIN batches.commit}

\* The profile of a handle goes to all who have named it; a handle without
\* profile takes from them what was known.
ProfileWrites(task, profiles) ==
  LET subjects == SetToSeq(task.subjects)
      picture  == IF task.handle \in DOMAIN profiles THEN profiles[task.handle] ELSE NoValue
  IN  [i \in DOMAIN subjects |-> Entry(subjects[i], [icon |-> picture])]

BatchCommitted ==
  /\ batches.commit # <<>>
  /\ \E profiles \in Profiles :
       LET writes == FlattenSeq([i \in DOMAIN batches.commit |-> ProfileWrites(batches.commit[i], profiles)])
       IN  Commit(Written(writes, "x"), UNION {MarksOf(writes[i]) : i \in DOMAIN writes})
  /\ ops' = ops \cup ({"x"} \X BatchItems)
  /\ batches' = [batches EXCEPT !.commit = <<>>]
  /\ UNCHANGED <<domains, lists, ids, jobs, bounds, retry>>

\* A batch that fails is dropped after 3 s.
BatchFailed ==
  /\ batches.commit # <<>>
  /\ retry' = retry \cup BatchItems
  /\ batches' = [batches EXCEPT !.commit = <<>>]
  /\ UNCHANGED <<core, ops, todos, lists, ids, jobs, bounds, behind, lost>>

---------------------------------------------------------------------------
(* The rest of the process.                                                *)

\* Time passes.  A pass over batches judges by the time of its start.
Expire(t, subject) ==
  /\ <<t, subject>> \in ops
  /\ t = "x" => ~batches.open
  /\ ops' = ops \ {<<t, subject>>}
  /\ UNCHANGED <<core, todos, schedule, bounds, history>>

\* A ledger changes the domain of an account: state/accounts.js.
LedgerDomain(account) ==
  /\ changes < MaxChanges
  /\ changes' = changes + 1
  /\ domains' = SymDiff(domains, {account})
  /\ todos' = todos \cup {<<"props", account>>}
  /\ behind' = behind \cup {<<"props", account>>}
  /\ UNCHANGED <<rows, ops, schedule, fetches, crashes, lost, retry>>

\* The cache worker deals with a mark: TokenCache, IconCache.
Serve(todo) ==
  /\ todo \in todos
  /\ todos' = todos \ {todo}
  /\ behind' = behind \ {todo}
  /\ lost' = lost \ {todo}
  /\ UNCHANGED <<core, ops, schedule, bounds, retry>>

\* The process ends, and a new one starts from what is in the databases.
\* Rows and marks are in two of them: it may end between the two, and between
\* two marks.
Restart(after, marks) ==
  /\ crashes < MaxCrashes
  /\ crashes' = crashes + 1
  /\ rows' = after
  /\ todos' = todos \cup marks
  /\ behind' = behind \cup Differences(rows, after)
  /\ lost' = lost \cup (behind' \ todos')
  /\ lists' = [t \in Lists |-> Idle]
  /\ ids' = [t \in Iterators |-> <<>>]
  /\ jobs' = [t \in Iterators |-> [w \in Workers(t) |-> Nobody]]
  /\ batches' = Waiting
  /\ UNCHANGED <<domains, ops, fetches, changes, retry>>

Crash ==
  \/ Restart(rows, {})
  \/ \E t \in Lists : \E marks \in SUBSET MarksDue(t) : Restart(rows, marks)
  \/ \E t \in Iterators : \E w \in Workers(t) :
       /\ jobs[t][w] \in Accounts
       /\ \E writes \in Answers(t, jobs[t][w]) : \E n \in DOMAIN writes :
            Restart(Written(SubSeq(writes, 1, n), t), UNION {MarksOf(writes[i]) : i \in 1 .. n - 1})

Init ==
  /\ \E crawlers \in Configs : enabled = UNION {Tasks(c) : c \in crawlers}
  /\ rows = Rows0
  /\ domains = {}
  /\ ops = {}
  /\ todos = {}
  /\ lists = [t \in Lists |-> Idle]
  /\ ids = [t \in Iterators |-> <<>>]
  /\ jobs = [t \in Iterators |-> [w \in Workers(t) |-> Nobody]]
  /\ batches = Waiting
  /\ fetches = 0 /\ changes = 0 /\ crashes = 0
  /\ behind = {} /\ lost = {} /\ retry = {}

Next ==
  /\ \/ \E t \in Lists \cap enabled : Listed(t) \/ WriteChunk(t) \/ ChunkFails(t) \/ SweepChunk(t) \/ EndDiff(t)
     \/ \E t \in Iterators \cap enabled :
          NewPass(t) \/ \E w \in Workers(t) : Take(t, w) \/ Answered(t, w) \/ Failed(t, w)
     \/ "x" \in enabled /\ (OpenPass \/ Gather \/ LastBatch \/ BatchCommitted \/ BatchFailed)
     \/ \E op \in ops : Expire(op[1], op[2])
     \/ \E account \in Accounts : LedgerDomain(account)
     \/ \E todo \in todos : Serve(todo)
     \/ Crash
  /\ UNCHANGED enabled

Spec == Init /\ [][Next]_vars

---------------------------------------------------------------------------
Marked == {"props", "icons"} \X Subjects

\* Type correctness: a source has one value for a key of a subject, and no
\* batch is larger than its size.
TypeOK ==
  /\ \A r \in rows : /\ r.subject \in Subjects
                     /\ r.value \in Nat
                     /\ \A q \in rows : [q EXCEPT !.value = 0] = [r EXCEPT !.value = 0] => q = r
  /\ domains \subseteq Accounts
  /\ ops \subseteq (Lists \X {Global}) \cup (Iterators \X Accounts) \cup ({"x"} \X Tokens)
  /\ todos \cup behind \cup lost \subseteq Marked
  /\ \A t \in Lists : lists[t].dirty \cup lists[t].icons \subseteq Subjects
  /\ \A t \in Iterators : Range(ids[t]) \subseteq Accounts /\ Range(jobs[t]) \subseteq Accounts \cup {Nobody}
  /\ Len(batches.commit) <= BatchSize
  /\ retry \subseteq Tokens
  /\ fetches <= MaxFetches /\ changes <= MaxChanges /\ crashes <= MaxCrashes

\* Whatever a crawler or a ledger has changed is marked for the cache, or will
\* be at the end of the diff that has changed it - unless a crash or a failure
\* of that diff came between the change and its mark.  (Not so for MPT tokens,
\* which Deduped drops.)
ChangesMarked ==
  \A b \in behind \ ({"props"} \X MPTs) :
     \/ b \in todos \cup lost
     \/ \E t \in Lists : b \in Marks(lists[t].dirty, lists[t].icons)

\* What a list has said, the last word on each key: a reference for chunks and
\* sweeps.
Said(t) ==
  LET entries == FlattenSeq([i \in DOMAIN lists[t].said |-> lists[t].said[i].entries])
      last(i, key) == \A j \in DOMAIN entries :
                         j > i /\ entries[j].subject = entries[i].subject => key \notin DOMAIN entries[j].props
  IN  UNION {{Row(entries[i].subject, key, t, entries[i].props[key]) :
                key \in {k \in Given(entries[i].props) : last(i, k)}} : i \in DOMAIN entries}

\* When a list is done and its operation noted, the rows of its source are what
\* it has said, whatever other crawlers did between its chunks, and whatever a
\* crash or a diff that failed had left.
ListIsExact ==
  [][\A t \in Lists : Diffing(t) /\ <<t, Global>> \in ops' \ ops
        => {r \in rows' : r.source = t} = Said(t)]_vars

\* Who has passed kyc is not asked about again, and keeps it: the answer of a
\* worker that read the row before it waited cannot undo it.
KycIsFinal == [][\A account \in Accounts : Approved(account) => Approved(account)']_vars

\* An item is at one worker at most, and then no longer in the queue: a pass
\* asks once for each item, however many workers share it.
OneFetchEach ==
  \A t \in Iterators : \A w \in Workers(t) : jobs[t][w] \in Accounts =>
     /\ jobs[t][w] \notin Range(ids[t])
     /\ <<t, jobs[t][w]>> \notin ops
     /\ \A v \in Workers(t) \ {w} : jobs[t][v] # jobs[t][w]

\* An item of a batch that has failed is not done before it is tried again:
\* "a failed commit must be retried, not silently abandoned until the next
\* full fetchInterval" (crawl/schedule.js).  This does not hold: an item of two
\* batches is done when the other one succeeds.  No run checks it.
FailedIsRetried == \A token \in retry : <<"x", token>> \notin ops
=============================================================================
