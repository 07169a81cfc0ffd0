---------------------------- MODULE TokenHistory ---------------------------
(***************************************************************************)
(* The balances and metrics of one token: what ledger/state/index.js,      *)
(* tokens.js and mptoken.js make of the ledger entries that hold it, in    *)
(* the snapshot, in the forward sync and in the backfill.                  *)
(*                                                                         *)
(* An entry (one side of a trust line, or an MPToken) is named by its      *)
(* account.  A transaction of the database, which applies one ledger or    *)
(* one mini-batch of the snapshot, is a sequence of steps, one for each    *)
(* delta; no other transaction comes in between.  What the network's       *)
(* ledgers contain is chosen as they are read, and kept in a history to    *)
(* compare the database with.                                              *)
(***************************************************************************)
EXTENDS Integers, FiniteSets, Points, FiniteSetsExt

CONSTANTS
  Accounts,       \* the accounts that may hold the token
  Pools,          \* those which are pseudo-accounts of an AMM or a vault
  MaxAmount,      \* bound: of a balance
  Ledgers,        \* bound: the sequences of the network's ledgers
  SnapshotAt,     \* the ledger of the snapshot
  MaxDeltas,      \* bound: deltas of the token in one ledger
  Grouped,        \* IOU: a ledger's deltas are one group; MPT: each is alone
  Gone            \* there is no entry

ASSUME HistoryAssumption ==
  /\ IsFiniteSet(Accounts)
  /\ Pools \subseteq Accounts
  /\ MaxAmount \in Nat
  /\ Ledgers \subseteq Nat \ {0}
  /\ \A l \in Ledgers : 1 .. l \subseteq Ledgers
  /\ SnapshotAt \in Ledgers
  /\ MaxDeltas \in Nat
  /\ Grouped \in BOOLEAN
  /\ Gone \notin Int

VARIABLES
  balances,       \* table accountBalances: a series for each account
  metrics,        \* tables tokenTrustlines, tokenHolders and tokenSupply
  known,          \* the pools whose Account row says pseudo
  left,           \* the entries the snapshot has still to copy
  work,           \* the transaction that is open, if any
  newest,         \* the ledger applied last by the sync
  held,           \* the entries after the deltas the sync has applied
  oldest,         \* the ledger applied last by the backfill
  past,           \* the entries before the deltas the backfill has undone
  touched,        \* PreviousTxnLgrSeq of the entries in past
  truth,          \* history: the entries after each ledger applied
  shaken,         \* history: the accounts whose balances were misfiled
  skewed,         \* history: the metrics that counted what was not there
  undone          \* history: has the backfill counted a delta

vars == <<balances, metrics, known, left, work, newest, held, oldest, past, touched, truth,
          shaken, skewed, undone>>

database == <<balances, metrics>>
copying == <<known, left>>
forward == <<newest, held>>
backward == <<oldest, past, touched>>
doubts == <<shaken, skewed, undone>>

Amounts == 0 .. MaxAmount
Entries == Amounts \cup {Gone}
Amount(entry) == IF entry = Gone THEN 0 ELSE entry

\* tokens.js keeps three metrics, mptoken.js two.
Metrics == IF Grouped THEN {"trustlines", "holders", "supply"} ELSE {"holders", "supply"}

None == [kind |-> "none"]
Idle == work = None
Copied == left = {} /\ known = Pools

---------------------------------------------------------------------------
(* diff of tokens.js and mptoken.js.                                       *)

One(condition) == IF condition THEN 1 ELSE 0
Holds(entry) == Amount(entry) > 0

\* Mutant of Gain: a holder whose entry is deleted still counts.
Gain_KeepsHolder(m, previous, final, pseudo) ==
  CASE m = "trustlines" -> One(final # Gone) - One(previous # Gone)
    [] m = "holders"    -> IF pseudo \/ final = Gone THEN 0
                           ELSE One(Holds(final)) - One(Holds(previous))
    [] m = "supply"     -> Amount(final) - Amount(previous)

\* What a delta adds to a metric.
Gain(m, previous, final, pseudo) ==
  CASE m = "trustlines" -> One(final # Gone) - One(previous # Gone)
    [] m = "holders"    -> IF pseudo THEN 0 ELSE One(Holds(final)) - One(Holds(previous))
    [] m = "supply"     -> Amount(final) - Amount(previous)

Changed(values, previous, final, pseudo) ==
  [m \in Metrics |-> values[m] + Gain(m, previous, final, pseudo)]

ReadMetrics(l) == [m \in Metrics |-> ReadPoint(metrics[m], l)]
WriteMetrics(values, l) == [m \in Metrics |-> WriteMetric(metrics[m], l, values[m])]

\* isPseudoAccount: the pre-scan of the deltas at hand, then the Account row.
IsPseudo(a) == a \in work.roots \cup known

\* The transaction of a ledger or a mini-batch, at ctx.ledgerSequence.  It has
\* in memory the entries not seen yet and the group's metrics, read when it begins.
Open(kind, l, todo, roots) ==
  work' = [kind |-> kind, at |-> l, todo |-> todo, roots |-> roots, deltas |-> 0,
           values |-> ReadMetrics(l)]

\* The deltas of an IOU add up in memory; those of an MPT read and write the
\* metrics one by one.
Count(a, previous, final) ==
  IF Grouped
  THEN /\ work' = [work EXCEPT !.todo = @ \ {a}, !.deltas = @ + 1,
                     !.values = Changed(@, previous, final, IsPseudo(a))]
       /\ UNCHANGED metrics
  ELSE /\ work' = [work EXCEPT !.todo = @ \ {a}, !.deltas = @ + 1]
       /\ metrics' = WriteMetrics(Changed(ReadMetrics(work.at), previous, final, IsPseudo(a)),
                                  work.at)

Close ==
  /\ metrics' = IF Grouped /\ work.deltas > 0
                THEN WriteMetrics(work.values, work.at) ELSE metrics
  /\ work' = None

---------------------------------------------------------------------------
(* The snapshot: applyLedgerStateFromObjects of one mini-batch after the   *)
(* other, with ctx.ledgerSequence = 0.                                     *)

StartBatch ==
  /\ Idle /\ ~Copied
  /\ \E entries \in SUBSET left, roots \in SUBSET (Pools \ known) :
       /\ entries \cup roots # {}
       /\ Open("copy", 0, entries, roots)
  /\ UNCHANGED <<database, copying, forward, backward, truth, doubts>>

\* Mutant of CopyPoint: filed under the ledger of the context.
CopyPoint_Context(a) == 0

\* A balance is copied to the ledger of its last change.
CopyPoint(a) == touched[a]

\* A pool whose root has not come yet is counted as a holder.
CopyEntry(a) ==
  /\ work.kind = "copy" /\ a \in work.todo
  /\ Count(a, Gone, held[a])
  /\ balances' = [balances EXCEPT ![a] = WritePoint(@, CopyPoint(a), Amount(held[a]))]
  /\ left' = left \ {a}
  /\ skewed' = IF a \in Pools /\ ~IsPseudo(a) THEN skewed \cup {"holders"} ELSE skewed
  /\ UNCHANGED <<known, forward, backward, truth, shaken, undone>>

\* The roots come after the groups: AccountRoots are not grouped.
EndBatch ==
  /\ work.kind = "copy" /\ work.todo = {}
  /\ Close
  /\ known' = known \cup work.roots
  /\ UNCHANGED <<balances, left, forward, backward, truth, doubts>>

---------------------------------------------------------------------------
(* The forward sync.                                                       *)

StartLedger ==
  /\ Idle /\ Copied
  /\ newest + 1 \in Ledgers
  /\ Open("sync", newest + 1, {}, {})
  /\ UNCHANGED <<database, copying, forward, backward, truth, doubts>>

\* The ledger to which a balance is written: final.ledgerSequence, or that of
\* the context if the entry is gone.
SyncPoint(final) == work.at

\* A CreatedNode, ModifiedNode or DeletedNode.
SyncDelta(a) ==
  /\ work.kind = "sync" /\ work.deltas < MaxDeltas
  /\ \E final \in Entries :
       /\ held[a] # Gone \/ final # Gone
       /\ Count(a, held[a], final)
       /\ balances' = [balances EXCEPT ![a] = WritePoint(@, SyncPoint(final), Amount(final))]
       /\ held' = [held EXCEPT ![a] = final]
  /\ UNCHANGED <<copying, newest, backward, truth, doubts>>

\* A ModifiedNode whose final fields no longer have the side: parse leaves it
\* out, and group looks at the sides of final only.  Nothing is written.
SideVanishes(a) ==
  /\ Grouped
  /\ work.kind = "sync" /\ held[a] # Gone
  /\ held' = [held EXCEPT ![a] = Gone]
  /\ shaken' = IF Holds(held[a]) THEN shaken \cup {a} ELSE shaken
  /\ skewed' = skewed \cup {m \in Metrics : Gain(m, held[a], Gone, a \in Pools) # 0}
  /\ UNCHANGED <<database, copying, work, newest, backward, truth, undone>>

EndLedger ==
  /\ work.kind = "sync"
  /\ Close
  /\ newest' = work.at
  /\ truth' = [truth EXCEPT ![work.at] = held]
  /\ UNCHANGED <<balances, copying, held, backward, doubts>>

---------------------------------------------------------------------------
(* The backfill: the deltas of a ledger in reverse, previous and final     *)
(* exchanged.                                                              *)

\* The ledger of the snapshot itself is applied by neither loop: what it changed
\* is not undone, and the entries before it may have been any.
SkipSnapshot ==
  LET recent == {a \in Accounts : touched[a] = SnapshotAt} IN
  \E before \in [recent -> Entries], since \in [recent -> 1 .. SnapshotAt - 1] :
    /\ past' = [a \in Accounts |-> IF a \in recent THEN before[a] ELSE past[a]]
    /\ touched' = [a \in Accounts |-> IF a \in recent THEN since[a] ELSE touched[a]]
    /\ truth' = [l \in Ledgers |-> IF l < SnapshotAt THEN past' ELSE truth[l]]
    /\ shaken' = shaken \cup {a \in recent : before[a] # Gone}

StartUndo ==
  /\ Idle /\ Copied
  /\ oldest - 1 \in Ledgers
  /\ Open("undo", oldest - 1, Accounts, {})
  /\ IF oldest = SnapshotAt THEN SkipSnapshot ELSE UNCHANGED <<past, touched, truth, shaken>>
  /\ UNCHANGED <<database, copying, forward, oldest, skewed, undone>>

Shake(a, misfiled) == shaken' = IF misfiled THEN shaken \cup {a} ELSE shaken

\* A metric is read at the ledger undone, which is older than the state it is
\* known for: where the sync has not written it yet, it is wrong from now on.
Skew ==
  /\ undone' = TRUE
  /\ skewed' = skewed \cup {m \in Metrics : \A s \in DOMAIN metrics[m] : s <= SnapshotAt}

\* What is undone had made the entry: nothing remains of it, not even the
\* balance it was made with.
UndoCreation(a) ==
  /\ Count(a, past[a], Gone)
  /\ balances' = [balances EXCEPT ![a] = WritePoint(@, work.at, 0)]
  /\ past' = [past EXCEPT ![a] = Gone]
  /\ Shake(a, Holds(past[a])) /\ Skew
  /\ UNCHANGED touched

\* What is undone had made the side, on a line that remains: group leaves it out.
UndoAppearance(a) ==
  /\ Grouped
  /\ work' = [work EXCEPT !.todo = @ \ {a}]
  /\ past' = [past EXCEPT ![a] = Gone]
  /\ UNCHANGED <<database, touched, doubts>>

\* Mutant of UndoPoint: the amount is filed under the ledger at hand.
UndoPoint_Here(l) == work.at

\* An amount is filed under the ledger in which it came about.
UndoPoint(l) == l

\* What is undone had changed the entry, before last changed in ledger l.  If
\* that is the same ledger, what it had at the end is overwritten.
UndoChange(a, amount, l) ==
  /\ Count(a, past[a], amount)
  /\ Shake(a, l = work.at) /\ Skew
  /\ balances' = [balances EXCEPT ![a] = WritePoint(@, UndoPoint(l), amount)]
  /\ past' = [past EXCEPT ![a] = amount]
  /\ touched' = [touched EXCEPT ![a] = l]

\* What is undone had deleted the entry or made its side vanish (the "edge case
\* when backfilling RippleState deletions").
UndoDeletion(a, amount, l) ==
  /\ Count(a, Gone, amount)
  /\ Shake(a, l = work.at \/ a \notin work.todo) /\ Skew
  /\ balances' = [balances EXCEPT ![a] =
                    WritePoint(WritePoint(@, work.at, 0), UndoPoint(l), amount)]
  /\ past' = [past EXCEPT ![a] = amount]
  /\ touched' = [touched EXCEPT ![a] = l]

UndoDelta(a) ==
  /\ work.kind = "undo" /\ work.deltas < MaxDeltas
  /\ \/ /\ past[a] # Gone /\ touched[a] = work.at
        /\ \/ UndoCreation(a)
           \/ UndoAppearance(a)
           \/ \E amount \in Amounts, l \in 1 .. work.at : UndoChange(a, amount, l)
     \/ /\ past[a] = Gone
        /\ \E amount \in Amounts, l \in 1 .. work.at : UndoDeletion(a, amount, l)
  /\ UNCHANGED <<copying, forward, oldest, truth>>

EndUndo ==
  /\ work.kind = "undo"
  /\ \A a \in Accounts : past[a] # Gone => touched[a] # work.at
  /\ Close
  /\ oldest' = work.at
  /\ truth' = [l \in Ledgers |-> IF l < work.at THEN past ELSE truth[l]]
  /\ UNCHANGED <<balances, copying, forward, past, touched, doubts>>

---------------------------------------------------------------------------

\* The snapshot has any entries, last changed in any ledger up to its own.
Init ==
  /\ held \in [Accounts -> Entries]
  /\ past = held
  /\ touched \in [Accounts -> 1 .. SnapshotAt]
  /\ balances = [a \in Accounts |-> NoPoints]
  /\ metrics = [m \in Metrics |-> NoPoints]
  /\ known = {}
  /\ left = {a \in Accounts : held[a] # Gone}
  /\ work = None
  /\ newest = SnapshotAt
  /\ oldest = SnapshotAt
  /\ truth = [l \in Ledgers |-> held]
  /\ shaken = {} /\ skewed = {} /\ undone = FALSE

Snapshot == StartBatch \/ EndBatch \/ \E a \in Accounts : CopyEntry(a)
Sync == StartLedger \/ EndLedger \/ \E a \in Accounts : SyncDelta(a) \/ SideVanishes(a)
Backfill == StartUndo \/ EndUndo \/ \E a \in Accounts : UndoDelta(a)

Next == Snapshot \/ Sync \/ Backfill

Spec == Init /\ [][Next]_vars

---------------------------------------------------------------------------
(* Properties.                                                             *)

IsSeries(points) == /\ DOMAIN points \subseteq Ledgers \cup {0}
                    /\ \A l \in DOMAIN points : points[l] \in Int

Transactions ==
  [kind : {"copy", "sync", "undo"}, at : Ledgers \cup {0}, todo : SUBSET Accounts,
   roots : SUBSET Pools, deltas : Nat, values : [Metrics -> Int]]

TypeOK ==
  /\ DOMAIN balances = Accounts /\ \A a \in Accounts : IsSeries(balances[a])
  /\ DOMAIN metrics = Metrics /\ \A m \in Metrics : IsSeries(metrics[m])
  /\ known \subseteq Pools
  /\ left \subseteq Accounts
  /\ work \in Transactions \cup {None}
  /\ newest \in Ledgers /\ oldest \in Ledgers
  /\ held \in [Accounts -> Entries]
  /\ past \in [Accounts -> Entries]
  /\ touched \in [Accounts -> Ledgers]
  /\ truth \in [Ledgers -> [Accounts -> Entries]]
  /\ shaken \subseteq Accounts
  /\ skewed \subseteq Metrics
  /\ undone \in BOOLEAN

\* The ledgers for which the API answers with what the database has.
Answered == {l \in Ledgers : oldest <= l /\ l <= newest}

\* The balance of an account, read for any ledger applied, is the one that the
\* network had after that ledger - but for accounts whose entry was changed in
\* the snapshot's own ledger, or was made with a balance or changed twice in a
\* ledger undone, or whose side of a line vanished with a balance.
BalancesExact ==
  Idle /\ Copied =>
    \A l \in Answered, a \in Accounts \ shaken :
      ReadPoint(balances[a], l) = Amount(truth[l][a])

\* What a metric should be.
Total(m, entries) ==
  CASE m = "trustlines" -> Cardinality({a \in Accounts : entries[a] # Gone})
    [] m = "holders"    -> Cardinality({a \in Accounts \ Pools : Holds(entries[a])})
    [] m = "supply"     -> MapThenSumSet(LAMBDA a : Amount(entries[a]), Accounts)

\* Trust lines, holders and supply, read for any ledger from the snapshot on, are
\* the totals over the network's entries after that ledger - but for metrics
\* that counted a pool as a holder or a side that has vanished.  Once the
\* backfill has undone a delta, only what the sync had begun to write before
\* is right, from the first ledger on to which it wrote.
MetricsExact ==
  Idle /\ Copied =>
    \A l \in SnapshotAt .. newest, m \in Metrics \ skewed :
      (undone => \E s \in DOMAIN metrics[m] : SnapshotAt < s /\ s <= l)
        => ReadPoint(metrics[m], l) = Total(m, truth[l])

\* An answer once given for a ledger is given ever after, whatever the two
\* loops apply later - but for the accounts that BalancesExact leaves out.
BalancesAreFinal ==
  [][Copied => \A l \in Answered, a \in Accounts \ shaken' :
                 ReadPoint(balances[a], l)' = ReadPoint(balances[a], l)]_vars
===========================================================================
