--------------------------- MODULE LedgerIndexer --------------------------
(***************************************************************************)
(* How the core database comes to hold a stretch of ledger history, across *)
(* restarts of the process: app/ledger.js runs createSnapshot of           *)
(* ledger/snapshot.js to its end, then startSync of ledger/sync.js, and    *)
(* startBackfill of ledger/backfill.js once the sync has caught up.        *)
(*                                                                         *)
(* db is what the database holds now, stable what of it a power loss       *)
(* leaves (journal in WAL mode with synchronous = NORMAL).  Everything     *)
(* else is memory of the process.  A ledger is its sequence number; the    *)
(* state entries of the snapshot come in chunks of mini-batches, one       *)
(* transaction each.  The streams of the sync and of the backfill are      *)
(* their cursors, as LedgerStream shows they may be.                       *)
(***************************************************************************)
EXTENDS Integers

CONSTANTS
  Ledgers,        \* bound: the sequences of the network's ledgers
  FirstHead,      \* the newest validated ledger at the first launch
  BackfillTo,     \* config.ledger.backfillToLedger
  Chunks,         \* how many chunks ledger_data pages the snapshot into
  Batches,        \* mini-batches of a chunk
  QueueLimit,     \* chunks fetched in advance (10 in xrpl/snapshot.js)
  MaxCrashes,     \* bound: ends of the process
  MaxRepeats,     \* bound: how often a ledger is applied again
  None,           \* no snapshot row
  TornCreation    \* may a crash fall between the commits of createSnapshotState

ASSUME IndexerAssumption ==
  /\ Ledgers \subseteq Int
  /\ FirstHead \in Ledgers
  /\ BackfillTo \in Int
  /\ Chunks \in Nat \ {0}
  /\ Batches \in Nat \ {0}
  /\ QueueLimit \in Nat \ {0}
  /\ MaxCrashes \in Nat
  /\ MaxRepeats \in Nat
  /\ None \notin Int
  /\ TornCreation \in BOOLEAN

VARIABLES
  db,             \* the core database
  stable,         \* what of it survives a power loss
  head,           \* the newest ledger the network has validated
  crashes,        \* how often the process has ended
  phase,          \* where app/ledger.js is
  validated,      \* the ledger fetched by createSnapshotState
  fetched,        \* feed: chunks the producer has fetched
  taken,          \* feed: chunks next() has returned
  batch,          \* mini-batches of the chunk taken last that are committed
  newer,          \* sync: the next ledger of its stream
  backfill,       \* backfill: not asked for, waiting for onceInSync, triggered, running,
                  \* or turned round at its target
  opened,         \* backfill: the ledger its stream was opened at
  older           \* backfill: the next ledger of its stream

vars == <<db, stable, head, crashes, phase, validated, fetched, taken, batch,
          newer, backfill, opened, older>>

feed == <<fetched, taken, batch>>
streams == <<newer, backfill, opened, older>>

ChunkBatches == (1 .. Chunks) \X (1 .. Batches)

\* Tables ledgers and snapshots, and two histories: how often the changes of a
\* ledger and the state entries of a mini-batch have been written.
EmptyDB == [rows |-> {}, snapshot |-> None, entries |-> 0, marker |-> 0,
            complete |-> FALSE,
            applied |-> [l \in Ledgers |-> 0],
            written |-> [cb \in ChunkBatches |-> 0]]

First(S) == CHOOSE l \in S : \A r \in S : l <= r
Last(S) == CHOOSE l \in S : \A r \in S : r <= l

---------------------------------------------------------------------------
(* createSnapshot: which of its parts a process still has to run.          *)

\* The feed of chunks from the marker on; marker 0 is none.
OpenFeed(from) == fetched' = from /\ taken' = from /\ batch' = Batches

\* startSync reads the newest ledger and opens its stream after it.
SyncStart(d) == Last(d.rows) + 1

StartSync(d) == /\ phase' = "syncing"
                /\ newer' = SyncStart(d)
                /\ UNCHANGED feed

\* Mutant of MustCopy: the number of entries decides alone.
MustCopy_NoMarker(d) == d.entries = 0

MustCopy(d) == d.entries = 0 \/ d.marker # 0

\* Start of the process: what the snapshots table says decides.
Boot ==
  /\ phase = "down"
  /\ \/ /\ db.snapshot = None
        /\ phase' = "fetching"
        /\ UNCHANGED <<feed, newer>>
     \/ /\ db.snapshot # None /\ MustCopy(db)
        /\ phase' = "copying"
        /\ OpenFeed(db.marker)
        /\ UNCHANGED newer
     \/ /\ db.snapshot # None /\ ~MustCopy(db) /\ ~db.complete
        /\ phase' = "deriving"
        /\ UNCHANGED <<feed, newer>>
     \/ /\ db.snapshot # None /\ ~MustCopy(db) /\ db.complete
        /\ StartSync(db)
  /\ UNCHANGED <<validated, db, stable, head, crashes, backfill, opened, older>>

\* createSnapshotState, first commit: a node answers with its newest validated
\* ledger (it may lag by one), and applyLedgerEvents writes the ledger's row.
WriteLedgerRow ==
  /\ phase = "fetching"
  /\ \E l \in Ledgers \cap {head - 1, head} :
       /\ db' = [db EXCEPT !.rows = @ \cup {l}]
       /\ validated' = l
  /\ phase' = "creating"
  /\ UNCHANGED <<stable, head, crashes, feed, streams>>

\* createSnapshotState, second commit: the row of the snapshot.
CreateSnapshot ==
  /\ phase = "creating"
  /\ db' = [db EXCEPT !.snapshot = validated]
  /\ phase' = "copying"
  /\ OpenFeed(0)
  /\ UNCHANGED <<validated, stable, head, crashes, streams>>

\* The feed's producer fetches a chunk unless enough are queued.
FetchChunk ==
  /\ phase = "copying"
  /\ fetched < Chunks
  /\ fetched - taken < QueueLimit
  /\ fetched' = fetched + 1
  /\ UNCHANGED <<validated, db, stable, head, crashes, phase, taken, batch, streams>>

\* next() returns the oldest chunk queued.
TakeChunk ==
  /\ phase = "copying"
  /\ batch = Batches
  /\ taken < fetched
  /\ taken' = taken + 1
  /\ batch' = 0
  /\ UNCHANGED <<validated, db, stable, head, crashes, phase, fetched, streams>>

\* Mutant of RecordsChunk: the marker is saved with the first mini-batch.
RecordsChunk_First(b) == b = 1

\* The last mini-batch of a chunk also saves the marker.
RecordsChunk(b) == b = Batches

\* The marker that came with a chunk: where the next one begins, or none.
MarkerAfter(chunk) == IF chunk = Chunks THEN 0 ELSE chunk

\* One mini-batch, one transaction.
CopyBatch ==
  /\ phase = "copying"
  /\ batch < Batches
  /\ batch' = batch + 1
  /\ LET cb == <<taken, batch'>>
         copied == [db EXCEPT !.written[cb] = @ + 1]
     IN  db' = IF RecordsChunk(batch')
               THEN [copied EXCEPT !.entries = @ + 1,
                                   !.marker = MarkerAfter(taken)]
               ELSE copied
  /\ UNCHANGED <<validated, stable, head, crashes, phase, fetched, taken, streams>>

\* next() returns undefined: the producer has stopped and the queue is empty.
EndOfFeed ==
  /\ phase = "copying"
  /\ taken = Chunks /\ batch = Batches
  /\ phase' = "deriving"
  /\ UNCHANGED <<db, stable, head, crashes, validated, feed, streams>>

\* updateAllDerived, and the commit that completes the snapshot.
Complete ==
  /\ phase = "deriving"
  /\ db' = [db EXCEPT !.complete = TRUE, !.marker = 0]
  /\ StartSync(db)
  /\ UNCHANGED <<validated, stable, head, crashes, backfill, opened, older>>

---------------------------------------------------------------------------
(* The sync and the backfill.                                              *)

\* Mutant of Apply: the row is committed outside of the transaction, and the
\* changes are lost with it (the process ends before they are written).
Apply_RowOnly(d, l) == [d EXCEPT !.rows = @ \cup {l}]

\* The transaction of a ledger: its row, its state changes, its derived data.
Apply(d, l) == [d EXCEPT !.rows = @ \cup {l},
                         !.applied = [d.applied EXCEPT ![l] = @ + 1]]

\* Mutant of CaughtUp: the sync would have to be ahead of its target.
CaughtUp_Ahead(target, l) == target < l

\* ledgersBehind <= 0, where the stream's cursor is already past l.
CaughtUp(target, l) == target <= l + 1

\* The sync applies the next ledger.  The target of its stream is the newest
\* ledger the stream has heard of, which need not be the network's.
SyncLedger ==
  /\ phase = "syncing"
  /\ newer \in Ledgers /\ newer <= head
  /\ db' = Apply(db, newer)
  /\ newer' = newer + 1
  /\ \E target \in Ledgers :
       /\ newer <= target /\ target <= head
       /\ backfill' = IF CaughtUp(target, newer) /\ backfill = "waiting"
                      THEN "triggered" ELSE backfill
  /\ UNCHANGED <<validated, stable, head, crashes, phase, feed, opened, older>>

\* run calls onceInSync of the sync it has started; until then nothing hears
\* that the sync is level with the network.
OnceInSync ==
  /\ phase = "syncing"
  /\ backfill = "none"
  /\ backfill' = "waiting"
  /\ UNCHANGED <<validated, db, stable, head, crashes, phase, feed, newer, opened, older>>

\* Mutant of BackfillStart: off by one.
BackfillStart_Skips(d) == First(d.rows) - 2

\* startBackfill reads the oldest ledger and opens its stream before it.
BackfillStart(d) == First(d.rows) - 1

StartBackfill ==
  /\ phase = "syncing"
  /\ backfill = "triggered"
  /\ backfill' = "running"
  /\ opened' = BackfillStart(db)
  /\ older' = opened'
  /\ UNCHANGED <<validated, db, stable, head, crashes, phase, feed, newer>>

\* next() moves the cursor towards the target, and away from it at the target.
Onward(l) == IF BackfillTo >= l THEN l + 1 ELSE l - 1

\* The backfill applies the next older ledger, down to its target.
BackfillLedger ==
  /\ phase = "syncing"
  /\ backfill = "running"
  /\ older \in Ledgers /\ BackfillTo <= older
  /\ db' = Apply(db, older)
  /\ older' = Onward(older)
  /\ backfill' = IF older = BackfillTo THEN "turned" ELSE backfill
  /\ UNCHANGED <<validated, stable, head, crashes, phase, feed, newer, opened>>

\* Its loop goes on, and the stream's cursor now goes to and fro between its
\* last two ledgers.  A worker of the stream that has lagged behind fetches them
\* again; they are handed out again and applied again.
BackfillAgain ==
  /\ phase = "syncing"
  /\ backfill = "turned"
  /\ older \in Ledgers /\ older <= opened
  /\ db.applied[older] <= MaxRepeats
  /\ db' = Apply(db, older)
  /\ older' = Onward(older)
  /\ UNCHANGED <<validated, stable, head, crashes, phase, feed, newer, backfill, opened>>

---------------------------------------------------------------------------
(* The environment: the network, the journal, the ends of the process.     *)

\* Bound: the last ledger comes when sync and onceInSync are under way, and the
\* process does not end after it, as if ledgers went on coming after each launch.
LastLedger == Last(Ledgers)

NewLedger ==
  /\ head + 1 \in Ledgers
  /\ head + 1 = LastLedger => backfill # "none"
  /\ head' = head + 1
  /\ UNCHANGED <<db, stable, crashes, phase, validated, feed, streams>>

\* The operating system writes the journal to disk.
Flush ==
  /\ stable # db
  /\ TornCreation \/ phase # "creating"
  /\ stable' = db
  /\ UNCHANGED <<db, head, crashes, phase, validated, feed, streams>>

\* The process ends: killed, or by fatal() after a request or a transaction
\* (rolled back) has failed.  A process manager starts it again.
End ==
  /\ phase # "down"
  /\ TornCreation \/ phase # "creating"
  /\ crashes < MaxCrashes
  /\ head # LastLedger
  /\ crashes' = crashes + 1
  /\ phase' = "down"
  /\ fetched' = 0 /\ taken' = 0 /\ batch' = Batches
  /\ newer' = 0 /\ backfill' = "none" /\ opened' = 0 /\ older' = 0
  /\ UNCHANGED <<validated, stable, head>>

Crash == End /\ UNCHANGED db

\* The commits that were not on disk are lost.
PowerLoss == End /\ db' = stable

Init ==
  /\ db = EmptyDB
  /\ stable = EmptyDB
  /\ head = FirstHead
  /\ crashes = 0
  /\ phase = "down"
  /\ validated = 0
  /\ fetched = 0 /\ taken = 0 /\ batch = Batches
  /\ newer = 0 /\ backfill = "none" /\ opened = 0 /\ older = 0

Bootstrap == Boot \/ WriteLedgerRow \/ CreateSnapshot \/ Complete
Copying == FetchChunk \/ TakeChunk \/ CopyBatch \/ EndOfFeed
Following == SyncLedger \/ OnceInSync \/ StartBackfill \/ BackfillLedger \/ BackfillAgain
Environment == NewLedger \/ Flush \/ Crash \/ PowerLoss

Next == Bootstrap \/ Copying \/ Following \/ Environment

\* The network goes on, the process is started again whenever it ends, and none
\* of its loops stops as long as it runs: feed and streams retry what fails.
\* Nothing makes a worker lag behind: BackfillAgain need not happen.
Fairness ==
  /\ WF_vars(Bootstrap)
  /\ WF_vars(FetchChunk)
  /\ WF_vars(TakeChunk \/ CopyBatch \/ EndOfFeed)
  /\ WF_vars(SyncLedger)
  /\ WF_vars(OnceInSync \/ StartBackfill \/ BackfillLedger)
  /\ WF_vars(NewLedger)

Spec == Init /\ [][Next]_vars /\ Fairness

---------------------------------------------------------------------------
(* Properties.                                                             *)

Databases ==
  [rows : SUBSET Ledgers,
   snapshot : Ledgers \cup {None},
   entries : 0 .. Chunks,
   marker : 0 .. Chunks - 1,
   complete : BOOLEAN,
   applied : [Ledgers -> Nat],
   written : [ChunkBatches -> Nat]]

TypeOK ==
  /\ db \in Databases
  /\ stable \in Databases
  /\ head \in Ledgers
  /\ crashes \in 0 .. MaxCrashes
  /\ phase \in {"down", "fetching", "creating", "copying", "deriving", "syncing"}
  /\ validated \in Int
  /\ fetched \in 0 .. Chunks
  /\ taken \in 0 .. fetched
  /\ batch \in 0 .. Batches
  /\ newer \in Int
  /\ backfill \in {"none", "waiting", "triggered", "running", "turned"}
  /\ opened \in Int
  /\ older \in Int

\* The ledgers in the database have no gap, although two loops extend them at
\* both ends and each launch takes its starting points from the database.
Contiguous == \A a, b \in db.rows : a .. b \subseteq db.rows

\* A ledger's changes are in the database exactly if its row is (but for the
\* ledger of the snapshot, which has them in the state copied), and once, whatever
\* the crashes.  Only the last two ledgers of the backfill may be applied again,
\* and only when it has reached its target.
AppliedOnce ==
  \A l \in Ledgers :
    /\ db.applied[l] > 0 <=> db.snapshot # None /\ l \in db.rows \ {db.snapshot}
    /\ db.applied[l] > 1 => BackfillTo \in db.rows /\ l \in {BackfillTo, BackfillTo + 1}

\* No ledger is applied onto a state that is not complete: when the first one
\* is, every mini-batch of every chunk has been written.
AppliedOnCompleteState ==
  (\E l \in Ledgers : db.applied[l] > 0)
    => db.complete /\ \A cb \in ChunkBatches : db.written[cb] > 0

\* What the marker has passed is in the database, so that a launch which
\* resumes after it misses no state entry; and a snapshot that is taken for
\* copied (no marker, some entries) has been copied entirely.
MarkerIsSound ==
  \A cb \in ChunkBatches :
    cb[1] <= db.marker \/ (db.snapshot # None /\ ~MustCopy(db))
      => db.written[cb] > 0

\* A launch never copies again what an earlier one has recorded.
RecordedIsFinal ==
  [][\A cb \in ChunkBatches :
       (cb[1] <= db.marker \/ db.complete) /\ crashes' = crashes
         => db'.written[cb] = db.written[cb]]_vars

\* The comment on copyFromFeed: "The state writes are idempotent (upserts), so
\* re-processing is safe."  Once the snapshot is complete, each state entry
\* should count once, also in the metrics, which add up what they are given.
ReprocessingIsSafe ==
  db.complete => \A cb \in ChunkBatches : db.written[cb] = 1

\* The database's history is an interval that grows at its ends.
Range == INSTANCE IndexedRange WITH rows <- db.rows
GrowsAtItsEnds == Range!Spec

\* In the end, whatever crashes there were, the history reaches from the
\* backfill's target to the newest ledger.
FullHistory ==
  <>[](db.complete /\ \A l \in Ledgers : BackfillTo <= l /\ l <= head => l \in db.rows)
===========================================================================
