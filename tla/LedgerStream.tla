--------------------------- MODULE LedgerStream ---------------------------
(***************************************************************************)
(* The ledger stream of xrpl/stream.js: a registry of fetched ledgers that *)
(* hands them out one at a time (next), a filler whose asynchronous        *)
(* workers fetch the missing ones, and the live 'ledger' events that       *)
(* extend a forward stream.  One module stands for both directions: Stride *)
(* is 1 for ledger/sync.js and -1 for ledger/backfill.js.                  *)
(*                                                                         *)
(* A ledger is represented by its sequence number: fetchLedger({sequence}) *)
(* returns the ledger of that sequence, and put() files it under it.       *)
(*                                                                         *)
(* An action is what runs between two awaits.  A filler worker's loop has  *)
(* no await on its "sequence += stride; continue" branch, so each action   *)
(* of a worker runs the loop up to its next await (RunFiller).             *)
(***************************************************************************)
EXTENDS Integers

CONSTANTS
  Workers,    \* the filler's workers, one per pool connection
  Stride,     \* 1: forward stream, -1: backward stream
  Start,      \* startSequence
  Heads,      \* what targetSequence may be when the stream is created
  MaxSize,    \* config.ledger.streamQueueSize
  Live,       \* sequences of the live ledgers the pool may emit; none backward
  MaxLag      \* bound: how far the consumer may get ahead of a waiting worker

ASSUME StreamAssumption ==
  /\ Workers # {}
  /\ Stride \in {1, -1}
  /\ Start \in Int
  /\ Heads \subseteq Int
  /\ MaxSize \in Nat
  /\ Live \subseteq Int
  /\ MaxLag \in Nat \ {0}

VARIABLES
  currentSequence,  \* registry: the ledger next() hands out next
  targetSequence,   \* registry: the last ledger wanted
  ledgers,          \* registry: keys of the map of ledgers held
  reservations,     \* filler: keys of the map of sequences being fetched
  sequence,         \* filler: each worker's own position
  worker,           \* filler: what each worker awaits
  consumer,         \* the caller of next(): busy, waiting in it, or resolved
  delivered         \* history: the sequences handed out so far

streamVars == <<currentSequence, targetSequence, ledgers, reservations, sequence,
                worker, consumer, delivered>>

\* Signed distance from a to b in the direction of the stream.
Steps(a, b) == (b - a) * Stride

Accepts(s) == s - currentSequence \in -MaxSize .. MaxSize

\* Neither of the two waits (100ms beyond the target, 1s outside the window).
InReach(s) == Steps(s, targetSequence) >= 0 /\ Accepts(s)

\* Mutant of Skips: the reservations of the other workers are not consulted.
Skips_IgnoresReservations(s, held, reserved) ==
  InReach(s) /\ (Steps(s, currentSequence) > 0 \/ s \in held)

\* A worker walks over s: already handed out, being fetched, or held.
Skips(s, held, reserved) ==
  InReach(s) /\ (Steps(s, currentSequence) > 0 \/ s \in reserved \/ s \in held)

\* Worker w loops from its position until it awaits: either it reserves the
\* first sequence that is missing and fetches it, or it goes to sleep.
\* The window has 2 * MaxSize + 1 members, hence the bound on the walk.
RunFiller(w, held, reserved) ==
  \E k \in 0 .. 2 * MaxSize + 1 :
    LET s == sequence[w] + k * Stride IN
      /\ \A j \in 0 .. k - 1 : Skips(sequence[w] + j * Stride, held, reserved)
      /\ ~Skips(s, held, reserved)
      /\ sequence' = [sequence EXCEPT ![w] = s]
      /\ \/ /\ InReach(s)
            /\ reservations' = reserved \cup {s}
            /\ worker' = [worker EXCEPT ![w] = "fetching"]
         \/ /\ ~InReach(s)
            /\ reservations' = reserved
            /\ worker' = [worker EXCEPT ![w] = "asleep"]

\* Mutant of Put: the waiting next() is not resolved.
Put_Silent(s) == ledgers' = ledgers \cup {s} /\ UNCHANGED consumer

\* put(): file the ledger and resolve the promise next() may be waiting for.
Put(s) == /\ ledgers' = ledgers \cup {s}
          /\ consumer' = IF consumer = "waiting" THEN "resolved" ELSE consumer

---------------------------------------------------------------------------
(* The stream as createForwardStream or createBackwardStream returns it.   *)
(* The workers start at currentSequence; their first turn is a wake-up.    *)

StreamInit ==
  /\ currentSequence = Start
  /\ targetSequence \in Heads
  /\ ledgers = {}
  /\ reservations = {}
  /\ sequence = [w \in Workers |-> Start]
  /\ worker = [w \in Workers |-> "asleep"]
  /\ consumer = "busy"
  /\ delivered = {}

\* One of the filler's two waits elapses.
WakeUp(w) ==
  /\ worker[w] = "asleep"
  /\ RunFiller(w, ledgers, reservations)
  /\ UNCHANGED <<currentSequence, targetSequence, ledgers, consumer, delivered>>

\* The fetch resolves: put, release, and on with the loop.
FetchSucceeds(w) ==
  /\ worker[w] = "fetching"
  /\ Put(sequence[w])
  /\ RunFiller(w, ledgers', reservations \ {sequence[w]})
  /\ UNCHANGED <<currentSequence, targetSequence, delivered>>

\* Mutant of FetchFails: the worker moves on to the next ledger.
FetchFails_MovesOn(w) ==
  /\ worker[w] = "fetching"
  /\ worker' = [worker EXCEPT ![w] = "asleep"]
  /\ sequence' = [sequence EXCEPT ![w] = @ + Stride]
  /\ reservations' = reservations \ {sequence[w]}
  /\ UNCHANGED <<currentSequence, targetSequence, ledgers, consumer, delivered>>

\* The fetch rejects: the worker backs off with its reservation held.
FetchFails(w) ==
  /\ worker[w] = "fetching"
  /\ worker' = [worker EXCEPT ![w] = "backoff"]
  /\ UNCHANGED <<currentSequence, targetSequence, ledgers, reservations,
                 sequence, consumer, delivered>>

\* The back-off elapses: release, and on with the loop.
BackoffEnds(w) ==
  /\ worker[w] = "backoff"
  /\ RunFiller(w, ledgers, reservations \ {sequence[w]})
  /\ UNCHANGED <<currentSequence, targetSequence, ledgers, consumer, delivered>>

\* A live ledger arrives from the pool.
Extend(l) ==
  /\ targetSequence' = IF l > targetSequence THEN l ELSE targetSequence
  /\ IF Accepts(l) THEN Put(l) ELSE UNCHANGED <<ledgers, consumer>>
  /\ UNCHANGED <<currentSequence, reservations, sequence, worker, delivered>>

\* The waits and fetches of the workers last seconds.  MaxLag says how many
\* ledgers the consumer can hand out past a worker in that time (live ledgers
\* let it do so); a large MaxLag is no assumption about time at all.
WorkersKeepUp == \A w \in Workers : Steps(sequence[w], currentSequence) < MaxLag

\* Mutant of Direction: at the target itself next() already steps back.
Direction_Strict == IF targetSequence > currentSequence THEN 1 ELSE -1

\* Mutant of Direction: next() steps up whatever the direction.
Direction_Up == 1

\* Which way next() steps; it does not know the stride of the stream.
Direction == IF targetSequence >= currentSequence THEN 1 ELSE -1

\* next() finds the current ledger and hands it out.
HandOut ==
  /\ WorkersKeepUp
  /\ consumer \in {"busy", "resolved"}
  /\ currentSequence \in ledgers
  /\ ledgers' = ledgers \ {currentSequence}
  /\ currentSequence' = currentSequence + Direction
  /\ delivered' = delivered \cup {currentSequence}
  /\ consumer' = "busy"
  /\ UNCHANGED <<targetSequence, reservations, sequence, worker>>

\* next() does not find it and awaits a put.
Await ==
  /\ consumer \in {"busy", "resolved"}
  /\ currentSequence \notin ledgers
  /\ consumer' = "waiting"
  /\ UNCHANGED <<currentSequence, targetSequence, ledgers, reservations,
                 sequence, worker, delivered>>

StreamNext ==
  \/ \E w \in Workers : \/ WakeUp(w)
                        \/ FetchSucceeds(w)
                        \/ FetchFails(w)
                        \/ BackoffEnds(w)
  \/ \E l \in Live : Extend(l)
  \/ HandOut
  \/ Await

\* Timers elapse and the consumer keeps calling next(); a fetch that is tried
\* again and again succeeds some time (the nodes are not down for ever).
StreamFairness ==
  /\ \A w \in Workers : /\ WF_streamVars(WakeUp(w))
                        /\ SF_streamVars(FetchSucceeds(w))
                        /\ WF_streamVars(FetchSucceeds(w) \/ FetchFails(w))
                        /\ WF_streamVars(BackoffEnds(w))
  /\ WF_streamVars(HandOut)
  /\ WF_streamVars(Await)

StreamSpec == StreamInit /\ [][StreamNext]_streamVars /\ StreamFairness

---------------------------------------------------------------------------
(* Properties.                                                             *)

StreamTypeOK ==
  /\ currentSequence \in Int
  /\ targetSequence \in Int
  /\ ledgers \in SUBSET Int
  /\ reservations \in SUBSET Int
  /\ sequence \in [Workers -> Int]
  /\ worker \in [Workers -> {"asleep", "fetching", "backoff"}]
  /\ consumer \in {"busy", "waiting", "resolved"}
  /\ delivered \in SUBSET Int

Active(w) == worker[w] \in {"fetching", "backoff"}

\* The workers share one reservation map: the sequences reserved are exactly
\* those of the workers that fetch or back off, and no two such workers are
\* ever on the same ledger.
OneFetchPerLedger ==
  /\ reservations = {sequence[w] : w \in {v \in Workers : Active(v)}}
  /\ \A v, w \in Workers : Active(v) /\ Active(w) /\ sequence[v] = sequence[w]
                              => v = w

\* The registry's memory is bounded: nothing is held or fetched further ahead
\* of the consumer than the queue size, nor beyond the newest ledger wanted.
\* (In a forward stream the second part is also what makes next() step
\* forward: it compares target and current to choose the direction.)
WithinWindow ==
  \A s \in ledgers \cup reservations :
    Steps(currentSequence, s) <= MaxSize /\ Steps(s, targetSequence) >= 0

\* next() has turned round: a backward stream that has handed out its target
\* compares target >= current, steps up again and waits for a ledger it had.
TurnedBack == currentSequence \in delivered

\* No ledger is lost between the workers: a ledger still to be handed out that
\* every worker has walked past is held by the registry.
NothingAbandoned ==
  TurnedBack \/
  \A k \in 0 .. MaxSize :
    LET s == currentSequence + k * Stride IN
      (\A w \in Workers : Steps(s, sequence[w]) > 0) => s \in ledgers

\* Forward: what has been handed out is exactly the range from the first
\* ledger to the one before the current one, without gap.
HandedOutContiguous == delivered = Start .. currentSequence - 1

\* No ledger is handed out (and so applied to the database) twice.
HandedOutOnce ==
  [][currentSequence' # currentSequence => currentSequence \notin delivered]_streamVars

\* Backward, where the last two ledgers can be handed out again after the
\* target: until the target has been reached, each ledger is handed out once,
\* and directly after its neighbour.
OnceInOrderToTarget ==
  [][currentSequence' # currentSequence /\ targetSequence \notin delivered
       => /\ currentSequence \notin delivered
          /\ currentSequence = Start \/ currentSequence - Stride \in delivered
          /\ currentSequence' = currentSequence + Stride
               \/ currentSequence = targetSequence]_streamVars

\* The backfill gets to its target, whatever fetches fail.
ReachesTarget == <>(targetSequence \in delivered)

\* The stream implements the abstract feed: in order, once, up to the head ...
Feed == INSTANCE LedgerFeed WITH next <- currentSequence, head <- targetSequence
ImplementsFeed == Feed!SafeSpec

\* ... and every ledger up to the target is handed out in the end, whatever
\* fetches fail and however live ledgers and fetched ones overtake each other.
DeliversAll == Feed!Progress
===========================================================================
