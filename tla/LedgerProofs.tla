--------------------------- MODULE LedgerProofs ---------------------------
(***************************************************************************)
(* The way of the ledgers into the database: the stream that brings them   *)
(* and the indexer that applies what it brings.                            *)
(*                                                                         *)
(* LedgerStream, for any number of workers, any window and any initial     *)
(* target: in both directions that workers exclude one another (Base),     *)
(* forward that the feed is implemented whatever live ledgers come         *)
(* (StreamInv), backward that it goes down to its target in order          *)
(* (BackInv).                                                              *)
(*                                                                         *)
(* LedgerIndexer, for any number of crashes, ledgers, chunks and           *)
(* mini-batches, as long as no crash falls between the two commits of      *)
(* createSnapshotState (TornCreation).  The invariant has two parts.       *)
(* Sound describes a database on its own: it must hold of what is on disk, *)
(* since a power loss makes that the database, and it is all a new process *)
(* has to go on.  Running relates the memory of the process to the         *)
(* database it has made.                                                   *)
(***************************************************************************)
EXTENDS LedgerStream, LedgerIndexer, TLAPS


---------------------------------------------------------------------------
(* Both directions.                                                        *)

\* Where the loop of a worker ends: at some s, with s in reach, missing and now
\* reserved, or the worker asleep.
EndsAt(w, s, held, reserved) ==
  /\ sequence' = [sequence EXCEPT ![w] = s]
  /\ \/ /\ InReach(s) /\ s \notin reserved /\ s \notin held
        /\ reservations' = reserved \cup {s}
        /\ worker' = [worker EXCEPT ![w] = "fetching"]
     \/ /\ reservations' = reserved
        /\ worker' = [worker EXCEPT ![w] = "asleep"]

LEMMA StrideSteps == ASSUME NEW k \in Int PROVE k * Stride = IF Stride = 1 THEN k ELSE -k
<1>1. CASE Stride = 1
  BY <1>1
<1>2. CASE Stride = -1
  BY <1>2
<1> QED
  BY <1>1, <1>2, StreamAssumption

\* RunFiller as a number of steps and where they end.
LEMMA RunFillerEnds ==
  ASSUME StreamTypeOK, NEW w \in Workers, NEW held, NEW reserved, RunFiller(w, held, reserved)
  PROVE  \E k \in Nat :
           /\ sequence[w] + k * Stride \in Int
           /\ \A j \in 0 .. k - 1 : Skips(sequence[w] + j * Stride, held, reserved)
           /\ EndsAt(w, sequence[w] + k * Stride, held, reserved)
<1>1. PICK k \in 0 .. 2 * MaxSize + 1 :
        LET s == sequence[w] + k * Stride IN
          /\ \A j \in 0 .. k - 1 : Skips(sequence[w] + j * Stride, held, reserved)
          /\ ~Skips(s, held, reserved)
          /\ sequence' = [sequence EXCEPT ![w] = s]
          /\ \/ /\ InReach(s)
                /\ reservations' = reserved \cup {s}
                /\ worker' = [worker EXCEPT ![w] = "fetching"]
             \/ /\ ~InReach(s)
                /\ reservations' = reserved
                /\ worker' = [worker EXCEPT ![w] = "asleep"]
  BY DEF RunFiller
<1>2. k \in Nat /\ sequence[w] \in Int /\ k * Stride \in Int
  BY StreamAssumption, StrideSteps DEF StreamTypeOK
<1> DEFINE s == sequence[w] + k * Stride
<1>3. s \in Int
  BY <1>2
<1>4. InReach(s) => s \notin reserved /\ s \notin held
  BY <1>1 DEF Skips
<1>5. EndsAt(w, s, held, reserved)
  BY <1>1, <1>4 DEF EndsAt
<1> QED
  BY <1>1, <1>2, <1>3, <1>5

Base == StreamTypeOK /\ OneFetchPerLedger

\* What is reserved by the others, when a worker lets go of its own.
LEMMA OthersReserved ==
  ASSUME Base, NEW w \in Workers, NEW reserved,
         reserved = IF Active(w) THEN reservations \ {sequence[w]} ELSE reservations
  PROVE  reserved = {sequence[v] : v \in {u \in Workers \ {w} : Active(u)}}
  BY DEF Base, OneFetchPerLedger, StreamTypeOK

\* A worker that is not in the middle of a fetch walks on.
LEMMA WalkBase ==
  ASSUME Base, NEW w \in Workers, NEW s \in Int,
         NEW held \in SUBSET Int, NEW reserved \in SUBSET Int,
         reserved = IF Active(w) THEN reservations \ {sequence[w]} ELSE reservations,
         EndsAt(w, s, held, reserved),
         ledgers' \in SUBSET Int,
         consumer' \in {"busy", "waiting", "resolved"},
         UNCHANGED <<currentSequence, targetSequence, delivered>>
  PROVE  Base'
<1> USE StreamAssumption DEF Base
<1>1. StreamTypeOK'
  BY DEF StreamTypeOK, EndsAt
<1>2. reserved = {sequence[v] : v \in {u \in Workers \ {w} : Active(u)}}
  BY OthersReserved
<1>3. OneFetchPerLedger'
  <2>1. \A v \in Workers \ {w} : sequence'[v] = sequence[v] /\ worker'[v] = worker[v]
    BY DEF EndsAt, StreamTypeOK
  <2>2. \A v \in Workers \ {w} : Active(v)' <=> Active(v)
    BY <2>1 DEF Active
  <2>3. sequence'[w] = s
    BY DEF EndsAt, StreamTypeOK
  <2>4. CASE worker' = [worker EXCEPT ![w] = "fetching"] /\ reservations' = reserved \cup {s}
             /\ s \notin reserved
    <3>1. Active(w)'
      BY <2>4 DEF Active, StreamTypeOK
    <3>2. reservations' = {sequence'[v] : v \in {u \in Workers : Active(u)'}}
      BY <1>2, <2>1, <2>2, <2>3, <2>4, <3>1
    <3>3. ASSUME NEW u \in Workers, NEW v \in Workers, Active(u)', Active(v)',
                 sequence'[u] = sequence'[v]
          PROVE  u = v
      BY <1>2, <2>1, <2>2, <2>3, <2>4, <3>3 DEF OneFetchPerLedger
    <3>4. QED
      BY <3>2, <3>3 DEF OneFetchPerLedger, Active
  <2>5. CASE worker' = [worker EXCEPT ![w] = "asleep"] /\ reservations' = reserved
    <3>1. ~Active(w)'
      BY <2>5 DEF Active, StreamTypeOK
    <3>2. reservations' = {sequence'[v] : v \in {u \in Workers : Active(u)'}}
      BY <1>2, <2>1, <2>2, <2>5, <3>1
    <3>3. ASSUME NEW u \in Workers, NEW v \in Workers, Active(u)', Active(v)',
                 sequence'[u] = sequence'[v]
          PROVE  u = v
      BY <2>1, <2>2, <3>1, <3>3 DEF OneFetchPerLedger
    <3>4. QED
      BY <3>2, <3>3 DEF OneFetchPerLedger, Active
  <2>6. QED
    BY <2>4, <2>5 DEF EndsAt
<1> QED
  BY <1>1, <1>3

\* A worker fetches what it has reserved.
LEMMA ActiveReserved ==
  ASSUME Base, NEW w \in Workers, Active(w)
  PROVE  sequence[w] \in reservations
  BY DEF Base, OneFetchPerLedger

\* What a step of a worker is: a walk from what it puts and lets go of, or a
\* fetch that fails.
LEMMA WorkerSteps ==
  ASSUME Base, NEW w \in Workers,
         WakeUp(w) \/ FetchSucceeds(w) \/ BackoffEnds(w),
         NEW held, held = ledgers',
         NEW reserved,
         reserved = IF Active(w) THEN reservations \ {sequence[w]} ELSE reservations
  PROVE  /\ RunFiller(w, held, reserved)
         /\ held \in SUBSET Int /\ reserved \in SUBSET Int
         /\ held = ledgers \/ (Active(w) /\ held = ledgers \cup {sequence[w]})
         /\ consumer' \in {"busy", "waiting", "resolved"}
         /\ UNCHANGED <<currentSequence, targetSequence, delivered>>
<1> USE DEF Base, StreamTypeOK
<1>1. CASE WakeUp(w)
  <2>1. ~Active(w) /\ ledgers' = ledgers
    BY <1>1 DEF WakeUp, Active
  <2> QED
    BY <1>1, <2>1 DEF WakeUp
<1>2. CASE FetchSucceeds(w)
  <2>1. Active(w) /\ ledgers' = ledgers \cup {sequence[w]} /\ sequence[w] \in Int
    BY <1>2 DEF FetchSucceeds, Active, Put
  <2>2. consumer' \in {"busy", "waiting", "resolved"}
    BY <1>2 DEF FetchSucceeds, Put
  <2> QED
    BY <1>2, <2>1, <2>2 DEF FetchSucceeds
<1>3. CASE BackoffEnds(w)
  <2>1. Active(w) /\ ledgers' = ledgers
    BY <1>3 DEF BackoffEnds, Active
  <2> QED
    BY <1>3, <2>1 DEF BackoffEnds
<1> QED
  BY <1>1, <1>2, <1>3

\* No step of a worker but a failing fetch leaves its sequence where it was.
LEMMA FailsBase ==
  ASSUME Base, NEW w \in Workers, FetchFails(w)
  PROVE  Base'
<1>1. UNCHANGED <<currentSequence, targetSequence, ledgers, reservations, sequence, consumer, delivered>>
  BY DEF FetchFails
<1>2. \A v \in Workers : Active(v)' <=> Active(v)
  BY DEF FetchFails, Active, Base, StreamTypeOK
<1>3. StreamTypeOK'
  BY <1>1 DEF FetchFails, Base, StreamTypeOK
<1>4. OneFetchPerLedger'
  BY <1>1, <1>2 DEF OneFetchPerLedger, Base, Active
<1> QED
  BY <1>3, <1>4 DEF Base

LEMMA InitBase == StreamInit => Base
<1> USE StreamAssumption DEF StreamInit
<1>1. StreamInit => StreamTypeOK
  BY DEF StreamTypeOK
<1>2. StreamInit => OneFetchPerLedger
  BY DEF OneFetchPerLedger, Active
<1> QED
  BY <1>1, <1>2 DEF Base

\* Whatever the workers, the consumer and the pool do, in either direction.
LEMMA NextBase == Base /\ [StreamNext]_streamVars => Base'
<1> SUFFICES ASSUME Base, [StreamNext]_streamVars PROVE Base'
  OBVIOUS
<1> USE StreamAssumption
<1>1. ASSUME NEW w \in Workers, WakeUp(w) \/ FetchSucceeds(w) \/ BackoffEnds(w) PROVE Base'
  <2>1. PICK held, reserved :
          /\ held = ledgers'
          /\ reserved = IF Active(w) THEN reservations \ {sequence[w]} ELSE reservations
    OBVIOUS
  <2>2. /\ RunFiller(w, held, reserved)
        /\ held \in SUBSET Int /\ reserved \in SUBSET Int
        /\ consumer' \in {"busy", "waiting", "resolved"}
        /\ UNCHANGED <<currentSequence, targetSequence, delivered>>
    BY <1>1, <2>1, WorkerSteps
  <2>3. PICK s \in Int : EndsAt(w, s, held, reserved)
    BY <2>2, RunFillerEnds DEF Base
  <2> QED
    BY <2>1, <2>2, <2>3, WalkBase
<1>2. ASSUME NEW w \in Workers, FetchFails(w) PROVE Base'
  BY <1>2, FailsBase
<1>3. ASSUME NEW l \in Live, Extend(l) PROVE Base'
  <2>1. StreamTypeOK'
    <3>1. l \in Int /\ targetSequence' \in Int
      BY <1>3 DEF Extend, Base, StreamTypeOK
    <3>2. ledgers' \in SUBSET Int /\ consumer' \in {"busy", "waiting", "resolved"}
      BY <1>3, <3>1 DEF Extend, Put, Base, StreamTypeOK
    <3> QED
      BY <1>3, <3>1, <3>2 DEF Extend, Base, StreamTypeOK
  <2>2. OneFetchPerLedger'
    BY <1>3 DEF Extend, OneFetchPerLedger, Active, Base
  <2> QED
    BY <2>1, <2>2 DEF Base
<1>4. CASE HandOut
  <2>1. StreamTypeOK'
    BY <1>4 DEF HandOut, Direction, Base, StreamTypeOK
  <2>2. OneFetchPerLedger'
    BY <1>4 DEF HandOut, OneFetchPerLedger, Active, Base
  <2> QED
    BY <2>1, <2>2 DEF Base
<1>5. CASE Await
  BY <1>5 DEF Await, Base, StreamTypeOK, OneFetchPerLedger, Active
<1>6. CASE UNCHANGED streamVars
  BY <1>6 DEF streamVars, Base, StreamTypeOK, OneFetchPerLedger, Active
<1> QED
  BY <1>1, <1>2, <1>3, <1>4, <1>5, <1>6 DEF StreamNext

LEMMA BaseInvariant == StreamSpec => []Base
<1>1. StreamInit => Base
  BY InitBase
<1>2. Base /\ [StreamNext]_streamVars => Base'
  BY NextBase
<1> QED
  BY <1>1, <1>2, PTL DEF StreamSpec

\* In every state the variables of the stream hold what their comments say.
THEOREM StreamTypeCorrect == StreamSpec => []StreamTypeOK
<1>1. Base => StreamTypeOK
  BY DEF Base
<1>2. QED
  BY <1>1, BaseInvariant, PTL

\* Two workers never fetch (or back off with) the same ledger, in a stream of
\* either direction.
THEOREM FetchExclusion == StreamSpec => []OneFetchPerLedger
<1>1. Base => OneFetchPerLedger
  BY DEF Base
<1>2. QED
  BY <1>1, BaseInvariant, PTL

---------------------------------------------------------------------------
(* Forward.                                                                *)

\* The strengthening of NothingAbandoned that is inductive: over all
\* sequences, not only those of the window.
AllWalkedPastAreHeld ==
  \A s \in Int :
    s >= currentSequence /\ (\A w \in Workers : sequence[w] > s) => s \in ledgers

WithinBounds ==
  \A s \in ledgers \cup reservations :
    s <= currentSequence + MaxSize /\ s <= targetSequence

StreamInv == /\ Base
        /\ WithinBounds
        /\ currentSequence >= Start
        /\ HandedOutContiguous
        /\ AllWalkedPastAreHeld

\* A walk upwards, over what was handed out, reserved or held.
LEMMA WalksUp ==
  ASSUME Stride = 1, StreamTypeOK, NEW w \in Workers, NEW held, NEW reserved,
         RunFiller(w, held, reserved)
  PROVE  \E s \in Int :
           /\ EndsAt(w, s, held, reserved)
           /\ s >= sequence[w]
           /\ \A t \in Int : sequence[w] <= t /\ t < s
                              => t < currentSequence \/ t \in reserved \/ t \in held
<1>1. PICK k \in Nat :
        /\ \A j \in 0 .. k - 1 : Skips(sequence[w] + j * Stride, held, reserved)
        /\ EndsAt(w, sequence[w] + k * Stride, held, reserved)
  BY RunFillerEnds
<1> DEFINE p == sequence[w]
           s == p + k
<1>2. p \in Int /\ s \in Int
  BY DEF StreamTypeOK
<1>3. p + k * Stride = s
  BY <1>2
<1>4. ASSUME NEW t \in Int, p <= t, t < s
      PROVE  t < currentSequence \/ t \in reserved \/ t \in held
  <2>1. t - p \in 0 .. k - 1 /\ (t - p) * Stride = t - p /\ p + (t - p) = t
    BY <1>2, <1>4
  <2>2. Skips(t, held, reserved)
    BY <1>1, <2>1
  <2>3. QED
    BY <2>2, <1>2 DEF Skips, Steps, StreamTypeOK
<1> QED
  BY <1>1, <1>2, <1>3, <1>4

LEMMA InitIInv == Stride = 1 /\ StreamInit => StreamInv
<1> SUFFICES ASSUME Stride = 1, StreamInit PROVE StreamInv
  OBVIOUS
<1> USE StreamAssumption DEF StreamInit
<1>1. Base
  BY InitBase
<1>2. WithinBounds /\ currentSequence >= Start /\ HandedOutContiguous
  BY DEF WithinBounds, HandedOutContiguous
<1>3. AllWalkedPastAreHeld
  BY DEF AllWalkedPastAreHeld
<1> QED
  BY <1>1, <1>2, <1>3 DEF StreamInv

\* A step of a worker, what is held having grown (or not) by the ledger it
\* just put: each part of StreamInv is preserved.
LEMMA WalkPreserves ==
  ASSUME Stride = 1, StreamInv, Base', NEW w \in Workers,
         WakeUp(w) \/ FetchSucceeds(w) \/ BackoffEnds(w)
  PROVE  StreamInv'
<1> USE StreamAssumption DEF StreamInv
<1>1. PICK held, reserved :
        /\ held = ledgers'
        /\ reserved = IF Active(w) THEN reservations \ {sequence[w]} ELSE reservations
  OBVIOUS
<1>2. /\ RunFiller(w, held, reserved)
      /\ held \in SUBSET Int /\ reserved \in SUBSET Int
      /\ held = ledgers \/ (Active(w) /\ held = ledgers \cup {sequence[w]})
      /\ UNCHANGED <<currentSequence, targetSequence, delivered>>
  BY <1>1, WorkerSteps
<1>3. PICK s \in Int :
        /\ EndsAt(w, s, held, reserved)
        /\ s >= sequence[w]
        /\ \A t \in Int : sequence[w] <= t /\ t < s
                           => t < currentSequence \/ t \in reserved \/ t \in held
  BY <1>2, WalksUp DEF Base
<1>4. reserved = {sequence[v] : v \in {u \in Workers \ {w} : Active(u)}}
  BY <1>1, OthersReserved
<1>5. WithinBounds'
  <2>1. reservations' \subseteq reservations \cup {s}
        /\ (s \in reservations' \ reservations => InReach(s))
    BY <1>1, <1>3 DEF EndsAt
  <2>2. InReach(s) => s <= currentSequence + MaxSize /\ s <= targetSequence
    BY DEF InReach, Steps, Accepts, Base, StreamTypeOK
  <2>3. ledgers' \subseteq ledgers \cup reservations
    BY <1>1, <1>2, ActiveReserved
  <2> QED
    BY <1>2, <2>1, <2>2, <2>3 DEF WithinBounds
<1>6. (currentSequence >= Start /\ HandedOutContiguous)'
  BY <1>2 DEF HandedOutContiguous
<1>7. AllWalkedPastAreHeld'
  <2> SUFFICES ASSUME NEW t \in Int, t >= currentSequence,
                      \A v \in Workers : sequence'[v] > t
               PROVE  t \in held
    BY <1>1, <1>2 DEF AllWalkedPastAreHeld
  <2>1. \A v \in Workers \ {w} : sequence[v] > t
    BY <1>3 DEF EndsAt, Base, StreamTypeOK
  <2>2. s > t
    BY <1>3 DEF EndsAt, Base, StreamTypeOK
  <2>3. CASE sequence[w] > t
    BY <1>2, <2>1, <2>3 DEF AllWalkedPastAreHeld
  <2>4. CASE ~(sequence[w] > t)
    <3>1. t < currentSequence \/ t \in reserved \/ t \in held
      BY <1>3, <2>2, <2>4 DEF Base, StreamTypeOK
    <3>2. t \notin reserved
      BY <1>4, <2>1
    <3>3. QED
      BY <3>1, <3>2 DEF Base, StreamTypeOK
  <2>5. QED
    BY <2>3, <2>4
<1> QED
  BY <1>5, <1>6, <1>7

LEMMA NextIInv == Stride = 1 /\ StreamInv /\ [StreamNext]_streamVars => StreamInv'
<1> SUFFICES ASSUME Stride = 1, StreamInv, [StreamNext]_streamVars PROVE StreamInv'
  OBVIOUS
<1> USE StreamAssumption
<1>0. Base' /\ Base /\ StreamTypeOK
  BY NextBase DEF StreamInv, Base
<1>1. ASSUME NEW w \in Workers, WakeUp(w) \/ FetchSucceeds(w) \/ BackoffEnds(w) PROVE StreamInv'
  BY <1>0, <1>1, WalkPreserves
<1>2. ASSUME NEW w \in Workers, FetchFails(w) PROVE StreamInv'
  BY <1>0, <1>2 DEF FetchFails, StreamInv, WithinBounds, HandedOutContiguous, AllWalkedPastAreHeld
<1>3. ASSUME NEW l \in Live, Extend(l) PROVE StreamInv'
  <2>1. l \in Int /\ targetSequence' \in Int /\ targetSequence' >= targetSequence
        /\ targetSequence' >= l
    BY <1>0, <1>3 DEF Extend, StreamTypeOK
  <2>2. \/ Accepts(l) /\ ledgers' = ledgers \cup {l}
        \/ ledgers' = ledgers
    BY <1>3 DEF Extend, Put
  <2>3. UNCHANGED <<currentSequence, reservations, sequence, worker, delivered>>
    BY <1>3 DEF Extend
  <2>4. WithinBounds'
    <3>1. \A s \in ledgers \cup reservations :
            s <= currentSequence + MaxSize /\ s <= targetSequence'
      BY <1>0, <2>1 DEF WithinBounds, StreamInv, StreamTypeOK
    <3>2. Accepts(l) => l <= currentSequence + MaxSize
      BY <1>0, <2>1 DEF Accepts, StreamTypeOK
    <3>3. QED
      BY <2>1, <2>2, <2>3, <3>1, <3>2 DEF WithinBounds
  <2>5. AllWalkedPastAreHeld'
    BY <2>2, <2>3 DEF AllWalkedPastAreHeld, StreamInv
  <2> QED
    BY <1>0, <2>3, <2>4, <2>5 DEF StreamInv, HandedOutContiguous
<1>4. CASE HandOut
  <2>1. currentSequence \in ledgers /\ ledgers' = ledgers \ {currentSequence}
        /\ delivered' = delivered \cup {currentSequence}
        /\ UNCHANGED <<targetSequence, reservations, sequence, worker>>
    BY <1>4 DEF HandOut
  <2>2. currentSequence \in Int /\ targetSequence \in Int
        /\ targetSequence >= currentSequence
    BY <1>0, <2>1 DEF StreamInv, StreamTypeOK, WithinBounds
  <2>3. currentSequence' = currentSequence + 1
    BY <1>4, <2>2 DEF HandOut, Direction
  <2>4. WithinBounds'
    BY <1>0, <2>1, <2>2, <2>3 DEF WithinBounds, StreamInv, StreamTypeOK
  <2>5. currentSequence' >= Start /\ HandedOutContiguous'
    BY <2>1, <2>2, <2>3 DEF HandedOutContiguous, StreamInv
  <2>6. AllWalkedPastAreHeld'
    BY <2>1, <2>2, <2>3 DEF AllWalkedPastAreHeld, StreamInv
  <2> QED
    BY <1>0, <2>4, <2>5, <2>6 DEF StreamInv
<1>5. CASE Await
  BY <1>0, <1>5 DEF Await, StreamInv, WithinBounds, HandedOutContiguous, AllWalkedPastAreHeld
<1>6. CASE UNCHANGED streamVars
  BY <1>0, <1>6 DEF streamVars, StreamInv, WithinBounds, HandedOutContiguous, AllWalkedPastAreHeld
<1> QED
  BY <1>1, <1>2, <1>3, <1>4, <1>5, <1>6 DEF StreamNext

\* The invariant of the forward stream, from which the rest follows.
LEMMA ForwardInvariant == ASSUME Stride = 1 PROVE StreamSpec => []StreamInv
<1>1. StreamInit => StreamInv
  BY InitIInv
<1>2. StreamInv /\ [StreamNext]_streamVars => StreamInv'
  BY NextIInv
<1>3. QED
  BY <1>1, <1>2, PTL DEF StreamSpec

\* What every worker has walked past and is still to be handed out is held.
THEOREM NoneAbandoned == ASSUME Stride = 1 PROVE StreamSpec => []NothingAbandoned
<1>1. ASSUME Stride = 1, StreamInv PROVE NothingAbandoned
  <2>1. SUFFICES ASSUME NEW k \in 0 .. MaxSize,
                        \A w \in Workers :
                          Steps(currentSequence + k * Stride, sequence[w]) > 0
                 PROVE  currentSequence + k * Stride \in ledgers
    BY DEF NothingAbandoned
  <2>2. /\ currentSequence \in Int /\ k \in Nat
        /\ currentSequence + k * Stride = currentSequence + k
    BY <1>1, StreamAssumption DEF StreamInv, Base, StreamTypeOK
  <2>3. \A w \in Workers : sequence[w] > currentSequence + k
    <3> TAKE w \in Workers
    <3>1. sequence[w] \in Int /\ currentSequence + k \in Int
      BY <1>1, <2>2 DEF StreamInv, Base, StreamTypeOK
    <3>2. Steps(currentSequence + k, sequence[w]) > 0
      BY <2>1, <2>2
    <3>3. Steps(currentSequence + k, sequence[w]) = sequence[w] - (currentSequence + k)
      BY <1>1, <3>1 DEF Steps
    <3>4. QED
      BY <3>1, <3>2, <3>3
  <2>4. QED
    BY <1>1, <2>2, <2>3 DEF StreamInv, AllWalkedPastAreHeld
<1>2. QED
  BY <1>1, ForwardInvariant, PTL

\* What has been handed out is an interval without gap.
THEOREM DeliveredContiguous == ASSUME Stride = 1 PROVE StreamSpec => []HandedOutContiguous
<1>1. StreamInv => HandedOutContiguous
  BY DEF StreamInv
<1>2. QED
  BY <1>1, ForwardInvariant, PTL

\* No ledger is handed out twice.
THEOREM AtMostOnce == ASSUME Stride = 1 PROVE StreamSpec => HandedOutOnce
<1>1. StreamInv => currentSequence \notin delivered
  BY DEF StreamInv, HandedOutContiguous, Base, StreamTypeOK
<1>2. StreamInv /\ [StreamNext]_streamVars
        => [currentSequence' # currentSequence => currentSequence \notin delivered]_streamVars
  BY <1>1
<1>3. QED
  BY <1>2, ForwardInvariant, PTL DEF StreamSpec, HandedOutOnce

\* The stream implements the feed: each of its steps hands out the next ledger,
\* raises the head or changes neither.
THEOREM FeedImplemented == ASSUME Stride = 1 PROVE StreamSpec => ImplementsFeed
<1>1. StreamInit => Feed!Init
  BY DEF StreamInit, Feed!Init
<1>2. ASSUME StreamInv, [StreamNext]_streamVars PROVE [Feed!Next]_(Feed!feedVars)
  <2> USE DEF Feed!Next, Feed!Deliver, Feed!Extend, Feed!feedVars
  <2>1. CASE HandOut
    <3>1. currentSequence <= targetSequence /\ currentSequence \in Int
          /\ targetSequence \in Int
      BY <1>2, <2>1 DEF HandOut, StreamInv, WithinBounds, Base, StreamTypeOK
    <3>2. currentSequence' = currentSequence + 1 /\ UNCHANGED targetSequence
      BY <2>1, <3>1 DEF HandOut, Direction
    <3>3. QED
      BY <3>1, <3>2
  <2>2. ASSUME NEW l \in Live, Extend(l) PROVE [Feed!Next]_(Feed!feedVars)
    BY <1>2, <2>2, StreamAssumption DEF Extend, StreamInv, Base, StreamTypeOK
  <2>3. ASSUME NEW w \in Workers,
               WakeUp(w) \/ FetchSucceeds(w) \/ FetchFails(w) \/ BackoffEnds(w)
        PROVE  UNCHANGED <<currentSequence, targetSequence>>
    BY <2>3 DEF WakeUp, FetchSucceeds, FetchFails, BackoffEnds
  <2>4. Await \/ UNCHANGED streamVars => UNCHANGED <<currentSequence, targetSequence>>
    BY DEF Await, streamVars
  <2>5. QED
    BY <1>2, <2>1, <2>2, <2>3, <2>4 DEF StreamNext
<1>3. QED
  BY <1>1, <1>2, ForwardInvariant, PTL DEF StreamSpec, ImplementsFeed, Feed!SafeSpec

---------------------------------------------------------------------------
(* Backward: no live ledgers, as createBackwardStream subscribes to none.  *)

\* What is held or fetched lies between the target and the first ledger, the
\* workers only go down, and what has been handed out is the range above the
\* current ledger until next() turns round at the target.
BackInv ==
  /\ Base
  /\ \A w \in Workers : sequence[w] <= Start
  /\ \A s \in ledgers \cup reservations :
       targetSequence <= s /\ s <= Start /\ currentSequence - s <= MaxSize
  /\ ledgers \cap reservations = {}
  /\ \/ /\ targetSequence \notin delivered /\ currentSequence <= Start
        /\ delivered = currentSequence + 1 .. Start
     \/ /\ targetSequence \in delivered
        /\ currentSequence \in {targetSequence, targetSequence + 1}
        /\ delivered = targetSequence .. Start

\* A walk downwards.
LEMMA WalksDown ==
  ASSUME Stride = -1, StreamTypeOK, NEW w \in Workers, NEW held, NEW reserved,
         RunFiller(w, held, reserved)
  PROVE  \E s \in Int : EndsAt(w, s, held, reserved) /\ s <= sequence[w]
<1>1. PICK k \in Nat : EndsAt(w, sequence[w] + k * Stride, held, reserved)
  BY RunFillerEnds
<1>2. sequence[w] \in Int /\ sequence[w] + k * Stride = sequence[w] - k
  BY DEF StreamTypeOK
<1>3. sequence[w] - k \in Int /\ sequence[w] - k <= sequence[w]
  BY <1>2
<1> QED
  BY <1>1, <1>2, <1>3

LEMMA BackInit == ASSUME Stride = -1, StreamInit PROVE BackInv
<1>1. Base
  BY InitBase
<1>2. Start + 1 .. Start = {} /\ Start \in Int
  BY StreamAssumption
<1> QED
  BY <1>1, <1>2 DEF StreamInit, BackInv

LEMMA BackWalk ==
  ASSUME Stride = -1, BackInv, Base', NEW w \in Workers,
         WakeUp(w) \/ FetchSucceeds(w) \/ BackoffEnds(w)
  PROVE  BackInv'
<1> USE StreamAssumption
<1>0. Base
  BY DEF BackInv
<1>1. PICK held, reserved :
        /\ held = ledgers'
        /\ reserved = IF Active(w) THEN reservations \ {sequence[w]} ELSE reservations
  OBVIOUS
<1>2. /\ RunFiller(w, held, reserved)
      /\ held = ledgers \/ (Active(w) /\ held = ledgers \cup {sequence[w]})
      /\ UNCHANGED <<currentSequence, targetSequence, delivered>>
  BY <1>0, <1>1, WorkerSteps
<1>3. PICK s \in Int : EndsAt(w, s, held, reserved) /\ s <= sequence[w]
  BY <1>2, WalksDown DEF BackInv, Base
<1>4. StreamTypeOK /\ Start \in Int /\ MaxSize \in Nat
  BY DEF BackInv, Base
<1>5. \A v \in Workers : sequence'[v] <= Start
  <2>1. \A v \in Workers : sequence[v] \in Int /\ sequence[v] <= Start
    BY <1>4 DEF BackInv, StreamTypeOK
  <2>2. s <= Start
    BY <1>3, <1>4, <2>1
  <2> QED
    BY <1>3, <1>4, <2>1, <2>2 DEF EndsAt, StreamTypeOK
<1>6. held \subseteq ledgers \cup reservations /\ reserved \subseteq reservations
  BY <1>1, <1>2, ActiveReserved DEF BackInv
<1>7. held \cap reserved = {}
  BY <1>1, <1>2 DEF BackInv
<1>8. InReach(s) => targetSequence <= s /\ s <= Start /\ currentSequence - s <= MaxSize
  <2>1. s <= Start
    BY <1>3, <1>4 DEF BackInv, StreamTypeOK
  <2>2. InReach(s) => targetSequence <= s
    BY <1>4 DEF InReach, Steps, StreamTypeOK
  <2>3. InReach(s) => currentSequence - s <= MaxSize
    BY <1>4 DEF InReach, Accepts, StreamTypeOK
  <2> QED
    BY <2>1, <2>2, <2>3
<1>9. ledgers' \cap reservations' = {}
  BY <1>1, <1>3, <1>7 DEF EndsAt
<1>10. \A t \in ledgers' \cup reservations' :
         targetSequence <= t /\ t <= Start /\ currentSequence - t <= MaxSize
  <2>1. ledgers' \cup reservations' \subseteq ledgers \cup reservations \cup {s}
    BY <1>1, <1>3, <1>6 DEF EndsAt
  <2>2. s \in reservations' \ reserved => InReach(s)
    BY <1>3 DEF EndsAt
  <2>3. s \in ledgers' \cup reservations' => s \in ledgers \cup reservations \/ InReach(s)
    BY <1>1, <1>6, <2>2
  <2> QED
    BY <1>8, <2>1, <2>3 DEF BackInv
<1> QED
  BY <1>2, <1>5, <1>9, <1>10 DEF BackInv

LEMMA BackHandOut ==
  ASSUME Stride = -1, BackInv, Base', HandOut
  PROVE  /\ BackInv'
         /\ targetSequence \notin delivered =>
              /\ currentSequence \notin delivered
              /\ currentSequence = Start \/ currentSequence + 1 \in delivered
              /\ currentSequence' = currentSequence - 1 \/ currentSequence = targetSequence
<1> USE StreamAssumption
<1>1. /\ currentSequence \in ledgers /\ ledgers' = ledgers \ {currentSequence}
      /\ delivered' = delivered \cup {currentSequence}
      /\ currentSequence' = currentSequence + Direction
      /\ UNCHANGED <<targetSequence, reservations, sequence, worker>>
  BY DEF HandOut
<1>2. /\ currentSequence \in Int /\ targetSequence \in Int /\ Start \in Int /\ MaxSize \in Nat
      /\ ledgers \cup reservations \subseteq Int
      /\ targetSequence <= currentSequence /\ currentSequence <= Start
  BY <1>1 DEF BackInv, Base, StreamTypeOK
<1>3. currentSequence' = IF currentSequence = targetSequence THEN targetSequence + 1
                         ELSE currentSequence - 1
  BY <1>1, <1>2 DEF Direction
<1>4. \A s \in ledgers' \cup reservations' :
        targetSequence <= s /\ s <= Start /\ currentSequence' - s <= MaxSize
  <2>1. ASSUME NEW s \in ledgers' \cup reservations' PROVE currentSequence' - s <= MaxSize
    <3>1. s \in Int /\ targetSequence <= s /\ currentSequence - s <= MaxSize /\ s # currentSequence
      BY <1>1, <1>2 DEF BackInv
    <3> QED
      BY <1>2, <1>3, <3>1
  <2> QED
    BY <1>1, <2>1 DEF BackInv
<1>5. CASE targetSequence \notin delivered
  <2>1. delivered = currentSequence + 1 .. Start
    BY <1>5 DEF BackInv
  <2>2. currentSequence \notin delivered /\ (currentSequence = Start \/ currentSequence + 1 \in delivered)
    BY <1>2, <2>1
  <2>3. delivered' = currentSequence .. Start
    BY <1>1, <1>2, <2>1
  <2>4. CASE currentSequence = targetSequence
    BY <1>1, <1>2, <1>3, <1>4, <2>2, <2>3, <2>4 DEF BackInv
  <2>5. CASE currentSequence # targetSequence
    <3>1. targetSequence \notin delivered' /\ currentSequence' <= Start
      BY <1>2, <1>3, <2>3, <2>5
    <3>2. currentSequence' + 1 = currentSequence
      BY <1>2, <1>3, <2>5
    <3> QED
      BY <1>1, <1>3, <1>4, <2>2, <2>3, <2>5, <3>1, <3>2 DEF BackInv
  <2> QED
    BY <2>4, <2>5
<1>6. CASE targetSequence \in delivered
  <2>1. /\ currentSequence \in {targetSequence, targetSequence + 1}
        /\ delivered = targetSequence .. Start
    BY <1>6 DEF BackInv
  <2>2. delivered' = delivered /\ currentSequence' \in {targetSequence, targetSequence + 1}
    BY <1>1, <1>2, <1>3, <2>1
  <2> QED
    BY <1>1, <1>4, <1>6, <2>1, <2>2 DEF BackInv
<1> QED
  BY <1>5, <1>6

LEMMA BackNext == ASSUME Stride = -1, Live = {}, BackInv, [StreamNext]_streamVars PROVE BackInv'
<1>0. Base'
  BY NextBase DEF BackInv
<1>1. ASSUME NEW w \in Workers, WakeUp(w) \/ FetchSucceeds(w) \/ BackoffEnds(w) PROVE BackInv'
  BY <1>0, <1>1, BackWalk
<1>2. ASSUME NEW w \in Workers, FetchFails(w) PROVE BackInv'
  BY <1>0, <1>2 DEF FetchFails, BackInv
<1>3. CASE HandOut
  BY <1>0, <1>3, BackHandOut
<1>4. CASE Await
  BY <1>0, <1>4 DEF Await, BackInv
<1>5. CASE UNCHANGED streamVars
  BY <1>0, <1>5 DEF streamVars, BackInv
<1> QED
  BY <1>1, <1>2, <1>3, <1>4, <1>5 DEF StreamNext

\* The invariant of the backward stream.
LEMMA BackwardInvariant == ASSUME Stride = -1, Live = {} PROVE StreamSpec => []BackInv
<1>1. StreamInit => BackInv
  BY BackInit
<1>2. BackInv /\ [StreamNext]_streamVars => BackInv'
  BY BackNext
<1> QED
  BY <1>1, <1>2, PTL DEF StreamSpec

\* Until a backward stream has handed out its target, it hands out each ledger
\* once, next to the one before it.
THEOREM InOrderToTarget ==
  ASSUME Stride = -1, Live = {}
  PROVE  StreamSpec => OnceInOrderToTarget
<1> DEFINE InOrder == currentSequence' # currentSequence /\ targetSequence \notin delivered
                        => /\ currentSequence \notin delivered
                           /\ currentSequence = Start \/ currentSequence - Stride \in delivered
                           /\ currentSequence' = currentSequence + Stride
                                \/ currentSequence = targetSequence
<1>1. ASSUME BackInv, [StreamNext]_streamVars PROVE [InOrder]_streamVars
  <2> SUFFICES ASSUME currentSequence' # currentSequence, targetSequence \notin delivered
               PROVE  /\ currentSequence \notin delivered
                      /\ currentSequence = Start \/ currentSequence - Stride \in delivered
                      /\ currentSequence' = currentSequence + Stride
                           \/ currentSequence = targetSequence
    OBVIOUS
  <2>1. HandOut
    BY <1>1 DEF StreamNext, WakeUp, FetchSucceeds, FetchFails, BackoffEnds, Extend, Await, streamVars
  <2>2. currentSequence \in Int /\ currentSequence - Stride = currentSequence + 1
        /\ currentSequence + Stride = currentSequence - 1
    BY <1>1 DEF BackInv, Base, StreamTypeOK
  <2>3. Base'
    BY <1>1, NextBase DEF BackInv
  <2> QED
    BY <1>1, <2>1, <2>2, <2>3, BackHandOut
<1> QED
  BY <1>1, BackwardInvariant, PTL DEF OnceInOrderToTarget, StreamSpec

\* Nothing is held or fetched beyond the window or beyond the target, in a
\* stream of either direction.
THEOREM BoundedWindow ==
  ASSUME Stride = -1 => Live = {}
  PROVE  StreamSpec => []WithinWindow
<1>1. CASE Stride = 1
  <2>1. StreamInv => WithinWindow
    BY <1>1, StreamAssumption DEF StreamInv, WithinBounds, WithinWindow, Steps, Base, StreamTypeOK
  <2> QED
    BY <1>1, <2>1, ForwardInvariant, PTL
<1>2. CASE Stride = -1
  <2>1. BackInv => WithinWindow
    BY <1>2, StreamAssumption DEF BackInv, WithinWindow, Steps, Base, StreamTypeOK
  <2> QED
    BY <1>2, <2>1, BackwardInvariant, PTL
<1> QED
  BY <1>1, <1>2, StreamAssumption

---------------------------------------------------------------------------
(* The indexer.                                                            *)


AppliedOnceIn(d) ==
  \A l \in Ledgers :
    /\ d.applied[l] > 0 <=> d.snapshot # None /\ l \in d.rows \ {d.snapshot}
    /\ d.applied[l] > 1 => BackfillTo \in d.rows /\ l \in {BackfillTo, BackfillTo + 1}

Interval(S) == \A a, b \in S : a .. b \subseteq S

HasEnds(S) == /\ \E l \in S : \A r \in S : l <= r
              /\ \E l \in S : \A r \in S : r <= l

Sound(d) ==
  /\ d \in Databases
  /\ d.snapshot = None => d = EmptyDB
  /\ d.snapshot # None => d.snapshot \in d.rows /\ HasEnds(d.rows)
  /\ Interval(d.rows)
  /\ AppliedOnceIn(d)
  /\ d.marker = MarkerAfter(d.entries)
  /\ \A cb \in ChunkBatches : cb[1] <= d.entries => d.written[cb] > 0
  /\ d.complete => d.entries = Chunks
  /\ d.complete \/ d.rows \subseteq {d.snapshot}

Creating ==
  /\ validated \in Ledgers
  /\ db = [EmptyDB EXCEPT !.rows = {validated}]

IsCopying ==
  /\ db.snapshot # None /\ ~db.complete
  /\ batch = Batches => db.entries = taken
  /\ batch < Batches =>
       /\ taken # 0 /\ db.entries = taken - 1
       /\ \A b \in 1 .. batch : db.written[<<taken, b>>] > 0

IsSyncing ==
  /\ db.snapshot # None /\ db.complete
  /\ newer - 1 \in db.rows /\ \A r \in db.rows : r < newer
  /\ backfill = "running" => older + 1 \in db.rows /\ \A r \in db.rows : r > older
  /\ backfill = "turned" =>
       {BackfillTo, BackfillTo + 1} \subseteq db.rows /\ older \in {BackfillTo, BackfillTo + 1}
  /\ backfill \in {"running", "turned"} => opened < db.snapshot

Running ==
  /\ phase = "fetching" => db = EmptyDB
  /\ phase = "copying" => IsCopying
  /\ phase = "deriving" => db.snapshot # None /\ ~db.complete /\ db.entries = Chunks
  /\ phase = "syncing" => IsSyncing
  /\ phase # "syncing" => backfill = "none"

IInv ==
  /\ TypeOK
  /\ Sound(stable)
  /\ IF phase = "creating" THEN Creating ELSE Sound(db)
  /\ stable.rows \subseteq db.rows
  /\ Running

---------------------------------------------------------------------------
(* What the ends of a set of ledgers are.                                  *)

LEMMA EndsAreChosen ==
  ASSUME NEW S, HasEnds(S)
  PROVE  /\ First(S) \in S /\ \A r \in S : First(S) <= r
         /\ Last(S) \in S /\ \A r \in S : r <= Last(S)
  BY DEF HasEnds, First, Last

\* An interval stays one when its neighbour is added, and it keeps its ends.
LEMMA IntervalGrows ==
  ASSUME NEW S \in SUBSET Int, NEW l \in Int, Interval(S), HasEnds(S),
         \/ l - 1 \in S /\ \A r \in S : r < l
         \/ l + 1 \in S /\ \A r \in S : r > l
  PROVE  Interval(S \cup {l}) /\ HasEnds(S \cup {l})
<1>1. ASSUME NEW a \in S \cup {l}, NEW b \in S \cup {l}, NEW c \in a .. b
      PROVE  c \in S \cup {l}
  <2>1. \A x, y \in S : \A z \in Int : x <= z /\ z <= y => z \in S
    BY DEF Interval
  <2>2. a \in Int /\ b \in Int /\ c \in Int /\ a <= c /\ c <= b
    OBVIOUS
  <2>3. CASE l - 1 \in S /\ \A r \in S : r < l
    BY <2>1, <2>2, <2>3
  <2>4. CASE l + 1 \in S /\ \A r \in S : r > l
    BY <2>1, <2>2, <2>4
  <2>5. QED
    BY <2>3, <2>4
<1>2. Interval(S \cup {l})
  BY <1>1 DEF Interval
<1>3. \E x \in S \cup {l} : \A r \in S \cup {l} : x <= r
  <2>1. PICK x \in S : \A r \in S : x <= r
    BY DEF HasEnds
  <2>2. CASE \A r \in S : r < l
    BY <2>1, <2>2
  <2>3. CASE \A r \in S : r > l
    BY <2>3
  <2>4. QED
    BY <2>2, <2>3
<1>4. \E x \in S \cup {l} : \A r \in S \cup {l} : r <= x
  <2>1. PICK x \in S : \A r \in S : r <= x
    BY DEF HasEnds
  <2>2. CASE \A r \in S : r > l
    BY <2>1, <2>2
  <2>3. CASE \A r \in S : r < l
    BY <2>3
  <2>4. QED
    BY <2>2, <2>3
<1>5. QED
  BY <1>2, <1>3, <1>4 DEF HasEnds

LEMMA IsDatabase ==
  ASSUME NEW r \in SUBSET Ledgers, NEW s \in Ledgers \cup {None}, NEW e \in 0 .. Chunks,
         NEW m \in 0 .. Chunks - 1, NEW c \in BOOLEAN, NEW a \in [Ledgers -> Nat],
         NEW w \in [ChunkBatches -> Nat]
  PROVE  [rows |-> r, snapshot |-> s, entries |-> e, marker |-> m, complete |-> c,
          applied |-> a, written |-> w] \in Databases
  BY DEF Databases

\* The database of createSnapshotState, before and after its second commit.
LEMMA FreshDatabase ==
  ASSUME NEW l \in Ledgers, NEW s \in {l, None}
  PROVE  [rows |-> {l}, snapshot |-> s, entries |-> 0, marker |-> 0, complete |-> FALSE,
          applied |-> [m \in Ledgers |-> 0],
          written |-> [cb \in ChunkBatches |-> 0]] \in Databases
<1>1. /\ [m \in Ledgers |-> 0] \in [Ledgers -> Nat]
      /\ [cb \in ChunkBatches |-> 0] \in [ChunkBatches -> Nat]
      /\ 0 \in 0 .. Chunks /\ 0 \in 0 .. Chunks - 1
      /\ {l} \in SUBSET Ledgers /\ s \in Ledgers \cup {None} /\ FALSE \in BOOLEAN
  BY IndexerAssumption
<1>2. QED
  BY <1>1, IsDatabase

LEMMA EmptyIsSound == IndexerAssumption => Sound(EmptyDB)
  BY DEF IndexerAssumption, Sound, EmptyDB, Databases, Interval, AppliedOnceIn, MarkerAfter,
     ChunkBatches

---------------------------------------------------------------------------
(* The transactions keep a sound database sound.                           *)

LEMMA ApplyIsDatabase ==
  ASSUME NEW d \in Databases, NEW l \in Ledgers
  PROVE  Apply(d, l) \in Databases
<1> DEFINE a == [d.applied EXCEPT ![l] = @ + 1]
<1>1. Apply(d, l) = [d EXCEPT !.rows = @ \cup {l}, !.applied = a]
  BY DEF Apply
<1>2. /\ d.rows \cup {l} \in SUBSET Ledgers /\ a \in [Ledgers -> Nat]
      /\ d.snapshot \in Ledgers \cup {None} /\ d.entries \in 0 .. Chunks
      /\ d.marker \in 0 .. Chunks - 1 /\ d.complete \in BOOLEAN
      /\ d.written \in [ChunkBatches -> Nat]
  BY DEF Databases
<1> HIDE DEF a
<1>3. Apply(d, l) = [rows |-> d.rows \cup {l}, snapshot |-> d.snapshot,
                     entries |-> d.entries, marker |-> d.marker,
                     complete |-> d.complete, applied |-> a, written |-> d.written]
  BY <1>1 DEF Databases
<1>4. QED
  BY <1>2, <1>3, IsDatabase

\* A ledger next to those held.
LEMMA ApplyKeepsSound ==
  ASSUME NEW d, Sound(d), d.complete, d.snapshot # None, NEW l \in Ledgers,
         \/ l - 1 \in d.rows /\ \A r \in d.rows : r < l
         \/ l + 1 \in d.rows /\ \A r \in d.rows : r > l
  PROVE  Sound(Apply(d, l))
<1> DEFINE e == Apply(d, l)
<1>1. d \in Databases /\ Ledgers \subseteq Int
  BY IndexerAssumption DEF Sound
<1>2. /\ e.rows = d.rows \cup {l}
      /\ e.applied = [d.applied EXCEPT ![l] = @ + 1]
      /\ e.snapshot = d.snapshot /\ e.entries = d.entries /\ e.marker = d.marker
      /\ e.complete = d.complete /\ e.written = d.written
  BY <1>1 DEF Apply, Databases
<1>3. e \in Databases
  BY <1>1, ApplyIsDatabase
<1>4. l \notin d.rows
  BY <1>1 DEF Databases
<1>5. Interval(e.rows) /\ HasEnds(e.rows)
  <2>1. d.rows \in SUBSET Int /\ l \in Int
    BY <1>1 DEF Databases
  <2>2. Interval(d.rows) /\ HasEnds(d.rows)
    BY DEF Sound
  <2>3. QED
    BY <2>1, <2>2, <1>2, IntervalGrows
<1>6. AppliedOnceIn(e)
  <2> SUFFICES ASSUME NEW m \in Ledgers
               PROVE  /\ e.applied[m] > 0 <=> e.snapshot # None /\ m \in e.rows \ {e.snapshot}
                      /\ e.applied[m] > 1 =>
                           BackfillTo \in e.rows /\ m \in {BackfillTo, BackfillTo + 1}
    BY DEF AppliedOnceIn
  <2>1. d.applied \in [Ledgers -> Nat] /\ d.snapshot \in d.rows
    BY <1>1 DEF Databases, Sound
  <2>2. /\ d.applied[m] > 0 <=> m \in d.rows \ {d.snapshot}
        /\ d.applied[m] > 1 => BackfillTo \in d.rows /\ m \in {BackfillTo, BackfillTo + 1}
    BY DEF Sound, AppliedOnceIn
  <2>3. CASE m = l
    BY <2>1, <2>2, <2>3, <1>2, <1>4
  <2>4. CASE m # l
    BY <2>1, <2>2, <2>4, <1>2
  <2>5. QED
    BY <2>3, <2>4
<1>7. QED
  BY <1>2, <1>3, <1>5, <1>6 DEF Sound

\* One of the last two ledgers of the backfill, held already.
LEMMA AgainKeepsSound ==
  ASSUME NEW d, Sound(d), d.complete, d.snapshot # None, NEW l \in Ledgers,
         l \in d.rows, l # d.snapshot, BackfillTo \in d.rows,
         l \in {BackfillTo, BackfillTo + 1}
  PROVE  Sound(Apply(d, l)) /\ Apply(d, l).rows = d.rows
<1> DEFINE e == Apply(d, l)
<1>1. d \in Databases
  BY DEF Sound
<1>2. /\ e.rows = d.rows
      /\ e.applied = [d.applied EXCEPT ![l] = @ + 1]
      /\ e.snapshot = d.snapshot /\ e.entries = d.entries /\ e.marker = d.marker
      /\ e.complete = d.complete /\ e.written = d.written
  BY <1>1 DEF Apply, Databases
<1>3. e \in Databases
  BY <1>1, ApplyIsDatabase
<1>4. AppliedOnceIn(e)
  <2>1. d.applied \in [Ledgers -> Nat]
    BY <1>1 DEF Databases
  <2>2. QED
    BY <2>1, <1>2 DEF Sound, AppliedOnceIn
<1>5. QED
  BY <1>2, <1>3, <1>4 DEF Sound

\* A mini-batch, be it the last of the chunk or not.
LEMMA BatchKeepsSound ==
  ASSUME NEW d, Sound(d), ~d.complete, d.snapshot # None, NEW cb \in ChunkBatches,
         NEW e \in Databases,
         e.rows = d.rows, e.applied = d.applied, e.snapshot = d.snapshot,
         e.complete = d.complete, e.written = [d.written EXCEPT ![cb] = @ + 1],
         \/ e.entries = d.entries /\ e.marker = d.marker
         \/ e.entries = cb[1] /\ e.marker = MarkerAfter(cb[1]),
         e.entries # d.entries =>
           /\ d.entries = cb[1] - 1
           /\ \A b \in 1 .. Batches : b # cb[2] => d.written[<<cb[1], b>>] > 0
  PROVE  Sound(e)
<1>1. d \in Databases /\ Chunks \in Nat \ {0} /\ Batches \in Nat \ {0}
  BY IndexerAssumption DEF Sound
<1>2. cb[1] \in 1 .. Chunks /\ cb[2] \in 1 .. Batches /\ cb = <<cb[1], cb[2]>>
  BY DEF ChunkBatches
<1>3. e.marker = MarkerAfter(e.entries)
  BY DEF Sound
<1>4. ASSUME NEW x \in ChunkBatches, x[1] <= e.entries
      PROVE  e.written[x] > 0
  <2>1. d.written \in [ChunkBatches -> Nat] /\ d.entries \in 0 .. Chunks
    BY <1>1 DEF Databases
  <2>2. x[1] \in 1 .. Chunks /\ x[2] \in 1 .. Batches /\ x = <<x[1], x[2]>>
    BY DEF ChunkBatches
  <2>3. CASE x = cb
    BY <2>1, <2>3
  <2>4. CASE x # cb /\ x[1] <= d.entries
    BY <2>1, <2>4 DEF Sound
  <2>5. CASE x # cb /\ x[1] > d.entries
    <3>1. e.entries # d.entries
      BY <1>4, <2>1, <2>2, <2>5
    <3>2. x[1] = cb[1]
      BY <3>1, <1>2, <1>4, <2>1, <2>2, <2>5
    <3>3. x[2] # cb[2]
      BY <3>2, <2>2, <2>5, <1>2
    <3>4. d.written[<<cb[1], x[2]>>] > 0
      BY <3>1, <3>3, <2>2
    <3>5. QED
      BY <3>2, <3>4, <2>1, <2>2, <2>5
  <2>6. QED
    BY <2>1, <2>2, <2>3, <2>4, <2>5
<1>5. QED
  <2>1. AppliedOnceIn(e)
    BY DEF Sound, AppliedOnceIn
  <2>2. QED
    BY <1>3, <1>4, <2>1 DEF Sound

---------------------------------------------------------------------------
(* Every step preserves the invariant.                                     *)

LEMMA InitInvariant == Init => IInv
<1> SUFFICES ASSUME Init PROVE IInv
  OBVIOUS
<1>1. Sound(EmptyDB)
  BY IndexerAssumption, EmptyIsSound
<1>2. QED
  BY <1>1, IndexerAssumption DEF Init, IInv, TypeOK, Running, Sound

\* A sound database with a snapshot is still to be copied, or all copied.
LEMMA CopiedOrNot ==
  ASSUME NEW d, Sound(d)
  PROVE  /\ d.entries \in 0 .. Chunks
         /\ MustCopy(d) => d.entries < Chunks /\ d.marker = d.entries /\ ~d.complete
         /\ ~MustCopy(d) => d.entries = Chunks
  BY IndexerAssumption DEF Sound, Databases, MustCopy, MarkerAfter

\* The sync starts just above what is held.
LEMMA StartsSynced ==
  ASSUME NEW d, Sound(d), d.snapshot # None
  PROVE  /\ SyncStart(d) \in Int
         /\ SyncStart(d) - 1 \in d.rows /\ \A r \in d.rows : r < SyncStart(d)
<1>1. d.rows \in SUBSET Int /\ HasEnds(d.rows)
  BY IndexerAssumption DEF Sound, Databases
<1>2. Last(d.rows) \in d.rows /\ \A r \in d.rows : r <= Last(d.rows)
  BY <1>1, EndsAreChosen
<1>3. QED
  BY <1>1, <1>2 DEF SyncStart

LEMMA BootKeeps == IInv /\ Boot => IInv'
<1> SUFFICES ASSUME IInv, Boot PROVE IInv'
  OBVIOUS
<1>1. Sound(db) /\ UNCHANGED <<db, stable>> /\ backfill' = "none"
  BY DEF IInv, Boot, Running
<1>2. db.snapshot = None => db = EmptyDB
  BY <1>1 DEF Sound
<1>3. CASE phase' = "fetching"
  BY <1>1, <1>2, <1>3 DEF IInv, Boot, Running, TypeOK, StartSync, feed
<1>4. CASE phase' = "copying"
  BY <1>1, <1>4, CopiedOrNot, IndexerAssumption
     DEF IInv, Boot, Running, TypeOK, StartSync, OpenFeed, IsCopying, Databases
<1>5. CASE phase' = "deriving"
  BY <1>1, <1>5, CopiedOrNot DEF IInv, Boot, Running, TypeOK, StartSync, feed
<1>6. CASE phase' = "syncing"
  <2>1. db.snapshot # None /\ db.complete /\ newer' = SyncStart(db) /\ UNCHANGED feed
    BY <1>6 DEF Boot, StartSync
  <2>2. newer' \in Int /\ newer' - 1 \in db.rows /\ \A r \in db.rows : r < newer'
    BY <1>1, <2>1, StartsSynced
  <2>3. QED
    BY <1>1, <1>6, <2>1, <2>2 DEF IInv, Boot, Running, TypeOK, IsSyncing, feed
<1>7. QED
  BY <1>3, <1>4, <1>5, <1>6 DEF Boot, StartSync

LEMMA CreationKeeps == IInv /\ (WriteLedgerRow \/ CreateSnapshot) => IInv'
<1>1. ASSUME IInv, WriteLedgerRow PROVE IInv'
  <2>1. /\ db = EmptyDB /\ validated' \in Ledgers /\ phase' = "creating"
        /\ db' = [db EXCEPT !.rows = @ \cup {validated'}]
    BY <1>1 DEF IInv, WriteLedgerRow, Running
  <2>2. db' = [EmptyDB EXCEPT !.rows = {validated'}]
    BY <2>1 DEF EmptyDB
  <2>3. db' \in Databases /\ validated' \in Int
    <3>1. db' = [rows |-> {validated'}, snapshot |-> None, entries |-> 0,
                 marker |-> 0, complete |-> FALSE,
                 applied |-> [l \in Ledgers |-> 0],
                 written |-> [cb \in ChunkBatches |-> 0]]
      BY <2>2 DEF EmptyDB
    <3>2. QED
      BY <2>1, <3>1, FreshDatabase, IndexerAssumption
  <2>4. stable'.rows \subseteq db'.rows
    <3>1. stable' = stable /\ db \in Databases
      BY <1>1, <2>1 DEF WriteLedgerRow, IInv, TypeOK
    <3>2. db.rows \subseteq db'.rows
      BY <2>1, <3>1 DEF Databases
    <3>3. QED
      BY <1>1, <3>1, <3>2 DEF IInv
  <2>5. QED
    BY <1>1, <2>1, <2>2, <2>3, <2>4
       DEF IInv, TypeOK, WriteLedgerRow, Running, Creating, feed, streams
<1>2. ASSUME IInv, CreateSnapshot PROVE IInv'
  <2>1. /\ validated \in Ledgers /\ db = [EmptyDB EXCEPT !.rows = {validated}]
        /\ db' = [db EXCEPT !.snapshot = validated] /\ phase' = "copying"
    BY <1>2 DEF IInv, CreateSnapshot, Creating
  <2>2. db' = [rows |-> {validated}, snapshot |-> validated, entries |-> 0,
               marker |-> 0, complete |-> FALSE,
               applied |-> [l \in Ledgers |-> 0],
               written |-> [cb \in ChunkBatches |-> 0]]
    BY <2>1 DEF EmptyDB
  <2>3. validated # None /\ validated \in Int
    BY <2>1, IndexerAssumption
  <2>4. db' \in Databases
    BY <2>1, <2>2, FreshDatabase
  <2>5. Interval({validated}) /\ HasEnds({validated})
    BY <2>3 DEF Interval, HasEnds
  <2>6. Sound(db')
    BY <2>2, <2>3, <2>4, <2>5, IndexerAssumption
       DEF Sound, AppliedOnceIn, MarkerAfter, ChunkBatches
  <2>7. TypeOK'
    BY <1>2, <2>4, IndexerAssumption
       DEF IInv, TypeOK, CreateSnapshot, OpenFeed, streams
  <2>8. batch' = Batches /\ taken' = 0 /\ UNCHANGED <<stable, backfill>>
    BY <1>2 DEF CreateSnapshot, OpenFeed, streams
  <2>9. Running'
    <3>1. db'.snapshot = validated /\ ~db'.complete /\ db'.entries = 0
      BY <2>2
    <3>2. backfill' = "none" /\ ~(batch' < Batches)
      BY <1>2, <2>8, IndexerAssumption DEF IInv, Running, CreateSnapshot
    <3>3. QED
      BY <2>1, <2>3, <2>8, <3>1, <3>2 DEF Running, IsCopying
  <2>10. QED
    BY <1>2, <2>1, <2>6, <2>7, <2>8, <2>9 DEF IInv
<1>3. QED
  BY <1>1, <1>2

LEMMA FeedKeeps == IInv /\ (FetchChunk \/ TakeChunk \/ EndOfFeed) => IInv'
<1>1. ASSUME IInv, FetchChunk PROVE IInv'
  BY <1>1, IndexerAssumption
     DEF IInv, FetchChunk, TypeOK, Running, IsCopying, streams
<1>2. ASSUME IInv, TakeChunk PROVE IInv'
  <2>1. /\ phase = "copying" /\ phase' = phase /\ batch = Batches /\ batch' = 0
        /\ taken' = taken + 1 /\ taken < fetched
        /\ UNCHANGED <<db, stable, head, crashes, validated, fetched, newer, backfill, opened, older>>
    BY <1>2 DEF TakeChunk, streams
  <2>2. TypeOK'
    BY <1>2, <2>1, IndexerAssumption DEF IInv, TypeOK
  <2>3. IsCopying /\ taken \in Nat
    BY <1>2, <2>1 DEF IInv, Running, TypeOK
  <2>4. IsCopying'
    BY <2>1, <2>3, IndexerAssumption DEF IsCopying
  <2>5. QED
    BY <1>2, <2>1, <2>2, <2>4 DEF IInv, Running
<1>3. ASSUME IInv, EndOfFeed PROVE IInv'
  BY <1>3, IndexerAssumption
     DEF IInv, EndOfFeed, TypeOK, Running, IsCopying, feed, streams
<1>4. QED
  BY <1>1, <1>2, <1>3

LEMMA BatchKeeps == IInv /\ CopyBatch => IInv'
<1> SUFFICES ASSUME IInv, CopyBatch PROVE IInv'
  OBVIOUS
<1> DEFINE cb == <<taken, batch + 1>>
<1>1. /\ phase = "copying" /\ phase' = phase /\ batch < Batches /\ batch' = batch + 1
      /\ UNCHANGED <<validated, stable, head, crashes, fetched, taken, newer, backfill, opened, older>>
  BY DEF CopyBatch, streams
<1>2. /\ db.snapshot # None /\ ~db.complete /\ taken # 0 /\ db.entries = taken - 1
      /\ \A b \in 1 .. batch : db.written[<<taken, b>>] > 0
  BY <1>1 DEF IInv, Running, IsCopying
<1>3. Sound(db) /\ Sound(stable) /\ db \in Databases
  BY <1>1 DEF IInv, Sound
<1>4. /\ batch \in 0 .. Batches - 1 /\ taken \in 1 .. Chunks
      /\ Batches \in Nat /\ Chunks \in Nat
  BY <1>1, <1>2, IndexerAssumption DEF IInv, TypeOK
<1>5. cb \in ChunkBatches /\ cb[1] = taken /\ cb[2] = batch + 1
  BY <1>4 DEF ChunkBatches
<1>6. \/ /\ batch + 1 = Batches
         /\ db' = [db EXCEPT !.written[cb] = @ + 1, !.entries = taken,
                             !.marker = MarkerAfter(taken)]
      \/ /\ batch + 1 # Batches
         /\ db' = [db EXCEPT !.written[cb] = @ + 1]
  <2>1. \/ /\ batch + 1 = Batches
           /\ db' = [[db EXCEPT !.written[cb] = @ + 1]
                       EXCEPT !.entries = @ + 1, !.marker = MarkerAfter(taken)]
        \/ /\ batch + 1 # Batches
           /\ db' = [db EXCEPT !.written[cb] = @ + 1]
    BY <1>1 DEF CopyBatch, RecordsChunk
  <2>2. [db EXCEPT !.written[cb] = @ + 1].entries + 1 = taken
    BY <1>2, <1>3, <1>4 DEF Databases
  <2>3. QED
    BY <2>1, <2>2
<1>7. /\ db'.rows = db.rows /\ db'.snapshot = db.snapshot /\ db'.complete = db.complete
      /\ db'.applied = db.applied
      /\ db'.marker = IF batch + 1 = Batches THEN MarkerAfter(taken) ELSE db.marker
      /\ db'.written = [db.written EXCEPT ![cb] = @ + 1]
      /\ db'.entries = IF batch + 1 = Batches THEN taken ELSE taken - 1
  BY <1>2, <1>3, <1>6 DEF Databases
<1>8. Sound(db')
  <2>1. db' \in Databases
    <3> DEFINE w == [db.written EXCEPT ![cb] = @ + 1]
    <3>1. \/ db' = [rows |-> db.rows, snapshot |-> db.snapshot, entries |-> db.entries,
                    marker |-> db.marker, complete |-> db.complete,
                    applied |-> db.applied, written |-> w]
          \/ db' = [rows |-> db.rows, snapshot |-> db.snapshot, entries |-> taken,
                    marker |-> MarkerAfter(taken), complete |-> db.complete,
                    applied |-> db.applied, written |-> w]
      BY <1>3, <1>6 DEF Databases
    <3>2. /\ w \in [ChunkBatches -> Nat]
          /\ db.rows \in SUBSET Ledgers /\ db.applied \in [Ledgers -> Nat]
          /\ db.snapshot \in Ledgers \cup {None} /\ db.entries \in 0 .. Chunks
          /\ db.marker \in 0 .. Chunks - 1 /\ db.complete \in BOOLEAN
      BY <1>3, <1>5 DEF Databases
    <3>3. taken \in 0 .. Chunks /\ MarkerAfter(taken) \in 0 .. Chunks - 1
      BY <1>4 DEF MarkerAfter
    <3> HIDE DEF w
    <3>4. QED
      BY <3>1, <3>2, <3>3, IsDatabase
  <2>2. db'.entries # db.entries =>
          /\ db.entries = cb[1] - 1
          /\ \A b \in 1 .. Batches : b # cb[2] => db.written[<<cb[1], b>>] > 0
    BY <1>2, <1>4, <1>5, <1>7
  <2> HIDE DEF cb
  <2>3. QED
    BY <1>2, <1>3, <1>5, <1>7, <2>1, <2>2, BatchKeepsSound
<1>9. TypeOK'
  BY <1>1, <1>4, <1>8 DEF IInv, TypeOK, Sound
<1>10. IsCopying'
  <2>1. db.written \in [ChunkBatches -> Nat]
    BY <1>3 DEF Databases
  <2>2. ASSUME NEW b \in 1 .. batch + 1 PROVE db'.written[<<taken, b>>] > 0
    <3>1. <<taken, b>> \in ChunkBatches
      BY <1>4 DEF ChunkBatches
    <3>2. CASE b = batch + 1
      BY <2>1, <3>1, <3>2, <1>7
    <3>3. CASE b # batch + 1
      BY <2>1, <3>1, <3>3, <1>2, <1>4, <1>7
    <3>4. QED
      BY <3>2, <3>3
  <2>3. QED
    BY <2>2, <1>1, <1>2, <1>4, <1>7 DEF IsCopying
<1>11. QED
  BY <1>1, <1>3, <1>7, <1>8, <1>9, <1>10 DEF IInv, Running

LEMMA CompleteKeeps == IInv /\ Complete => IInv'
<1> SUFFICES ASSUME IInv, Complete PROVE IInv'
  OBVIOUS
<1>1. /\ phase = "deriving" /\ phase' = "syncing" /\ newer' = SyncStart(db)
      /\ db' = [db EXCEPT !.complete = TRUE, !.marker = 0]
      /\ UNCHANGED <<stable, head, crashes, validated, fetched, taken, batch, backfill, opened, older>>
  BY DEF Complete, StartSync, feed
<1>2. /\ Sound(db) /\ db.snapshot # None /\ db.entries = Chunks
      /\ db \in Databases /\ backfill = "none"
  BY <1>1 DEF IInv, Running, Sound
<1>3. /\ db'.rows = db.rows /\ db'.snapshot = db.snapshot /\ db'.entries = Chunks
      /\ db'.applied = db.applied /\ db'.written = db.written
      /\ db'.complete /\ db'.marker = 0
  BY <1>1, <1>2 DEF Databases
<1>4. db' \in Databases
  <2>1. db' = [rows |-> db.rows, snapshot |-> db.snapshot, entries |-> db.entries,
               marker |-> 0, complete |-> TRUE, applied |-> db.applied,
               written |-> db.written]
    BY <1>1, <1>2 DEF Databases
  <2>2. /\ db.rows \in SUBSET Ledgers /\ db.snapshot \in Ledgers \cup {None}
        /\ db.entries \in 0 .. Chunks /\ db.applied \in [Ledgers -> Nat]
        /\ db.written \in [ChunkBatches -> Nat] /\ 0 \in 0 .. Chunks - 1
    BY <1>2, IndexerAssumption DEF Databases
  <2>3. QED
    BY <2>1, <2>2, IsDatabase
<1>5. Sound(db')
  BY <1>2, <1>3, <1>4 DEF Sound, AppliedOnceIn, MarkerAfter
<1>6. newer' \in Int /\ newer' - 1 \in db.rows /\ \A r \in db.rows : r < newer'
  BY <1>1, <1>2, StartsSynced
<1>7. TypeOK'
  BY <1>1, <1>4, <1>6 DEF IInv, TypeOK
<1>8. QED
  BY <1>1, <1>2, <1>3, <1>5, <1>6, <1>7 DEF IInv, Running, IsSyncing

LEMMA SyncKeeps == IInv /\ SyncLedger => IInv'
<1> SUFFICES ASSUME IInv, SyncLedger PROVE IInv'
  OBVIOUS
<1>1. /\ phase = "syncing" /\ phase' = phase /\ newer \in Ledgers /\ newer' = newer + 1
      /\ db' = Apply(db, newer)
      /\ UNCHANGED <<validated, stable, head, crashes, fetched, taken, batch, opened, older>>
      /\ backfill' \in {"none", "waiting", "triggered", "running", "turned"}
      /\ backfill' \in {"running", "turned"} => backfill' = backfill
  BY DEF SyncLedger, feed, IInv, TypeOK
<1>2. Sound(db) /\ IsSyncing /\ db \in Databases
  BY <1>1 DEF IInv, Running, Sound
<1>3. Sound(db')
  BY <1>1, <1>2, ApplyKeepsSound DEF IsSyncing
<1>4. db'.rows = db.rows \cup {newer} /\ db'.snapshot = db.snapshot /\ db'.complete = db.complete
  BY <1>1, <1>2 DEF Apply, Databases
<1>5. newer \in Int /\ db.rows \in SUBSET Int
  BY <1>1, <1>2, IndexerAssumption DEF Databases
<1>6. IsSyncing'
  BY <1>1, <1>2, <1>4, <1>5 DEF IsSyncing, IInv, TypeOK
<1>7. TypeOK'
  BY <1>1, <1>3, <1>5 DEF IInv, TypeOK, Sound
<1>8. stable'.rows \subseteq db'.rows
  BY <1>1, <1>4 DEF IInv
<1>9. QED
  BY <1>1, <1>3, <1>6, <1>7, <1>8 DEF IInv, Running

LEMMA BackfillKeeps ==
  IInv /\ (OnceInSync \/ StartBackfill \/ BackfillLedger \/ BackfillAgain) => IInv'
<1>1. ASSUME IInv, StartBackfill PROVE IInv'
  <2>1. /\ phase = "syncing" /\ phase' = phase /\ backfill' = "running"
        /\ opened' = First(db.rows) - 1 /\ older' = First(db.rows) - 1
        /\ UNCHANGED <<db, validated, stable, head, crashes, fetched, taken, batch, newer>>
    BY <1>1 DEF StartBackfill, BackfillStart, feed
  <2>2. IsSyncing /\ Sound(db)
    BY <1>1, <2>1 DEF IInv, Running
  <2>3. db.rows \in SUBSET Int /\ HasEnds(db.rows) /\ db.snapshot \in db.rows
    BY <2>2, IndexerAssumption DEF Sound, Databases, IsSyncing
  <2>4. First(db.rows) \in db.rows /\ \A r \in db.rows : First(db.rows) <= r
    BY <2>3, EndsAreChosen
  <2>5. older' \in Int /\ opened' \in Int /\ IsSyncing'
    BY <2>1, <2>2, <2>3, <2>4 DEF IsSyncing
  <2>6. QED
    BY <1>1, <2>1, <2>5 DEF IInv, TypeOK, Running
<1>2. ASSUME IInv, BackfillLedger PROVE IInv'
  <2>1. /\ phase = "syncing" /\ phase' = phase /\ backfill = "running"
        /\ older \in Ledgers /\ BackfillTo <= older /\ older' = Onward(older)
        /\ db' = Apply(db, older)
        /\ backfill' = IF older = BackfillTo THEN "turned" ELSE "running"
        /\ UNCHANGED <<validated, stable, head, crashes, fetched, taken, batch, newer, opened>>
    BY <1>2 DEF BackfillLedger, feed
  <2>2. Sound(db) /\ IsSyncing /\ db \in Databases
    BY <1>2, <2>1 DEF IInv, Running, Sound
  <2>3. Sound(db')
    BY <2>1, <2>2, ApplyKeepsSound DEF IsSyncing
  <2>4. db'.rows = db.rows \cup {older} /\ db'.snapshot = db.snapshot /\ db'.complete = db.complete
    BY <2>1, <2>2 DEF Apply, Databases
  <2>5. /\ older \in Int /\ newer \in Int /\ db.rows \in SUBSET Int /\ BackfillTo \in Int
        /\ older' = IF older = BackfillTo THEN older + 1 ELSE older - 1
    <3>1. older \in Int /\ newer \in Int /\ db.rows \in SUBSET Int /\ BackfillTo \in Int
      BY <1>2, <2>1, <2>2, IndexerAssumption DEF Databases, IInv, TypeOK
    <3>2. QED
      BY <2>1, <3>1 DEF Onward
  <2>6. IsSyncing'
    <3>1. /\ db.snapshot # None /\ db.complete /\ newer - 1 \in db.rows
          /\ \A r \in db.rows : r < newer
          /\ older + 1 \in db.rows /\ \A r \in db.rows : r > older
          /\ opened < db.snapshot
      BY <2>1, <2>2 DEF IsSyncing
    <3>2. /\ newer' - 1 \in db'.rows /\ \A r \in db'.rows : r < newer'
      BY <3>1, <2>1, <2>4, <2>5
    <3>3. CASE older = BackfillTo
      BY <3>1, <3>2, <3>3, <2>1, <2>4, <2>5 DEF IsSyncing
    <3>4. CASE older # BackfillTo
      <4>1. older' + 1 \in db'.rows /\ \A r \in db'.rows : r > older'
        BY <3>1, <3>4, <2>1, <2>4, <2>5
      <4>2. QED
        BY <3>1, <3>2, <3>4, <4>1, <2>1, <2>4 DEF IsSyncing
    <3>5. QED
      BY <3>3, <3>4
  <2>7. TypeOK'
    BY <1>2, <2>1, <2>3, <2>5 DEF IInv, TypeOK, Sound
  <2>8. stable'.rows \subseteq db'.rows
    BY <1>2, <2>1, <2>4 DEF IInv
  <2>9. QED
    BY <1>2, <2>1, <2>3, <2>6, <2>7, <2>8 DEF IInv, Running
<1>3. ASSUME IInv, BackfillAgain PROVE IInv'
  <2>1. /\ phase = "syncing" /\ phase' = phase /\ backfill = "turned" /\ backfill' = backfill
        /\ older \in Ledgers /\ older <= opened /\ older' = Onward(older)
        /\ db' = Apply(db, older)
        /\ UNCHANGED <<validated, stable, head, crashes, fetched, taken, batch, newer, opened>>
    BY <1>3 DEF BackfillAgain, feed
  <2>2. Sound(db) /\ IsSyncing /\ db \in Databases
    BY <1>3, <2>1 DEF IInv, Running, Sound
  <2>3. Sound(db') /\ db'.rows = db.rows
    <3>1. /\ db.snapshot # None /\ db.complete /\ opened < db.snapshot
          /\ {BackfillTo, BackfillTo + 1} \subseteq db.rows
          /\ older \in {BackfillTo, BackfillTo + 1}
      BY <2>1, <2>2 DEF IsSyncing
    <3>2. older \in Int /\ opened \in Int /\ db.snapshot \in Int
      BY <1>3, <2>1, <2>2, <3>1, IndexerAssumption DEF IInv, TypeOK, Databases
    <3>3. older # db.snapshot
      BY <2>1, <3>1, <3>2
    <3>4. QED
      BY <2>1, <2>2, <3>1, <3>3, AgainKeepsSound
  <2>4. db'.snapshot = db.snapshot /\ db'.complete = db.complete
    BY <2>1, <2>2 DEF Apply, Databases
  <2>5. older' \in {BackfillTo, BackfillTo + 1} /\ older' \in Int
    BY <2>1, <2>2, IndexerAssumption DEF IsSyncing, Onward
  <2>6. IsSyncing'
    BY <2>1, <2>2, <2>3, <2>4, <2>5 DEF IsSyncing
  <2>7. TypeOK'
    BY <1>3, <2>1, <2>3, <2>5 DEF IInv, TypeOK, Sound
  <2>8. QED
    BY <1>3, <2>1, <2>3, <2>6, <2>7 DEF IInv, Running
<1>4. ASSUME IInv, OnceInSync PROVE IInv'
  BY <1>4 DEF OnceInSync, IInv, TypeOK, Running, IsSyncing, feed
<1>5. QED
  BY <1>1, <1>2, <1>3, <1>4

LEMMA EnvironmentKeeps == ~TornCreation /\ IInv /\ Environment => IInv'
<1>1. ASSUME IInv, NewLedger PROVE IInv'
  BY <1>1 DEF IInv, TypeOK, NewLedger, Running, Creating, IsCopying, IsSyncing, feed, streams
<1>2. ASSUME ~TornCreation, IInv, Flush PROVE IInv'
  BY <1>2 DEF IInv, TypeOK, Flush, Running, Creating, IsCopying, IsSyncing, feed, streams,
              Sound
<1>3. ASSUME ~TornCreation, IInv, End, db' \in {db, stable} PROVE IInv'
  <2>1. Sound(db') /\ Sound(stable') /\ stable'.rows \subseteq db'.rows
    BY <1>3 DEF IInv, End
  <2>2. TypeOK'
    BY <1>3, <2>1, IndexerAssumption DEF IInv, TypeOK, End, Sound
  <2>3. QED
    BY <1>3, <2>1, <2>2 DEF IInv, End, Running
<1>4. QED
  BY <1>1, <1>2, <1>3 DEF Environment, Crash, PowerLoss

LEMMA StepInvariant == ~TornCreation /\ IInv /\ [Next]_vars => IInv'
<1> SUFFICES ASSUME ~TornCreation, IInv, [Next]_vars PROVE IInv'
  OBVIOUS
<1>1. CASE Bootstrap
  BY <1>1, BootKeeps, CreationKeeps, CompleteKeeps DEF Bootstrap
<1>2. CASE Copying
  BY <1>2, FeedKeeps, BatchKeeps DEF Copying
<1>3. CASE Following
  BY <1>3, SyncKeeps, BackfillKeeps DEF Following
<1>4. CASE Environment
  BY <1>4, EnvironmentKeeps
<1>5. CASE UNCHANGED vars
  BY <1>5 DEF vars, IInv, TypeOK, Running, Creating, IsCopying, IsSyncing
<1>6. QED
  BY <1>1, <1>2, <1>3, <1>4, <1>5 DEF Next

---------------------------------------------------------------------------
(* The theorems.                                                           *)

\* The invariant: what is on disk, what the database holds and what the
\* process remembers fit together at every point of every history of launches.
THEOREM Invariant == ASSUME ~TornCreation PROVE Spec => []IInv
<1>1. Init => IInv
  BY InitInvariant
<1>2. IInv /\ [Next]_vars => IInv'
  BY StepInvariant
<1>3. QED
  BY <1>1, <1>2, PTL DEF Spec

\* Type correctness.
THEOREM TypeCorrect == ASSUME ~TornCreation PROVE Spec => []TypeOK
<1>1. IInv => TypeOK
  BY DEF IInv
<1>2. QED
  BY <1>1, Invariant, PTL

\* startSync and startBackfill extend the history at both ends and take their
\* starting points from it after each launch: they leave no gap.
THEOREM HistoryContiguous == ASSUME ~TornCreation PROVE Spec => []Contiguous
<1>1. IInv => Contiguous
  <2>1. ASSUME Creating PROVE Contiguous
    <3>1. db.rows = {validated} /\ validated \in Int
      BY <2>1, IndexerAssumption DEF Creating, EmptyDB
    <3>2. QED
      BY <3>1 DEF Contiguous
  <2>2. ASSUME Sound(db) PROVE Contiguous
    BY <2>2 DEF Sound, Interval, Contiguous
  <2>3. QED
    BY <2>1, <2>2 DEF IInv
<1>2. QED
  BY <1>1, Invariant, PTL

\* The changes of a ledger are in the database exactly when its row is, however
\* often the transaction of the ledger was lost and repeated, and they are in it
\* once, unless it is one of the last two ledgers of a backfill that has reached
\* its target: startBackfill goes on, and its stream may hand out those again.
THEOREM ChangesAppliedOnce == ASSUME ~TornCreation PROVE Spec => []AppliedOnce
<1>1. IInv => AppliedOnce
  <2>1. ASSUME Creating PROVE AppliedOnce
    <3>1. db.snapshot = None /\ db.applied = [l \in Ledgers |-> 0]
      BY <2>1 DEF Creating, EmptyDB
    <3>2. QED
      BY <3>1 DEF AppliedOnce
  <2>2. ASSUME Sound(db) PROVE AppliedOnce
    BY <2>2 DEF Sound, AppliedOnceIn, AppliedOnce
  <2>3. QED
    BY <2>1, <2>2 DEF IInv
<1>2. QED
  BY <1>1, Invariant, PTL

\* A complete database has all mini-batches: the entries count every chunk.
LEMMA CopiedIsWritten ==
  ASSUME NEW d, Sound(d), d.entries = Chunks, NEW cb \in ChunkBatches
  PROVE  d.written[cb] > 0
<1>1. cb[1] <= Chunks
  BY IndexerAssumption DEF ChunkBatches
<1>2. QED
  BY <1>1 DEF Sound

\* applyLedgerEvents only ever works on a state copied in full, although the
\* copy may have been interrupted and resumed any number of times.
THEOREM OnCompleteState ==
  ASSUME ~TornCreation PROVE Spec => []AppliedOnCompleteState
<1>1. IInv => AppliedOnCompleteState
  <2>1. ASSUME Creating PROVE AppliedOnCompleteState
    <3>1. db.applied = [l \in Ledgers |-> 0]
      BY <2>1 DEF Creating, EmptyDB
    <3>2. QED
      BY <3>1 DEF AppliedOnCompleteState
  <2>2. ASSUME Sound(db), NEW l \in Ledgers, db.applied[l] > 0 PROVE db.complete
    <3>1. db.snapshot # None /\ l \in db.rows \ {db.snapshot}
      BY <2>2 DEF Sound, AppliedOnceIn
    <3>2. QED
      BY <2>2, <3>1 DEF Sound
  <2>3. ASSUME Sound(db), db.complete, NEW cb \in ChunkBatches
        PROVE  db.written[cb] > 0
    BY <2>3, CopiedIsWritten DEF Sound
  <2>4. QED
    BY <2>1, <2>2, <2>3 DEF IInv, AppliedOnCompleteState
<1>2. QED
  BY <1>1, Invariant, PTL

\* A launch that resumes at the marker, or takes the snapshot for copied,
\* misses none of its state entries.
THEOREM MarkerSound == ASSUME ~TornCreation PROVE Spec => []MarkerIsSound
<1>1. IInv => MarkerIsSound
  <2>1. ASSUME Creating, NEW cb \in ChunkBatches
        PROVE  ~(cb[1] <= db.marker) /\ db.snapshot = None
    <3>1. db.marker = 0 /\ db.snapshot = None
      BY <2>1 DEF Creating, EmptyDB
    <3>2. cb[1] \in 1 .. Chunks
      BY DEF ChunkBatches
    <3>3. QED
      BY <3>1, <3>2, IndexerAssumption
  <2>2. ASSUME Sound(db), NEW cb \in ChunkBatches, cb[1] <= db.marker
        PROVE  db.written[cb] > 0
    <3>1. /\ cb[1] \in 1 .. Chunks /\ db.entries \in 0 .. Chunks
          /\ db.marker = MarkerAfter(db.entries)
      BY <2>2 DEF ChunkBatches, Sound, Databases
    <3>2. cb[1] <= db.entries
      BY <2>2, <3>1, IndexerAssumption DEF MarkerAfter
    <3>3. QED
      BY <2>2, <3>2 DEF Sound
  <2>3. ASSUME Sound(db), ~MustCopy(db), NEW cb \in ChunkBatches
        PROVE  db.written[cb] > 0
    <3>1. db.entries = Chunks
      BY <2>3 DEF Sound, MustCopy, MarkerAfter
    <3>2. QED
      BY <2>3, <3>1, CopiedIsWritten
  <2>4. QED
    BY <2>1, <2>2, <2>3 DEF IInv, MarkerIsSound
<1>2. QED
  BY <1>1, Invariant, PTL

---------------------------------------------------------------------------
(* What a step does to the history and to the state copied.                *)

\* Only CopyBatch writes state entries, and only of the chunk after the last
\* one that is recorded.
LEMMA StepWrites ==
  ASSUME ~TornCreation, IInv, [Next]_vars, crashes' = crashes,
         NEW cb \in ChunkBatches, cb[1] <= db.marker \/ db.complete
  PROVE  db'.written[cb] = db.written[cb]
<1>1. CASE CopyBatch
  <2>1. /\ phase = "copying" /\ batch < Batches
        /\ db'.written = [db.written EXCEPT ![<<taken, batch + 1>>] = @ + 1]
    BY <1>1 DEF CopyBatch, IInv, TypeOK, Databases
  <2>2. /\ ~db.complete /\ db.entries = taken - 1 /\ taken # 0
        /\ db.marker = MarkerAfter(db.entries) /\ db \in Databases
    BY <2>1 DEF IInv, Running, IsCopying, Sound
  <2>3. cb[1] <= taken - 1 /\ taken \in 1 .. Chunks /\ cb[1] \in 1 .. Chunks
    BY <2>2, IndexerAssumption DEF MarkerAfter, IInv, TypeOK, ChunkBatches
  <2>4. cb # <<taken, batch + 1>>
    BY <2>3
  <2>5. db.written \in [ChunkBatches -> Nat]
    BY <2>2 DEF Databases
  <2>6. QED
    BY <2>1, <2>4, <2>5
<1>2. CASE WriteLedgerRow \/ CreateSnapshot
  BY <1>2 DEF WriteLedgerRow, CreateSnapshot, IInv, TypeOK, Databases
<1>3. CASE Complete
  BY <1>3 DEF Complete, IInv, TypeOK, Databases
<1>4. CASE SyncLedger \/ BackfillLedger \/ BackfillAgain
  BY <1>4 DEF SyncLedger, BackfillLedger, BackfillAgain, Apply, IInv, TypeOK, Databases
<1>5. CASE db' = db
  BY <1>5
<1>6. CASE Crash \/ PowerLoss
  BY <1>6 DEF Crash, PowerLoss, End, IInv, TypeOK
<1>7. QED
  BY <1>1, <1>2, <1>3, <1>4, <1>5, <1>6
     DEF Next, Bootstrap, Copying, Following, Environment, Boot, FetchChunk, TakeChunk,
         EndOfFeed, OnceInSync, StartBackfill, NewLedger, Flush, vars

\* A launch never copies again what an earlier one has recorded: the comment
\* "re-processing is safe" is needed for the mini-batches of one chunk only.
THEOREM RecordedFinal == ASSUME ~TornCreation PROVE Spec => RecordedIsFinal
<1>1. ASSUME IInv, [Next]_vars
      PROVE  [\A cb \in ChunkBatches :
                (cb[1] <= db.marker \/ db.complete) /\ crashes' = crashes
                  => db'.written[cb] = db.written[cb]]_vars
  BY <1>1, StepWrites
<1>2. QED
  BY <1>1, Invariant, PTL DEF Spec, RecordedIsFinal

\* Every step maps to a step of the abstract history, or leaves it alone.
LEMMA StepOfTheRange == ~TornCreation /\ IInv /\ [Next]_vars => [Range!Next]_(db.rows)
<1> SUFFICES ASSUME ~TornCreation, IInv, [Next]_vars
             PROVE  [Range!Next]_(db.rows)
  OBVIOUS
<1> USE DEF Range!Next
<1>1. CASE WriteLedgerRow
  <2>1. db = EmptyDB
    BY <1>1 DEF WriteLedgerRow, IInv, Running
  <2>2. PICK l : db' = [db EXCEPT !.rows = @ \cup {l}]
    BY <1>1 DEF WriteLedgerRow
  <2>3. db.rows = {} /\ db'.rows = {l}
    BY <2>1, <2>2 DEF EmptyDB
  <2>4. QED
    BY <2>3 DEF Range!Begin
<1>2. CASE CreateSnapshot \/ CopyBatch \/ Complete
  BY <1>2 DEF CreateSnapshot, CopyBatch, Complete, IInv, TypeOK, Databases
<1>3. CASE SyncLedger
  <2>1. IsSyncing /\ db \in Databases /\ newer \in Ledgers /\ db' = Apply(db, newer)
    BY <1>3 DEF SyncLedger, IInv, Running, TypeOK
  <2>2. /\ newer \in Int /\ db.rows \in SUBSET Int /\ newer - 1 \in db.rows
        /\ \A r \in db.rows : r < newer /\ db'.rows = db.rows \cup {newer}
    BY <2>1, IndexerAssumption DEF Databases, IsSyncing, Apply
  <2>3. newer = (newer - 1) + 1 /\ \A r \in db.rows : r <= newer - 1
    BY <2>2
  <2>4. QED
    BY <2>2, <2>3 DEF Range!Newer
<1>4. CASE BackfillLedger
  <2>1. /\ IsSyncing /\ db \in Databases /\ older \in Ledgers /\ db' = Apply(db, older)
        /\ backfill = "running"
    BY <1>4 DEF BackfillLedger, IInv, Running, TypeOK
  <2>2. /\ older \in Int /\ db.rows \in SUBSET Int /\ older + 1 \in db.rows
        /\ \A r \in db.rows : r > older /\ db'.rows = db.rows \cup {older}
    BY <2>1, IndexerAssumption DEF Databases, IsSyncing, Apply
  <2>3. older = (older + 1) - 1 /\ \A r \in db.rows : r >= older + 1
    BY <2>2
  <2>4. QED
    BY <2>2, <2>3 DEF Range!Older
<1>5. CASE PowerLoss
  <2>1. db' = stable /\ stable.rows \subseteq db.rows /\ Interval(stable.rows)
    BY <1>5 DEF PowerLoss, IInv, Sound
  <2>2. QED
    BY <2>1 DEF Range!TakeBack, Range!Interval, Interval
<1>6. CASE BackfillAgain
  <2>1. /\ IsSyncing /\ db \in Databases /\ older \in db.rows /\ db' = Apply(db, older)
    BY <1>6 DEF BackfillAgain, IInv, Running, TypeOK, IsSyncing
  <2>2. db'.rows = db.rows
    BY <2>1 DEF Apply, Databases
  <2>3. QED
    BY <2>2
<1>7. CASE db' = db
  BY <1>7
<1>8. QED
  BY <1>1, <1>2, <1>3, <1>4, <1>5, <1>6, <1>7
     DEF Next, Bootstrap, Copying, Following, Environment, Boot, FetchChunk, TakeChunk,
         EndOfFeed, OnceInSync, StartBackfill, NewLedger, Flush, Crash, vars

\* The indexer implements the interval of ledgers that its readers rely on.
THEOREM RangeImplemented == ASSUME ~TornCreation PROVE Spec => GrowsAtItsEnds
<1>1. Init => Range!Init
  BY DEF Init, EmptyDB, Range!Init
<1>2. IInv /\ [Next]_vars => [Range!Next]_(db.rows)
  BY StepOfTheRange
<1>3. QED
  BY <1>1, <1>2, Invariant, PTL DEF Spec, GrowsAtItsEnds, Range!Spec
===========================================================================
