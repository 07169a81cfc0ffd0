----------------------------- MODULE WorkerPool -----------------------------
(***************************************************************************)
(* The threads that run the procedures of the API (srv/worker.js,          *)
(* srv/thread-worker.js): to which of them a request goes, the messages    *)
(* between, and threads that crash and are replaced.                       *)
(*                                                                         *)
(* A thread has stopped for a while before the main thread learns of it.   *)
(***************************************************************************)
EXTENDS Requests

CONSTANTS
  Workers,      \* config.server.workers
  MaxCrashes    \* bound: threads that crash

ASSUME WorkersAssumption == Workers \in Nat \ {0}

VARIABLES
  pool,      \* by slot: [state, busy, last, next, pending], pending: id -> request
  inbox,     \* by slot: messages to the thread, [id, request]
  outbox,    \* by slot: its answers, [id, request]
  running,   \* slots whose thread runs
  clock,     \* the time that dispatch reads
  crashes    \* bound

poolVars == <<pool, inbox, outbox, running, clock, crashes>>

Slots == 1 .. Workers
Fresh == [state |-> "live", busy |-> FALSE, last |-> 0, next |-> 1, pending |-> <<>>]

Live == {slot \in Slots : pool[slot].state = "live"}

---------------------------------------------------------------------------
(* executeProcedure.                                                       *)

\* The ranking: who is not busy before who is, then who was used least
\* recently, then the order of the slots.
Before(i, j) ==
  IF pool[i].busy # pool[j].busy THEN pool[j].busy
  ELSE pool[i].last < pool[j].last \/ (pool[i].last = pool[j].last /\ i < j)

First(slot) == slot \in Live /\ \A other \in Live \ {slot} : Before(slot, other)

NextId_Count(manager) == Cardinality(DOMAIN manager.pending) + 1
NextId(manager) == manager.next

\* manager.execute: the worker is marked with the time, later than before.
Dispatch(request) ==
  \E slot \in Slots :
    /\ First(slot)
    /\ LET id == NextId(pool[slot])
           pending == pool[slot].pending
       IN  /\ pool' = [pool EXCEPT ![slot] =
                 [pool[slot] EXCEPT !.busy = TRUE, !.last = clock, !.next = @ + 1,
                   !.pending = [i \in DOMAIN pending \cup {id} |->
                                  IF i = id THEN request ELSE pending[i]]]]
           /\ inbox' = [inbox EXCEPT ![slot] = Append(@, [id |-> id, request |-> request])]
    /\ clock' = clock + 1
    /\ UNCHANGED <<outbox, running, crashes>>

---------------------------------------------------------------------------
(* A thread.                                                               *)

\* One message after the other; the procedure returns or throws.
Work(slot) ==
  /\ slot \in running /\ inbox[slot] # <<>>
  /\ inbox' = [inbox EXCEPT ![slot] = Tail(@)]
  /\ outbox' = [outbox EXCEPT ![slot] = Append(@, Head(inbox[slot]))]
  /\ UNCHANGED <<pool, running, clock, crashes, requests, load>>

\* What it had not begun is lost, what it had sent may arrive.
Stop(slot) ==
  /\ crashes < MaxCrashes
  /\ crashes' = crashes + 1
  /\ slot \in running
  /\ running' = running \ {slot}
  /\ UNCHANGED <<pool, inbox, outbox, clock, requests, load>>

---------------------------------------------------------------------------
(* The manager of a thread.                                                *)

\* The answer that this request is given.
Reply(message, request) ==
  IF message.request = request THEN {"answered", "failed"} ELSE {"mixed up"}

\* The message event; executeProcedure ends in the same turn.  A message for
\* which nobody waits is dropped.
Receive(slot) ==
  /\ outbox[slot] # <<>>
  /\ outbox' = [outbox EXCEPT ![slot] = Tail(@)]
  /\ LET message == Head(outbox[slot])
         pending == pool[slot].pending
     IN  IF message.id \in DOMAIN pending
           THEN /\ \E outcome \in Reply(message, pending[message.id]) :
                     Settle([request \in {pending[message.id]} |-> outcome])
                /\ pool' = [pool EXCEPT ![slot].pending =
                              [id \in DOMAIN pending \ {message.id} |-> pending[id]],
                            ![slot].busy = FALSE]
           ELSE UNCHANGED <<pool, requests, load>>
  /\ UNCHANGED <<inbox, running, clock, crashes>>

Rejected_None(slot) == {}
Rejected(slot) == {pool[slot].pending[id] : id \in DOMAIN pool[slot].pending}

\* The error or exit event: all that wait for this thread are rejected, and a
\* replacement is started.
Die(slot) ==
  /\ slot \notin running /\ pool[slot].state = "live"
  /\ Settle([request \in Rejected(slot) |-> "failed"])
  /\ pool' = [pool EXCEPT ![slot] = [Fresh EXCEPT !.state = "dead"]]
  /\ inbox' = [inbox EXCEPT ![slot] = <<>>]
  /\ outbox' = [outbox EXCEPT ![slot] = <<>>]
  /\ UNCHANGED <<running, clock, crashes>>

\* The replacement is ready, or has failed to start: then its slot is never
\* tried again.
Replace(slot) ==
  /\ pool[slot].state = "dead"
  /\ \/ /\ pool' = [pool EXCEPT ![slot] = Fresh]
        /\ running' = running \cup {slot}
     \/ /\ pool' = [pool EXCEPT ![slot].state = "gone"]
        /\ UNCHANGED running
  /\ UNCHANGED <<inbox, outbox, clock, crashes, requests, load>>

---------------------------------------------------------------------------
PoolInit ==
  /\ pool = [slot \in Slots |-> Fresh]
  /\ inbox = [slot \in Slots |-> <<>>]
  /\ outbox = [slot \in Slots |-> <<>>]
  /\ running = Slots
  /\ clock = 1 /\ crashes = 0

PoolNext == \E slot \in Slots : Work(slot) \/ Stop(slot) \/ Receive(slot) \/ Die(slot) \/ Replace(slot)

=============================================================================
