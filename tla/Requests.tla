------------------------------ MODULE Requests ------------------------------
(***************************************************************************)
(* What is common to all requests of clients: how each comes to an end, and *)
(* the count of HTTP requests in progress that other work gives way to     *)
(* (cache/worker.js).                                                      *)
(***************************************************************************)
EXTENDS Integers, Sequences, FiniteSets, TLC

CONSTANT MaxRequests   \* bound: requests that come

ASSUME RequestsAssumption == MaxRequests \in Nat

VARIABLES
  requests,   \* "new", the kind of one that waits, "done", or "mixed up"
  load        \* httpLoad.pending

Requests == 1 .. MaxRequests
Kinds == {"http", "ws", "image"}

\* It does not matter which request is which: they come in their order.
Comes(request) ==
  /\ requests[request] = "new"
  /\ \A earlier \in 1 .. request - 1 : requests[earlier] # "new"

Waiting(request) == requests[request] \in Kinds

\* noteHttpRequestStart: a request of this kind waits.
Await(request, kind) ==
  /\ requests' = [requests EXCEPT ![request] = kind]
  /\ load' = IF kind = "http" THEN load + 1 ELSE load

\* It is answered at once, be it with an error.
Answer(request) ==
  /\ requests' = [requests EXCEPT ![request] = "done"]
  /\ UNCHANGED load

\* noteHttpRequestEnd, however the request has ended.
Ended_Well(outcomes) ==
  {request \in DOMAIN outcomes : requests[request] = "http" /\ outcomes[request] # "failed"}
Ended(outcomes) == {request \in DOMAIN outcomes : requests[request] = "http"}

\* Some of those that wait are answered: request -> "answered", "failed" or, if
\* with the answer of another request, "mixed up".
Settle(outcomes) ==
  /\ requests' = [request \in Requests |->
       IF request \notin DOMAIN outcomes THEN requests[request]
       ELSE IF outcomes[request] = "mixed up" THEN "mixed up" ELSE "done"]
  /\ load' = load - Cardinality(Ended(outcomes))
=============================================================================
