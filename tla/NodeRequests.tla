---------------------------- MODULE NodeRequests ---------------------------
(***************************************************************************)
(* The life of a request to the XRP Ledger nodes: the queue of             *)
(* xrpl/nodepool.js, the bids and the work of xrpl/node.js, and the        *)
(* correlation of answers and requests in xrpl/socket.js, over connections *)
(* that close and open again, with timeouts at both levels and answers     *)
(* that come late.                                                         *)
(*                                                                         *)
(* What runs in one turn of the event loop is one step: a pass of the work *)
(* queue, or the arrival of an answer with the promises it settles.        *)
(***************************************************************************)
EXTENDS Integers, FiniteSets, Sequences, FiniteSetsExt, SequencesExt, Functions

CONSTANTS
  Requests,     \* bound: the calls of pool.request
  Nodes,        \* the pool's connections, in their order: a sequence
  Hosts,        \* the names of the nodes
  HostOf,       \* the name of a connection: those to one url share it
  Ledgers,      \* bound: sequences of ledgers
  MaxOpens,     \* bound: how often connections open, together
  None          \* no request, no result

\* A ticket is named by the request that reserved it.
Commands == {[kind |-> "validated"]} \cup [kind : {"ledger"}, sequence : Ledgers]
            \cup [kind : {"ticketed"}, ticket : Requests]
Reservations == [kind : {"reserve"}, host : Hosts \cup {None}]
Payloads == Commands \cup Reservations

\* What a connection asks for itself when it opens.
Subscribe == "subscribe"

ASSUME RequestAssumption ==
  /\ IsInjective(Nodes)
  /\ HostOf \in [Range(Nodes) -> Hosts]
  /\ Ledgers \subseteq Nat
  /\ MaxOpens \in Nat
  /\ None \notin Requests \cup Payloads
  /\ Subscribe \notin Requests \cup {None}

VARIABLES
  payload,      \* what a request asks for, once it is made
  result,       \* how its promise is settled
  timed,        \* the requests whose 30 s timer is running
  queue,        \* the pool's queue
  link,         \* a connection: down, open or closing
  opens,        \* bound: how often connections have opened
  has,          \* availableLedgers, empty for unknown
  tickets,      \* tasks: the tickets reserved on a node
  busy,         \* the request a node is busy with
  inflight,     \* the requests a socket waits for, by message id
  nextId,       \* nextRequestId
  wire          \* the node's side: the messages it has yet to answer

vars == <<payload, result, timed, queue, link, opens, has, tickets, busy, inflight, nextId, wire>>

asking == <<payload, timed>>
links == <<link, opens>>

NodeSet == Range(Nodes)

Made(r) == payload[r] # None
Connected(n) == link[n] \in {"open", "closing"}

---------------------------------------------------------------------------
(* Making a request, and its timer.                                        *)

\* request.  A ticketed command needs a ticket.
Request(r) ==
  /\ ~Made(r)
  /\ \E p \in Payloads :
       /\ p.kind = "ticketed" => result[p.ticket] = "ticket"
       /\ payload' = [payload EXCEPT ![r] = p]
  /\ timed' = timed \cup {r}
  /\ queue' = Append(queue, r)
  /\ UNCHANGED <<result, links, has, tickets, busy, inflight, nextId, wire>>

\* A promise is settled once.
Settle(r, value) ==
  result' = IF r \in Requests /\ result[r] = None THEN [result EXCEPT ![r] = value] ELSE result

\* The timer: noNodeAcceptedRequest.  The request stays in the queue.
Expire(r) ==
  /\ r \in timed
  /\ timed' = timed \ {r}
  /\ Settle(r, "error")
  /\ UNCHANGED <<payload, queue, links, has, tickets, busy, inflight, nextId, wire>>

---------------------------------------------------------------------------
(* The work queue.                                                         *)

Free(n, given) == Connected(n) /\ n \notin DOMAIN given

\* A node's bid for a payload, when some nodes have been given requests.
Bid(n, given, p) ==
  IF ~Free(n, given) THEN 0
  ELSE CASE p.kind = "ticketed"  -> IF p.ticket \in tickets[n] THEN 3 ELSE 0
         [] p.kind = "ledger"    -> IF has[n] = {} THEN 1
                                    ELSE IF p.sequence \in has[n] THEN 2 ELSE 0
         [] p.kind = "reserve"   -> IF p.host \in {None, HostOf[n]} THEN 1 ELSE 0
         [] p.kind = "validated" -> 2

\* The sort is stable: of equal bids the first node's is taken.
Best(bids) ==
  CHOOSE i \in DOMAIN bids : /\ \A j \in DOMAIN bids : bids[j] <= bids[i]
                             /\ \A j \in 1 .. i - 1 : bids[j] < bids[i]

\* What a pass does with the next request of the queue: a command keeps its
\* node busy for the rest of the pass, a reservation is done at once.
Consider(pass, r) ==
  LET bids == [i \in DOMAIN Nodes |-> Bid(Nodes[i], pass.given, payload[r])]
      node == Nodes[Best(bids)]
  IN  IF \A i \in DOMAIN bids : bids[i] = 0
      THEN [pass EXCEPT !.queue = Append(@, r)]
      ELSE IF payload[r].kind = "reserve"
      THEN [pass EXCEPT !.reserved = @ \cup {<<node, r>>}]
      ELSE [pass EXCEPT !.given = [n \in DOMAIN @ \cup {node} |-> IF n = node THEN r ELSE @[n]]]

\* A pass over the queue: the requests left, the tickets reserved, and what
\* each node works on.
Pass ==
  LET upTo[i \in 0 .. Len(queue)] ==
        IF i = 0
        THEN [queue |-> <<>>, reserved |-> {},
              given |-> Restrict(busy, {n \in NodeSet : busy[n] # None})]
        ELSE Consider(upTo[i - 1], queue[i])
  IN  upTo[Len(queue)]

\* Mutant of NewId: ids are used again.
NewId_Reused(n) == Cardinality(DOMAIN inflight[n]) + 1

NewId(n) == nextId[n]

\* A message goes out on an open connection.
Send(given) ==
  /\ inflight' = [n \in NodeSet |->
                    IF n \in DOMAIN given
                    THEN [i \in DOMAIN inflight[n] \cup {NewId(n)} |->
                            IF i = NewId(n) THEN given[n] ELSE inflight[n][i]]
                    ELSE inflight[n]]
  /\ wire' = [n \in NodeSet |->
                IF n \in DOMAIN given
                THEN wire[n] \cup {[id |-> NewId(n), what |-> given[n]]} ELSE wire[n]]
  /\ nextId' = [n \in NodeSet |-> nextId[n] + IF n \in DOMAIN given THEN 1 ELSE 0]

\* do: a reservation is answered at once, a command is sent, or rejected if
\* the connection is closing.
WorkQueue ==
  LET pass == Pass
      new == Restrict(pass.given, {n \in DOMAIN pass.given : busy[n] = None})
      sending == {n \in DOMAIN new : link[n] = "open"}
      failed == {new[n] : n \in DOMAIN new \ sending}
      reserved == {rv[2] : rv \in pass.reserved}
  IN  /\ pass.queue # queue
      /\ queue' = pass.queue
      /\ timed' = timed \ (Range(new) \cup reserved)
      /\ tickets' = [n \in NodeSet |-> tickets[n] \cup {r \in reserved : <<n, r>> \in pass.reserved}]
      /\ busy' = [n \in NodeSet |-> IF n \in sending THEN new[n] ELSE busy[n]]
      /\ Send(Restrict(new, sending))
      /\ result' = [r \in Requests |->
                      IF result[r] # None THEN result[r]
                      ELSE IF r \in reserved THEN "ticket"
                      ELSE IF r \in failed THEN "error" ELSE None]
      /\ UNCHANGED <<payload, links, has>>

---------------------------------------------------------------------------
(* The connections.                                                        *)

\* Mutant of Given: the answer to a request that the pool made goes nowhere.
Given_None(r) == None

\* The promise of a message in flight: a request of the pool, or none for the
\* subscription, which the connection makes itself.
Given(r) == IF r = Subscribe THEN None ELSE r

\* Mutant of Forget: the node is not freed.
Forget_StaysBusy(n, ids) ==
  /\ inflight' = [inflight EXCEPT ![n] = Restrict(@, DOMAIN @ \ ids)]
  /\ UNCHANGED busy

\* The messages with these ids are no longer waited for.
Forget(n, ids) ==
  /\ inflight' = [inflight EXCEPT ![n] = Restrict(@, DOMAIN @ \ ids)]
  /\ busy' = [busy EXCEPT ![n] = IF @ \in {inflight[n][i] : i \in ids} THEN None ELSE @]

\* updateAvailableLedgers.
Learn(n) == \E known \in SUBSET Ledgers : has' = [has EXCEPT ![n] = known]

\* A response, with success or an error; it is ignored if it comes too late.
Response(n) ==
  /\ Connected(n)
  /\ \E m \in wire[n] :
       /\ wire' = [wire EXCEPT ![n] = @ \ {m}]
       /\ IF m.id \in DOMAIN inflight[n]
          THEN LET r == inflight[n][m.id]
               IN  /\ Forget(n, {m.id})
                   /\ \E value \in {m.what, "error"} : Settle(Given(r), value)
                   /\ IF r = Subscribe THEN Learn(n) ELSE UNCHANGED has
          ELSE UNCHANGED <<inflight, busy, result, has>>
  /\ UNCHANGED <<asking, queue, links, tickets, nextId>>

\* The socket's own timer of 30 s.
RequestTimeout(n) ==
  /\ \E i \in DOMAIN inflight[n] :
       /\ Forget(n, {i})
       /\ Settle(Given(inflight[n][i]), "error")
  /\ UNCHANGED <<asking, queue, links, has, tickets, nextId, wire>>

\* "ledgerClosed" tells the ledgers that the node has.
LedgerClosed(n) ==
  /\ Connected(n)
  /\ Learn(n)
  /\ UNCHANGED <<asking, result, queue, links, tickets, busy, inflight, nextId, wire>>

\* The connection opens, and subscribes.
Open(n) ==
  /\ link[n] = "down" /\ opens < MaxOpens
  /\ link' = [link EXCEPT ![n] = "open"]
  /\ opens' = opens + 1
  /\ has' = [has EXCEPT ![n] = {}]
  /\ Send([m \in {n} |-> Subscribe])
  /\ UNCHANGED <<asking, result, queue, tickets, busy>>

\* Either side has begun to close.
StartClose(n) ==
  /\ link[n] = "open"
  /\ link' = [link EXCEPT ![n] = "closing"]
  /\ UNCHANGED <<asking, result, queue, opens, has, tickets, busy, inflight, nextId, wire>>

\* failAllInflight.
FailAll(n) == DOMAIN inflight[n]

Close(n) ==
  /\ Connected(n)
  /\ link' = [link EXCEPT ![n] = "down"]
  /\ Forget(n, FailAll(n))
  /\ result' = [r \in Requests |->
                  IF result[r] = None /\ r \in {inflight[n][i] : i \in FailAll(n)}
                  THEN "error" ELSE result[r]]
  /\ wire' = [wire EXCEPT ![n] = {}]
  /\ UNCHANGED <<asking, queue, opens, has, tickets, nextId>>

---------------------------------------------------------------------------

Init ==
  /\ payload = [r \in Requests |-> None]
  /\ result = [r \in Requests |-> None]
  /\ timed = {}
  /\ queue = <<>>
  /\ link = [n \in NodeSet |-> "down"]
  /\ opens = 0
  /\ has = [n \in NodeSet |-> {}]
  /\ tickets = [n \in NodeSet |-> {}]
  /\ busy = [n \in NodeSet |-> None]
  /\ inflight = [n \in NodeSet |-> <<>>]
  /\ nextId = [n \in NodeSet |-> 1]
  /\ wire = [n \in NodeSet |-> {}]

Next ==
  \/ \E r \in Requests : Request(r) \/ Expire(r)
  \/ WorkQueue
  \/ \E n \in NodeSet : \/ Response(n) \/ RequestTimeout(n) \/ LedgerClosed(n)
                        \/ Open(n) \/ StartClose(n) \/ Close(n)

\* Timers fire; nothing is assumed of nodes, connections and the work queue.
Fairness ==
  /\ \A r \in Requests : WF_vars(Expire(r))
  /\ \A n \in NodeSet : WF_vars(RequestTimeout(n))

Spec == Init /\ [][Next]_vars /\ Fairness

---------------------------------------------------------------------------
(* Properties.                                                             *)

Messages == [id : Nat, what : Requests \cup {Subscribe}]

\* Types; nothing is in flight on a connection that is down.
TypeOK ==
  /\ payload \in [Requests -> Payloads \cup {None}]
  /\ result \in [Requests -> Requests \cup {None, "ticket", "error"}]
  /\ timed \subseteq Requests
  /\ queue \in Seq(Requests) /\ IsInjective(queue)
  /\ link \in [NodeSet -> {"down", "open", "closing"}]
  /\ opens \in 0 .. MaxOpens
  /\ has \in [NodeSet -> SUBSET Ledgers]
  /\ tickets \in [NodeSet -> SUBSET Requests]
  /\ busy \in [NodeSet -> Requests \cup {None}]
  /\ nextId \in [NodeSet -> Nat]
  /\ \A n \in NodeSet :
       /\ Range(inflight[n]) \subseteq Requests \cup {Subscribe}
       /\ wire[n] \subseteq Messages
       /\ link[n] = "down" => DOMAIN inflight[n] = {} /\ wire[n] = {}

\* An answer, however late or after whatever reconnects it comes, is given to
\* the request it answers.
OwnAnswer == \A r \in Requests : result[r] \in {None, "ticket", "error", r}

\* A node works on one request of the pool at a time, and is busy only while
\* its socket waits for the answer: no node is lost to the pool.
BusyIsWaiting ==
  \A n \in NodeSet : Range(inflight[n]) \ {Subscribe} = {busy[n]} \ {None}

\* Every request is answered or rejected in the end, whatever the nodes do.
EverySettled == \A r \in Requests : Made(r) ~> result[r] # None
===========================================================================
