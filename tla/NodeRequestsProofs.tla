------------------------- MODULE NodeRequestsProofs ------------------------
(***************************************************************************)
(* Proofs about NodeRequests, for every number of requests, nodes,         *)
(* connections that open and close, and answers that come late.            *)
(*                                                                         *)
(* An answer names its request by the id of a message alone.  That it      *)
(* reaches the right one rests on ids never being used again on a          *)
(* connection object: all ids in flight, and all that a node has yet to    *)
(* answer, are below the next one.                                         *)
(***************************************************************************)
EXTENDS NodeRequests, NaturalsInduction, WellFoundedInduction, TLAPS

USE RequestAssumption

---------------------------------------------------------------------------
(* The invariant.                                                          *)

\* What is in flight on a connection: messages with ids that were given out,
\* each for a request or for the subscription.
FlightType ==
  /\ inflight = [n \in NodeSet |-> inflight[n]]
  /\ \A n \in NodeSet :
       /\ inflight[n] \in [DOMAIN inflight[n] -> Requests \cup {Subscribe}]
       /\ \A i \in DOMAIN inflight[n] : i \in Nat /\ i < nextId[n]

WireType ==
  /\ wire \in [NodeSet -> SUBSET Messages]
  /\ \A n \in NodeSet : \A m \in wire[n] : m.id < nextId[n]

\* A message that is still waited for is waited for by its own request.
OwnMessages ==
  \A n \in NodeSet : \A m \in wire[n] :
    m.id \in DOMAIN inflight[n] => inflight[n][m.id] = m.what

\* At most one message of a connection is for a request of the pool.
OneRequestEach ==
  \A n \in NodeSet : \A i, j \in DOMAIN inflight[n] :
    inflight[n][i] # Subscribe /\ inflight[n][j] # Subscribe => i = j

\* The queue holds requests that were made.
QueuedAreMade == \A i \in 1 .. Len(queue) : Made(queue[i])

IInv ==
  /\ TypeOK
  /\ FlightType
  /\ WireType
  /\ OwnMessages
  /\ OneRequestEach
  /\ QueuedAreMade
  /\ OwnAnswer
  /\ BusyIsWaiting

---------------------------------------------------------------------------
(* Induction over the numbers below a bound, as a fact about sets: the     *)
(* numbers that have a property and that grow from 0 by steps of 1 are all *)
(* of them.                                                                *)

LEMMA LessIsWellFounded ==
  IsWellFoundedOn({p \in Nat \X Nat : p[1] < p[2]}, Nat)
<1>1. OpToRel(<, Nat) = {p \in Nat \X Nat : p[1] < p[2]}
  BY DEF OpToRel
<1> QED
  BY <1>1, NatLessThanWellFounded

LEMMA SetInduction ==
  ASSUME NEW S, 0 \in S, \A n \in Nat : n \in S => n + 1 \in S
  PROVE  Nat \subseteq S
<1> DEFINE T == Nat \ S
           R == {p \in Nat \X Nat : p[1] < p[2]}
<1> SUFFICES ASSUME T # {} PROVE FALSE
  OBVIOUS
<1>1. IsWellFoundedOn(R, Nat)
  BY LessIsWellFounded
<1>2. T \subseteq Nat
  OBVIOUS
<1> HIDE DEF T, R
<1>3. PICK x \in T : \A y \in T : ~(<<y, x>> \in R)
  BY <1>1, <1>2, WFMin
<1> USE DEF T, R
<1>4. x # 0
  OBVIOUS
<1>5. x - 1 \in Nat /\ <<x - 1, x>> \in R
  BY <1>4
<1>6. x - 1 \in S
  BY <1>3, <1>5
<1> QED
  BY <1>5, <1>6

---------------------------------------------------------------------------
(* A pass over the queue.                                                  *)

\* The state of a pass before the first request, and up to each of them.
Base == [queue |-> <<>>, reserved |-> {},
         given |-> Restrict(busy, {n \in NodeSet : busy[n] # None})]

UpTo == CHOOSE g : g = [i \in 0 .. Len(queue) |->
                          IF i = 0 THEN Base ELSE Consider(g[i - 1], queue[i])]

LEMMA PassIsUpTo == Pass = UpTo[Len(queue)]
  BY DEF Pass, UpTo, Base

\* Such a function exists, as every value is made from the one before.
LEMMA UpToSteps ==
  ASSUME queue \in Seq(Requests)
  PROVE  /\ UpTo[0] = Base
         /\ \A i \in 1 .. Len(queue) : UpTo[i] = Consider(UpTo[i - 1], queue[i])
<1> DEFINE Step(g, i) == IF i = 0 THEN Base ELSE Consider(g[i - 1], queue[i])
           S == {n \in Nat : \E g : g = [i \in 0 .. n |-> Step(g, i)]}
<1>1. 0 \in S
  <2> DEFINE g == [i \in 0 .. 0 |-> Base]
  <2>1. g = [i \in 0 .. 0 |-> Step(g, i)]
    OBVIOUS
  <2> QED
    BY <2>1
<1>2. ASSUME NEW n \in Nat, n \in S
      PROVE  n + 1 \in S
  <2>1. PICK g : g = [i \in 0 .. n |-> Step(g, i)]
    BY <1>2
  <2> DEFINE h == [i \in 0 .. n + 1 |->
                     IF i = n + 1 THEN Consider(g[n], queue[n + 1]) ELSE g[i]]
  <2>2. ASSUME NEW i \in 0 .. n + 1
        PROVE  h[i] = Step(h, i)
    <3>1. CASE i = n + 1
      BY <3>1
    <3>2. CASE i \in 0 .. n
      <4>1. g[i] = Step(g, i)
        BY <2>1, <3>2
      <4>2. i # 0 => h[i - 1] = g[i - 1]
        BY <3>2
      <4> QED
        BY <3>2, <4>1, <4>2
    <3> QED
      BY <3>1, <3>2
  <2>3. h = [i \in 0 .. n + 1 |-> Step(h, i)]
    <3> HIDE DEF Step
    <3> QED
      BY <2>2
  <2>4. \E f : f = [i \in 0 .. n + 1 |-> Step(f, i)]
    <3> HIDE DEF h
    <3> QED
      BY <2>3, Zenon
  <2> QED
    BY <2>4
<1>3. Len(queue) \in S
  <2> HIDE DEF S
  <2>1. Nat \subseteq S
    BY <1>1, <1>2, SetInduction
  <2> QED
    BY <2>1
<1>4. UpTo = [i \in 0 .. Len(queue) |-> Step(UpTo, i)]
  BY <1>3 DEF UpTo
<1> QED
  BY <1>4

\* What a pass makes of the first n requests of the queue.
PassInv(p, n) ==
  /\ p = [queue |-> p.queue, reserved |-> p.reserved, given |-> p.given]
  /\ p.queue \in Seq(Requests)
  /\ IsInjective(p.queue)
  /\ \A i \in 1 .. Len(p.queue) : \E j \in 1 .. n : p.queue[i] = queue[j]
  /\ \A rv \in p.reserved : rv[2] \in Requests
  /\ p.given \in [DOMAIN p.given -> Requests]

\* One request more is left in the queue, gets a ticket, or a node.
LEMMA ConsiderFacts ==
  ASSUME queue \in Seq(Requests), IsInjective(queue),
         NEW n \in Nat, n + 1 \in 1 .. Len(queue), NEW p, PassInv(p, n)
  PROVE  PassInv(Consider(p, queue[n + 1]), n + 1)
<1> DEFINE r == queue[n + 1]
           c == Consider(p, r)
<1>1. r \in Requests
  OBVIOUS
<1>2. c = [p EXCEPT !.queue = Append(@, r)]
      \/ (\E node : c = [p EXCEPT !.reserved = @ \cup {<<node, r>>}])
      \/ (\E node : c = [p EXCEPT !.given =
                           [m \in DOMAIN @ \cup {node} |-> IF m = node THEN r ELSE @[m]]])
  BY DEF Consider
<1> SUFFICES PassInv(c, n + 1)
  OBVIOUS
<1> HIDE DEF c
<1>3. CASE c = [p EXCEPT !.queue = Append(@, r)]
  <2>1. c = [queue |-> Append(p.queue, r), reserved |-> p.reserved, given |-> p.given]
    BY <1>3 DEF PassInv
  <2>2. Append(p.queue, r) \in Seq(Requests)
        /\ Len(Append(p.queue, r)) = Len(p.queue) + 1
        /\ \A i \in 1 .. Len(p.queue) : Append(p.queue, r)[i] = p.queue[i]
        /\ Append(p.queue, r)[Len(p.queue) + 1] = r
    BY <1>1 DEF PassInv
  <2>3. \A i \in 1 .. Len(p.queue) : p.queue[i] # r
    BY DEF PassInv, IsInjective
  <2> DEFINE q == Append(p.queue, r)
  <2>4. DOMAIN q = 1 .. Len(p.queue) + 1 /\ DOMAIN p.queue = 1 .. Len(p.queue)
    BY <2>2 DEF PassInv
  <2> HIDE DEF q
  <2>5. IsInjective(q)
    BY <2>2, <2>3, <2>4 DEF PassInv, IsInjective, q
  <2>6. \A i \in 1 .. Len(q) : \E j \in 1 .. n + 1 : q[i] = queue[j]
    BY <2>2 DEF PassInv, q
  <2> QED
    BY <2>1, <2>2, <2>5, <2>6 DEF PassInv, q
<1>4. CASE \E node : c = [p EXCEPT !.reserved = @ \cup {<<node, r>>}]
  <2>1. PICK node : c = [p EXCEPT !.reserved = @ \cup {<<node, r>>}]
    BY <1>4
  <2>2. c = [queue |-> p.queue, reserved |-> p.reserved \cup {<<node, r>>}, given |-> p.given]
    BY <2>1 DEF PassInv
  <2> QED
    BY <1>1, <2>2 DEF PassInv
<1>5. CASE \E node : c = [p EXCEPT !.given =
                            [m \in DOMAIN @ \cup {node} |-> IF m = node THEN r ELSE @[m]]]
  <2>1. PICK node : c = [p EXCEPT !.given =
                           [m \in DOMAIN @ \cup {node} |-> IF m = node THEN r ELSE @[m]]]
    BY <1>5
  <2> DEFINE g == [m \in DOMAIN p.given \cup {node} |-> IF m = node THEN r ELSE p.given[m]]
  <2>2. c = [queue |-> p.queue, reserved |-> p.reserved, given |-> g]
    BY <2>1 DEF PassInv
  <2>3. g \in [DOMAIN g -> Requests]
    BY <1>1 DEF PassInv
  <2> HIDE DEF g
  <2> QED
    BY <2>2, <2>3 DEF PassInv
<1> QED
  BY <1>2, <1>3, <1>4, <1>5

\* What a pass leaves in the queue, reserves and gives to the nodes.
LEMMA PassFacts ==
  ASSUME queue \in Seq(Requests), IsInjective(queue),
         busy \in [NodeSet -> Requests \cup {None}]
  PROVE  PassInv(Pass, Len(queue))
<1> DEFINE S == {n \in Nat : n <= Len(queue) => PassInv(UpTo[n], n)}
<1>1. 0 \in S
  <2>1. PassInv(Base, 0)
    <3>1. Restrict(busy, {n \in NodeSet : busy[n] # None})
            \in [{n \in NodeSet : busy[n] # None} -> Requests]
      BY DEF Restrict
    <3> DEFINE g == Restrict(busy, {n \in NodeSet : busy[n] # None})
    <3>2. g \in [DOMAIN g -> Requests]
      BY <3>1
    <3>3. Base = [queue |-> <<>>, reserved |-> {}, given |-> g]
      BY DEF Base
    <3> HIDE DEF g
    <3>4. <<>> \in Seq(Requests) /\ Len(<<>>) = 0 /\ IsInjective(<<>>)
      BY DEF IsInjective
    <3> QED
      BY <3>2, <3>3, <3>4 DEF PassInv
  <2> QED
    BY <2>1, UpToSteps
<1>2. ASSUME NEW n \in Nat, n \in S
      PROVE  n + 1 \in S
  <2> SUFFICES ASSUME n + 1 <= Len(queue)
               PROVE  PassInv(UpTo[n + 1], n + 1)
    OBVIOUS
  <2>1. PassInv(UpTo[n], n) /\ UpTo[n + 1] = Consider(UpTo[n], queue[n + 1])
    BY <1>2, UpToSteps
  <2>2. PassInv(Consider(UpTo[n], queue[n + 1]), n + 1)
    BY <2>1, ConsiderFacts
  <2> QED
    BY <2>1, <2>2
<1>3. Len(queue) \in S
  <2> HIDE DEF S
  <2>1. Nat \subseteq S
    BY <1>1, <1>2, SetInduction
  <2> QED
    BY <2>1
<1> QED
  BY <1>3, PassIsUpTo

---------------------------------------------------------------------------
(* What the steps share.                                                   *)

LEMMA InitInv == Init => IInv
<1> SUFFICES ASSUME Init PROVE IInv
  OBVIOUS
<1>1. DOMAIN <<>> = {} /\ <<>> \in [{} -> Requests \cup {Subscribe}] /\ Range(<<>>) = {}
  BY DEF Range
<1>2. <<>> \in Seq(Requests) /\ IsInjective(<<>>) /\ Len(<<>>) = 0
  BY DEF IsInjective
<1>3. TypeOK
  BY <1>1, <1>2 DEF Init, TypeOK, Payloads
<1>4. FlightType /\ WireType /\ OwnMessages /\ OneRequestEach
  BY <1>1 DEF Init, FlightType, WireType, OwnMessages, OneRequestEach
<1>5. QueuedAreMade /\ OwnAnswer /\ BusyIsWaiting
  BY <1>1, <1>2 DEF Init, QueuedAreMade, OwnAnswer, BusyIsWaiting
<1> QED
  BY <1>3, <1>4, <1>5 DEF IInv

\* A promise that is settled with an error or with its own answer.
LEMMA SettleKeeps ==
  ASSUME result \in [Requests -> Requests \cup {None, "ticket", "error"}], OwnAnswer,
         NEW r, NEW value, r \in Requests => value \in {r, "error"}, Settle(r, value)
  PROVE  /\ result' \in [Requests -> Requests \cup {None, "ticket", "error"}]
         /\ OwnAnswer'
  BY DEF Settle, OwnAnswer

\* What is in flight and what is not answered only become less.
Shrinks ==
  /\ inflight' = [k \in NodeSet |-> inflight'[k]]
  /\ wire' \in [NodeSet -> SUBSET Messages]
  /\ nextId' = nextId
  /\ \A k \in NodeSet :
       /\ wire'[k] \subseteq wire[k]
       /\ DOMAIN inflight'[k] \subseteq DOMAIN inflight[k]
       /\ inflight'[k] = [i \in DOMAIN inflight'[k] |-> inflight[k][i]]

LEMMA ShrinkKeeps ==
  ASSUME IInv, Shrinks
  PROVE  FlightType' /\ WireType' /\ OwnMessages' /\ OneRequestEach'
<1>1. FlightType'
  BY DEF IInv, Shrinks, FlightType
<1>2. WireType'
  BY DEF IInv, Shrinks, WireType
<1>3. OwnMessages'
  BY DEF IInv, Shrinks, OwnMessages
<1>4. OneRequestEach'
  BY DEF IInv, Shrinks, OneRequestEach
<1> QED
  BY <1>1, <1>2, <1>3, <1>4

\* Whatever ends a message in flight frees the node that was busy with it.
LEMMA ForgetKeeps ==
  ASSUME IInv, NEW n \in NodeSet, NEW ids \in SUBSET DOMAIN inflight[n], Forget(n, ids),
         nextId' = nextId, wire' \in [NodeSet -> SUBSET Messages],
         \A k \in NodeSet : wire'[k] \subseteq wire[k]
  PROVE  /\ Shrinks
         /\ busy' \in [NodeSet -> Requests \cup {None}]
         /\ BusyIsWaiting'
         /\ DOMAIN inflight'[n] = DOMAIN inflight[n] \ ids
<1>1. inflight' = [k \in NodeSet |->
                     IF k = n THEN Restrict(inflight[n], DOMAIN inflight[n] \ ids)
                     ELSE inflight[k]]
  BY DEF Forget, IInv, FlightType
<1>2. DOMAIN inflight'[n] = DOMAIN inflight[n] \ ids
      /\ \A i \in DOMAIN inflight'[n] : inflight'[n][i] = inflight[n][i]
  BY <1>1 DEF Restrict
<1>3. \A k \in NodeSet \ {n} : inflight'[k] = inflight[k]
  BY <1>1
<1>4. Shrinks
  <2>1. inflight'[n] = [i \in DOMAIN inflight'[n] |-> inflight[n][i]]
    BY <1>1 DEF Restrict
  <2>2. inflight' = [k \in NodeSet |-> inflight'[k]]
    BY <1>1
  <2>3. ASSUME NEW k \in NodeSet
        PROVE  /\ DOMAIN inflight'[k] \subseteq DOMAIN inflight[k]
               /\ inflight'[k] = [i \in DOMAIN inflight'[k] |-> inflight[k][i]]
    <3>1. CASE k = n
      BY <1>2, <2>1, <3>1
    <3>2. CASE k # n
      <4>1. inflight[k] = [i \in DOMAIN inflight[k] |-> inflight[k][i]]
        BY DEF IInv, FlightType
      <4> QED
        BY <1>3, <3>2, <4>1
    <3> QED
      BY <3>1, <3>2
  <2> QED
    BY <2>2, <2>3 DEF Shrinks
<1>5. busy \in [NodeSet -> Requests \cup {None}]
  BY DEF IInv, TypeOK
<1>6. busy' = [busy EXCEPT ![n] = IF busy[n] \in {inflight[n][i] : i \in ids}
                                  THEN None ELSE busy[n]]
  BY <1>5 DEF Forget
<1>7. busy' \in [NodeSet -> Requests \cup {None}]
  BY <1>5, <1>6
<1>8. ASSUME NEW k \in NodeSet
      PROVE  Range(inflight'[k]) \ {Subscribe} = {busy'[k]} \ {None}
  <2>1. Range(inflight[k]) \ {Subscribe} = {busy[k]} \ {None}
    BY DEF IInv, BusyIsWaiting
  <2>2. CASE k # n
    BY <1>3, <1>5, <1>6, <2>1, <2>2
  <2>3. CASE k = n
    <3>1. CASE busy[n] \in {inflight[n][i] : i \in ids}
      <4>1. PICK i \in ids : busy[n] = inflight[n][i]
        BY <3>1
      <4>2. busy'[n] = None
        BY <1>5, <1>6, <3>1
      <4>3. inflight[n][i] # Subscribe
        BY <1>5, <2>1, <2>3, <4>1 DEF Range
      <4>4. \A j \in DOMAIN inflight'[n] : inflight[n][j] = Subscribe
        BY <1>2, <4>1, <4>3 DEF IInv, OneRequestEach
      <4> QED
        BY <1>2, <2>3, <4>2, <4>4 DEF Range
    <3>2. CASE busy[n] \notin {inflight[n][i] : i \in ids}
      <4>1. busy'[n] = busy[n]
        BY <1>5, <1>6, <3>2
      <4>2. Range(inflight'[n]) \subseteq Range(inflight[n])
        BY <1>2 DEF Range
      <4>3. busy[n] # None => busy[n] \in Range(inflight'[n])
        BY <1>2, <2>1, <2>3, <3>2 DEF Range
      <4>4. busy[n] # Subscribe
        BY <1>5
      <4> QED
        BY <2>1, <2>3, <4>1, <4>2, <4>3, <4>4
    <3> QED
      BY <3>1, <3>2
  <2> QED
    BY <2>2, <2>3
<1> QED
  BY <1>2, <1>4, <1>7, <1>8 DEF BusyIsWaiting

\* Each node that is given a request gets one message more.
Sent(given) ==
  /\ FlightType' /\ WireType' /\ OwnMessages'
  /\ nextId' \in [NodeSet -> Nat]
  /\ \A n \in NodeSet \cap DOMAIN given :
       /\ DOMAIN inflight'[n] = DOMAIN inflight[n] \cup {nextId[n]}
       /\ nextId[n] \notin DOMAIN inflight[n]
       /\ inflight'[n][nextId[n]] = given[n]
       /\ \A i \in DOMAIN inflight[n] : inflight'[n][i] = inflight[n][i]
  /\ \A n \in NodeSet \ DOMAIN given :
       inflight'[n] = inflight[n] /\ wire'[n] = wire[n]

\* A message that is sent has an id of its own.
LEMMA SendKeeps ==
  ASSUME IInv, NEW given, Send(given),
         \A n \in NodeSet \cap DOMAIN given : given[n] \in Requests \cup {Subscribe}
  PROVE  Sent(given)
<1>1. nextId \in [NodeSet -> Nat]
  BY DEF IInv, TypeOK
<1>2. nextId' = [n \in NodeSet |-> nextId[n] + IF n \in DOMAIN given THEN 1 ELSE 0]
  BY DEF Send
<1>3. nextId' \in [NodeSet -> Nat] /\ \A n \in NodeSet : nextId'[n] >= nextId[n]
  BY <1>1, <1>2
<1>4. \A n \in NodeSet \cap DOMAIN given : nextId'[n] = nextId[n] + 1
  BY <1>2
<1>5. \A n \in NodeSet : nextId[n] \notin DOMAIN inflight[n]
  BY <1>1 DEF IInv, FlightType
<1>6. ASSUME NEW n \in NodeSet \cap DOMAIN given
      PROVE  /\ inflight'[n] = [i \in DOMAIN inflight[n] \cup {nextId[n]} |->
                                  IF i = nextId[n] THEN given[n] ELSE inflight[n][i]]
             /\ wire'[n] = wire[n] \cup {[id |-> nextId[n], what |-> given[n]]}
  BY DEF Send, NewId
<1>7. ASSUME NEW n \in NodeSet \ DOMAIN given
      PROVE  inflight'[n] = inflight[n] /\ wire'[n] = wire[n]
  BY DEF Send
<1>8. ASSUME NEW n \in NodeSet \cap DOMAIN given
      PROVE  /\ DOMAIN inflight'[n] = DOMAIN inflight[n] \cup {nextId[n]}
             /\ inflight'[n][nextId[n]] = given[n]
             /\ \A i \in DOMAIN inflight[n] : inflight'[n][i] = inflight[n][i]
  BY <1>5, <1>6
<1>9. FlightType'
  <2>1. inflight' = [n \in NodeSet |-> inflight'[n]]
    BY DEF Send
  <2>2. ASSUME NEW n \in NodeSet
        PROVE  /\ inflight'[n] \in [DOMAIN inflight'[n] -> Requests \cup {Subscribe}]
               /\ \A i \in DOMAIN inflight'[n] : i \in Nat /\ i < nextId'[n]
    <3>1. CASE n \in DOMAIN given
      <4>1. inflight'[n] \in [DOMAIN inflight'[n] -> Requests \cup {Subscribe}]
        <5>1. inflight[n] \in [DOMAIN inflight[n] -> Requests \cup {Subscribe}]
          BY DEF IInv, FlightType
        <5>2. inflight'[n] = [i \in DOMAIN inflight[n] \cup {nextId[n]} |->
                                IF i = nextId[n] THEN given[n] ELSE inflight[n][i]]
          BY <1>6, <3>1
        <5>3. given[n] \in Requests \cup {Subscribe}
          BY <3>1
        <5> QED
          BY <5>1, <5>2, <5>3
      <4>2. \A i \in DOMAIN inflight'[n] : i \in Nat /\ i < nextId'[n]
        BY <1>1, <1>4, <1>8, <3>1 DEF IInv, FlightType
      <4> QED
        BY <4>1, <4>2
    <3>2. CASE n \notin DOMAIN given
      BY <1>2, <1>1, <1>7, <3>2 DEF IInv, FlightType
    <3> QED
      BY <3>1, <3>2
  <2> QED
    BY <2>1, <2>2 DEF FlightType
<1>10. WireType'
  <2>1. wire' = [n \in NodeSet |-> wire'[n]]
    BY DEF Send
  <2>2. ASSUME NEW n \in NodeSet
        PROVE  /\ wire'[n] \subseteq Messages
               /\ \A m \in wire'[n] : m.id < nextId'[n]
    <3>1. wire[n] \subseteq Messages /\ \A m \in wire[n] : m.id \in Nat /\ m.id < nextId[n]
      BY DEF IInv, WireType, Messages
    <3>2. CASE n \in DOMAIN given
      <4> DEFINE sent == [id |-> nextId[n], what |-> given[n]]
      <4>1. nextId[n] \in Nat /\ nextId'[n] = nextId[n] + 1
        BY <1>1, <1>4, <3>2
      <4>2. sent \in Messages /\ sent.id = nextId[n]
        BY <3>2, <4>1 DEF Messages
      <4>3. wire'[n] = wire[n] \cup {sent}
        BY <1>6, <3>2
      <4> HIDE DEF sent
      <4> QED
        BY <3>1, <4>1, <4>2, <4>3
    <3>3. CASE n \notin DOMAIN given
      BY <1>1, <1>3, <1>7, <3>1, <3>3
    <3> QED
      BY <3>2, <3>3
  <2> QED
    BY <2>1, <2>2 DEF WireType
<1>11. OwnMessages'
  <2>1. ASSUME NEW n \in NodeSet, NEW m \in wire'[n], m.id \in DOMAIN inflight'[n]
        PROVE  inflight'[n][m.id] = m.what
    <3>1. CASE n \in DOMAIN given
      <4>1. CASE m \in wire[n]
        <5>1. m.id \in Nat /\ m.id < nextId[n]
          BY <4>1 DEF IInv, WireType, Messages
        <5>2. m.id \in DOMAIN inflight[n]
          BY <1>1, <1>8, <2>1, <3>1, <5>1
        <5> QED
          BY <1>8, <3>1, <4>1, <5>2 DEF IInv, OwnMessages
      <4>2. CASE m = [id |-> nextId[n], what |-> given[n]]
        BY <1>8, <3>1, <4>2
      <4>3. wire'[n] = wire[n] \cup {[id |-> nextId[n], what |-> given[n]]}
        BY <1>6, <3>1
      <4> QED
        BY <4>1, <4>2, <4>3
    <3>2. CASE n \notin DOMAIN given
      BY <1>7, <2>1, <3>2 DEF IInv, OwnMessages
    <3> QED
      BY <3>1, <3>2
  <2> QED
    BY <2>1 DEF OwnMessages
<1> QED
  BY <1>3, <1>5, <1>7, <1>8, <1>9, <1>10, <1>11 DEF Sent

---------------------------------------------------------------------------
(* The steps.                                                              *)

\* Nothing is in flight on a connection that is down.
DownIsIdle ==
  \A n \in NodeSet : link[n] = "down" => DOMAIN inflight[n] = {} /\ wire[n] = {}

\* The types of the connections follow from what is known of their messages.
LEMMA TypeParts ==
  ASSUME FlightType', WireType', DownIsIdle',
         payload' \in [Requests -> Payloads \cup {None}],
         result' \in [Requests -> Requests \cup {None, "ticket", "error"}],
         timed' \subseteq Requests,
         queue' \in Seq(Requests), IsInjective(queue'),
         link' \in [NodeSet -> {"down", "open", "closing"}],
         opens' \in 0 .. MaxOpens,
         has' \in [NodeSet -> SUBSET Ledgers],
         tickets' \in [NodeSet -> SUBSET Requests],
         busy' \in [NodeSet -> Requests \cup {None}],
         nextId' \in [NodeSet -> Nat]
  PROVE  TypeOK'
<1>1. \A n \in NodeSet : Range(inflight'[n]) \subseteq Requests \cup {Subscribe}
  BY DEF FlightType, Range
<1>2. \A n \in NodeSet : wire'[n] \subseteq Messages
  BY DEF WireType
<1> QED
  BY <1>1, <1>2 DEF TypeOK, DownIsIdle

LEMMA RequestStep ==
  ASSUME IInv, NEW r \in Requests, Request(r)
  PROVE  IInv'
<1> USE DEF Request, links
<1>1. ~Made(r)
  OBVIOUS
<1>2. PICK p \in Payloads : payload' = [payload EXCEPT ![r] = p]
  OBVIOUS
<1>3. p # None
  OBVIOUS
<1>4. payload' \in [Requests -> Payloads \cup {None}]
  BY <1>2 DEF IInv, TypeOK
<1>5. queue \in Seq(Requests) /\ IsInjective(queue)
  BY DEF IInv, TypeOK
<1>6. /\ queue' \in Seq(Requests) /\ Len(queue') = Len(queue) + 1
      /\ \A i \in 1 .. Len(queue) : queue'[i] = queue[i]
      /\ queue'[Len(queue) + 1] = r
  BY <1>5
<1>7. \A i \in 1 .. Len(queue) : queue[i] # r
  BY <1>1 DEF IInv, QueuedAreMade
<1>8. IsInjective(queue')
  <2>1. DOMAIN queue' = 1 .. Len(queue) + 1 /\ DOMAIN queue = 1 .. Len(queue)
    BY <1>5, <1>6
  <2> QED
    BY <1>5, <1>6, <1>7, <2>1 DEF IsInjective
<1>9. QueuedAreMade'
  <2>1. payload \in [Requests -> Payloads \cup {None}]
    BY DEF IInv, TypeOK
  <2>2. \A s \in Requests : Made(s) => Made(s)'
    BY <1>2, <1>3, <2>1 DEF Made
  <2>3. Made(r)'
    BY <1>2, <1>3, <2>1 DEF Made
  <2> QED
    BY <1>5, <1>6, <2>2, <2>3 DEF IInv, QueuedAreMade
<1>10. FlightType' /\ WireType' /\ OwnMessages' /\ OneRequestEach' /\ OwnAnswer' /\ BusyIsWaiting'
  BY DEF IInv, FlightType, WireType, OwnMessages, OneRequestEach, OwnAnswer, BusyIsWaiting
<1>11. TypeOK'
  BY <1>4, <1>6, <1>8 DEF IInv, TypeOK
<1> QED
  BY <1>9, <1>10, <1>11 DEF IInv

LEMMA ExpireStep ==
  ASSUME IInv, NEW r \in Requests, Expire(r)
  PROVE  IInv'
<1> USE DEF Expire, links
<1>1. /\ result' \in [Requests -> Requests \cup {None, "ticket", "error"}]
      /\ OwnAnswer'
  BY SettleKeeps DEF IInv, TypeOK
<1>2. FlightType' /\ WireType' /\ OwnMessages' /\ OneRequestEach' /\ QueuedAreMade' /\ BusyIsWaiting'
  BY DEF IInv, FlightType, WireType, OwnMessages, OneRequestEach, QueuedAreMade, Made, BusyIsWaiting
<1>3. TypeOK'
  BY <1>1 DEF IInv, TypeOK
<1> QED
  BY <1>1, <1>2, <1>3 DEF IInv

\* A node gets a request only when it has none.
LEMMA WorkQueueStep ==
  ASSUME IInv, WorkQueue
  PROVE  IInv'
<1>1. /\ queue \in Seq(Requests) /\ IsInjective(queue)
      /\ busy \in [NodeSet -> Requests \cup {None}]
  BY DEF IInv, TypeOK
<1>2. PassInv(Pass, Len(queue))
  BY <1>1, PassFacts
<1> SUFFICES ASSUME NEW pass, pass = Pass,
                    NEW new, new = Restrict(pass.given, {n \in DOMAIN pass.given : busy[n] = None}),
                    NEW sending, sending = {n \in DOMAIN new : link[n] = "open"},
                    NEW failed, failed = {new[n] : n \in DOMAIN new \ sending},
                    NEW reserved, reserved = {rv[2] : rv \in pass.reserved},
                    NEW given, given = Restrict(new, sending)
             PROVE  IInv'
  OBVIOUS
<1>3. /\ queue' = pass.queue
      /\ timed' = timed \ (Range(new) \cup reserved)
      /\ tickets' = [n \in NodeSet |-> tickets[n] \cup {r \in reserved : <<n, r>> \in pass.reserved}]
      /\ busy' = [n \in NodeSet |-> IF n \in sending THEN new[n] ELSE busy[n]]
      /\ Send(given)
      /\ result' = [r \in Requests |->
                      IF result[r] # None THEN result[r]
                      ELSE IF r \in reserved THEN "ticket"
                      ELSE IF r \in failed THEN "error" ELSE None]
      /\ UNCHANGED <<payload, link, opens, has>>
  BY DEF WorkQueue, links
<1>4. PassInv(pass, Len(queue))
  BY <1>2
<1>5. DOMAIN new = {n \in DOMAIN pass.given : busy[n] = None}
      /\ \A n \in DOMAIN new : new[n] \in Requests
  BY <1>4 DEF PassInv, Restrict
<1>6. sending \subseteq DOMAIN new /\ \A n \in sending : link[n] = "open" /\ busy[n] = None
  BY <1>5
<1>7. DOMAIN given = sending /\ \A n \in sending : given[n] = new[n]
  BY DEF Restrict
<1>8. \A n \in NodeSet \cap DOMAIN given : given[n] \in Requests
  BY <1>5, <1>6, <1>7
<1>9. /\ FlightType' /\ WireType' /\ OwnMessages'
      /\ nextId' \in [NodeSet -> Nat]
      /\ \A n \in NodeSet \cap DOMAIN given :
           /\ DOMAIN inflight'[n] = DOMAIN inflight[n] \cup {nextId[n]}
           /\ nextId[n] \notin DOMAIN inflight[n]
           /\ inflight'[n][nextId[n]] = given[n]
           /\ \A i \in DOMAIN inflight[n] : inflight'[n][i] = inflight[n][i]
      /\ \A n \in NodeSet \ DOMAIN given :
           inflight'[n] = inflight[n] /\ wire'[n] = wire[n]
  <2>1. \A n \in NodeSet \cap DOMAIN given : given[n] \in Requests \cup {Subscribe}
    BY <1>8
  <2>2. Send(given)
    BY <1>3
  <2>3. Sent(given)
    BY <2>1, <2>2, SendKeeps
  <2> QED
    BY <2>3 DEF Sent
<1>10. ASSUME NEW n \in NodeSet \cap DOMAIN given
       PROVE  \A i \in DOMAIN inflight[n] : inflight[n][i] = Subscribe
  <2>1. Range(inflight[n]) \ {Subscribe} = {}
    BY <1>6, <1>7 DEF IInv, BusyIsWaiting
  <2> QED
    BY <2>1 DEF Range
<1>11. OneRequestEach'
  <2>1. ASSUME NEW n \in NodeSet
        PROVE  \A i, j \in DOMAIN inflight'[n] :
                 inflight'[n][i] # Subscribe /\ inflight'[n][j] # Subscribe => i = j
    <3>1. CASE n \in DOMAIN given
      <4>1. \A i \in DOMAIN inflight'[n] : i # nextId[n] => inflight'[n][i] = Subscribe
        <5>1. DOMAIN inflight'[n] = DOMAIN inflight[n] \cup {nextId[n]}
              /\ \A i \in DOMAIN inflight[n] : inflight'[n][i] = inflight[n][i]
          BY <1>9, <3>1
        <5>2. \A i \in DOMAIN inflight[n] : inflight[n][i] = Subscribe
          BY <1>10, <3>1
        <5> QED
          BY <5>1, <5>2
      <4> QED
        BY <4>1
    <3>2. CASE n \notin DOMAIN given
      <4>1. inflight'[n] = inflight[n]
        BY <1>9, <3>2
      <4> QED
        BY <4>1 DEF IInv, OneRequestEach
    <3> QED
      BY <3>1, <3>2
  <2> QED
    BY <2>1 DEF OneRequestEach
<1>12. busy' \in [NodeSet -> Requests \cup {None}]
  BY <1>1, <1>3, <1>5, <1>6
<1>13. BusyIsWaiting'
  <2>1. ASSUME NEW n \in NodeSet
        PROVE  Range(inflight'[n]) \ {Subscribe} = {busy'[n]} \ {None}
    <3>1. CASE n \in DOMAIN given
      <4>1. busy'[n] = given[n] /\ given[n] \in Requests
        BY <1>3, <1>7, <1>8, <3>1
      <4>2. \A i \in DOMAIN inflight'[n] :
              inflight'[n][i] = IF i = nextId[n] THEN given[n] ELSE Subscribe
        BY <1>9, <1>10, <3>1
      <4>3. nextId[n] \in DOMAIN inflight'[n]
        BY <1>9, <3>1
      <4>4. Range(inflight'[n]) \ {Subscribe} = {given[n]}
        <5> DEFINE f == inflight'[n]
                   g == given[n]
                   k == nextId[n]
        <5>1. k \in DOMAIN f /\ g # Subscribe
              /\ \A i \in DOMAIN f : f[i] = IF i = k THEN g ELSE Subscribe
          BY <4>1, <4>2, <4>3
        <5> HIDE DEF f, g, k
        <5>2. Range(f) \ {Subscribe} = {g}
          BY <5>1 DEF Range
        <5> QED
          BY <5>2 DEF f, g
      <4> QED
        BY <4>1, <4>4
    <3>2. CASE n \notin DOMAIN given
      <4>1. inflight'[n] = inflight[n] /\ busy'[n] = busy[n]
        BY <1>3, <1>7, <1>9, <3>2
      <4> QED
        BY <4>1 DEF IInv, BusyIsWaiting
    <3> QED
      BY <3>1, <3>2
  <2> QED
    BY <2>1 DEF BusyIsWaiting
<1>14. reserved \subseteq Requests
  BY <1>4 DEF PassInv
<1>15. /\ result' \in [Requests -> Requests \cup {None, "ticket", "error"}]
       /\ OwnAnswer'
  BY <1>3 DEF IInv, TypeOK, OwnAnswer
<1>16. QueuedAreMade'
  <2>1. \A i \in 1 .. Len(queue') : \E j \in 1 .. Len(queue) : queue'[i] = queue[j]
    BY <1>3, <1>4 DEF PassInv
  <2> QED
    BY <1>3, <2>1 DEF IInv, QueuedAreMade, Made
<1>17. queue' \in Seq(Requests) /\ IsInjective(queue')
  BY <1>3, <1>4 DEF PassInv
<1>18. tickets' \in [NodeSet -> SUBSET Requests]
  BY <1>3, <1>14 DEF IInv, TypeOK
<1>19. DownIsIdle'
  <2>1. ASSUME NEW n \in NodeSet, link'[n] = "down"
        PROVE  DOMAIN inflight'[n] = {} /\ wire'[n] = {}
    <3>1. link[n] = "down" /\ n \notin DOMAIN given
      BY <1>3, <1>6, <1>7, <2>1
    <3>2. inflight'[n] = inflight[n] /\ wire'[n] = wire[n]
      BY <1>9, <3>1
    <3> QED
      BY <3>1, <3>2 DEF IInv, TypeOK
  <2> QED
    BY <2>1 DEF DownIsIdle
<1>20. /\ payload' \in [Requests -> Payloads \cup {None}]
       /\ timed' \subseteq Requests
       /\ link' \in [NodeSet -> {"down", "open", "closing"}]
       /\ opens' \in 0 .. MaxOpens
       /\ has' \in [NodeSet -> SUBSET Ledgers]
  BY <1>3 DEF IInv, TypeOK
<1>21. TypeOK'
  BY <1>9, <1>12, <1>15, <1>17, <1>18, <1>19, <1>20, TypeParts
<1> QED
  BY <1>9, <1>11, <1>13, <1>15, <1>16, <1>21 DEF IInv

\* A response, in time or too late.
LEMMA ResponseStep ==
  ASSUME IInv, NEW n \in NodeSet, Response(n)
  PROVE  IInv'
<1> PICK m \in wire[n] :
      /\ wire' = [wire EXCEPT ![n] = @ \ {m}]
      /\ IF m.id \in DOMAIN inflight[n]
         THEN LET r == inflight[n][m.id]
              IN  /\ Forget(n, {m.id})
                  /\ \E value \in {m.what, "error"} : Settle(Given(r), value)
                  /\ IF r = Subscribe THEN Learn(n) ELSE UNCHANGED has
         ELSE UNCHANGED <<inflight, busy, result, has>>
  BY DEF Response
<1>1. UNCHANGED <<payload, timed, queue, link, opens, tickets, nextId>>
  BY DEF Response, asking, links
<1>2. Connected(n)
  BY DEF Response
<1>3. wire' \in [NodeSet -> SUBSET Messages] /\ \A k \in NodeSet : wire'[k] \subseteq wire[k]
  BY DEF IInv, WireType
<1>4. result \in [Requests -> Requests \cup {None, "ticket", "error"}]
      /\ has \in [NodeSet -> SUBSET Ledgers]
  BY DEF IInv, TypeOK
<1>5. /\ Shrinks
      /\ busy' \in [NodeSet -> Requests \cup {None}]
      /\ BusyIsWaiting'
      /\ result' \in [Requests -> Requests \cup {None, "ticket", "error"}]
      /\ OwnAnswer'
      /\ has' \in [NodeSet -> SUBSET Ledgers]
  <2>1. CASE m.id \in DOMAIN inflight[n]
    <3> DEFINE ids == {m.id}
               r == inflight[n][m.id]
    <3>1. ids \in SUBSET DOMAIN inflight[n] /\ Forget(n, ids)
      BY <2>1
    <3>2. PICK value \in {m.what, "error"} : Settle(Given(r), value)
      BY <2>1
    <3>3. r = m.what
      BY <2>1 DEF IInv, OwnMessages
    <3> HIDE DEF ids, r
    <3>4. Shrinks /\ busy' \in [NodeSet -> Requests \cup {None}] /\ BusyIsWaiting'
      BY <1>1, <1>3, <3>1, ForgetKeeps
    <3>5. Given(r) \in Requests => value \in {Given(r), "error"}
      BY <3>2, <3>3 DEF Given
    <3>6. result' \in [Requests -> Requests \cup {None, "ticket", "error"}] /\ OwnAnswer'
      <4> DEFINE g == Given(r)
      <4>1. g \in Requests => value \in {g, "error"}
        BY <3>5
      <4>2. Settle(g, value)
        BY <3>2
      <4>3. OwnAnswer
        BY DEF IInv
      <4> HIDE DEF g
      <4> QED
        BY <1>4, <4>1, <4>2, <4>3, SettleKeeps
    <3>7. has' \in [NodeSet -> SUBSET Ledgers]
      BY <1>4, <2>1 DEF Learn
    <3> QED
      BY <3>4, <3>6, <3>7
  <2>2. CASE m.id \notin DOMAIN inflight[n]
    <3>1. UNCHANGED <<inflight, busy, result, has>>
      BY <2>2
    <3>2. Shrinks
      BY <1>1, <1>3, <3>1 DEF Shrinks, IInv, FlightType
    <3> QED
      BY <3>1, <3>2 DEF IInv, TypeOK, OwnAnswer, BusyIsWaiting
  <2> QED
    BY <2>1, <2>2
<1>6. FlightType' /\ WireType' /\ OwnMessages' /\ OneRequestEach'
  BY <1>5, ShrinkKeeps
<1>7. DownIsIdle'
  BY <1>1, <1>5 DEF Shrinks, DownIsIdle, IInv, TypeOK
<1>8. QueuedAreMade'
  BY <1>1 DEF IInv, QueuedAreMade, Made
<1>9. TypeOK'
  BY <1>1, <1>5, <1>6, <1>7, TypeParts DEF IInv, TypeOK
<1> QED
  BY <1>5, <1>6, <1>8, <1>9 DEF IInv

LEMMA RequestTimeoutStep ==
  ASSUME IInv, NEW n \in NodeSet, RequestTimeout(n)
  PROVE  IInv'
<1> PICK i \in DOMAIN inflight[n] :
      /\ Forget(n, {i})
      /\ Settle(Given(inflight[n][i]), "error")
  BY DEF RequestTimeout
<1>1. UNCHANGED <<payload, timed, queue, link, opens, has, tickets, nextId, wire>>
  BY DEF RequestTimeout, asking, links
<1>2. wire' \in [NodeSet -> SUBSET Messages] /\ \A k \in NodeSet : wire'[k] \subseteq wire[k]
  BY <1>1 DEF IInv, WireType
<1>3. Shrinks /\ busy' \in [NodeSet -> Requests \cup {None}] /\ BusyIsWaiting'
  <2> DEFINE ids == {i}
  <2>1. ids \in SUBSET DOMAIN inflight[n] /\ Forget(n, ids)
    OBVIOUS
  <2> HIDE DEF ids
  <2> QED
    BY <1>1, <1>2, <2>1, ForgetKeeps
<1>4. result' \in [Requests -> Requests \cup {None, "ticket", "error"}] /\ OwnAnswer'
  <2> DEFINE g == Given(inflight[n][i])
  <2>1. Settle(g, "error")
    OBVIOUS
  <2>2. result \in [Requests -> Requests \cup {None, "ticket", "error"}] /\ OwnAnswer
    BY DEF IInv, TypeOK
  <2> HIDE DEF g
  <2> QED
    BY <2>1, <2>2, SettleKeeps
<1>5. FlightType' /\ WireType' /\ OwnMessages' /\ OneRequestEach'
  BY <1>3, ShrinkKeeps
<1>6. DownIsIdle'
  BY <1>1, <1>3 DEF Shrinks, DownIsIdle, IInv, TypeOK
<1>7. QueuedAreMade'
  BY <1>1 DEF IInv, QueuedAreMade, Made
<1>8. TypeOK'
  BY <1>1, <1>3, <1>4, <1>5, <1>6, TypeParts DEF IInv, TypeOK
<1> QED
  BY <1>3, <1>4, <1>5, <1>7, <1>8 DEF IInv

\* What a node tells of its ledgers, and the beginning of a close, touch no request.
LEMMA QuietStep ==
  ASSUME IInv, NEW n \in NodeSet, LedgerClosed(n) \/ StartClose(n)
  PROVE  IInv'
<1>1. UNCHANGED <<payload, timed, result, queue, opens, tickets, busy, inflight, nextId, wire>>
  BY DEF LedgerClosed, StartClose, asking, links
<1>2. /\ has' \in [NodeSet -> SUBSET Ledgers]
      /\ link' \in [NodeSet -> {"down", "open", "closing"}]
      /\ \A k \in NodeSet : link'[k] = "down" => link[k] = "down"
  <2>1. has \in [NodeSet -> SUBSET Ledgers] /\ link \in [NodeSet -> {"down", "open", "closing"}]
    BY DEF IInv, TypeOK
  <2>2. CASE LedgerClosed(n)
    <3>1. link' = link /\ \E known \in SUBSET Ledgers : has' = [has EXCEPT ![n] = known]
      BY <2>2 DEF LedgerClosed, Learn, links
    <3> QED
      BY <2>1, <3>1
  <2>3. CASE StartClose(n)
    <3>1. has' = has /\ link' = [link EXCEPT ![n] = "closing"]
      BY <2>3 DEF StartClose
    <3> QED
      BY <2>1, <3>1
  <2> QED
    BY <2>2, <2>3
<1>3. /\ FlightType' /\ WireType' /\ OwnMessages' /\ OneRequestEach'
      /\ QueuedAreMade' /\ OwnAnswer' /\ BusyIsWaiting'
  BY <1>1 DEF IInv, FlightType, WireType, OwnMessages, OneRequestEach, QueuedAreMade, Made,
              OwnAnswer, BusyIsWaiting
<1>4. DownIsIdle'
  BY <1>1, <1>2 DEF IInv, TypeOK, DownIsIdle
<1>5. TypeOK'
  BY <1>1, <1>2, <1>3, <1>4, TypeParts DEF IInv, TypeOK
<1> QED
  BY <1>3, <1>5 DEF IInv

\* A connection that opens waits for nothing but its subscription.
LEMMA OpenStep ==
  ASSUME IInv, NEW n \in NodeSet, Open(n)
  PROVE  IInv'
<1> SUFFICES ASSUME NEW given, given = [k \in {n} |-> Subscribe]
             PROVE  IInv'
  OBVIOUS
<1>1. /\ link[n] = "down" /\ opens < MaxOpens
      /\ link' = [link EXCEPT ![n] = "open"]
      /\ opens' = opens + 1
      /\ has' = [has EXCEPT ![n] = {}]
      /\ Send(given)
      /\ UNCHANGED <<payload, timed, result, queue, tickets, busy>>
  BY DEF Open, asking
<1>2. DOMAIN given = {n} /\ given[n] = Subscribe
  OBVIOUS
<1>3. Sent(given)
  <2>1. \A k \in NodeSet \cap DOMAIN given : given[k] \in Requests \cup {Subscribe}
    BY <1>2
  <2> QED
    BY <1>1, <2>1, SendKeeps
<1>4. /\ FlightType' /\ WireType' /\ OwnMessages'
      /\ nextId' \in [NodeSet -> Nat]
      /\ DOMAIN inflight'[n] = DOMAIN inflight[n] \cup {nextId[n]}
      /\ inflight'[n][nextId[n]] = Subscribe
      /\ \A k \in NodeSet \ {n} : inflight'[k] = inflight[k] /\ wire'[k] = wire[k]
  BY <1>2, <1>3 DEF Sent
<1>5. DOMAIN inflight[n] = {}
  BY <1>1 DEF IInv, TypeOK
<1>6. OneRequestEach'
  BY <1>4, <1>5 DEF IInv, OneRequestEach
<1>7. BusyIsWaiting'
  <2>1. ASSUME NEW k \in NodeSet
        PROVE  Range(inflight'[k]) \ {Subscribe} = {busy'[k]} \ {None}
    <3>1. busy'[k] = busy[k] /\ Range(inflight[k]) \ {Subscribe} = {busy[k]} \ {None}
      BY <1>1 DEF IInv, BusyIsWaiting
    <3>2. CASE k = n
      <4>1. Range(inflight[n]) = {}
        BY <1>5 DEF Range
      <4>2. Range(inflight'[n]) \ {Subscribe} = {}
        BY <1>4, <1>5 DEF Range
      <4> QED
        BY <3>1, <3>2, <4>1, <4>2
    <3>3. CASE k # n
      BY <1>4, <3>1, <3>3
    <3> QED
      BY <3>2, <3>3
  <2> QED
    BY <2>1 DEF BusyIsWaiting
<1>8. QueuedAreMade' /\ OwnAnswer'
  BY <1>1 DEF IInv, QueuedAreMade, Made, OwnAnswer
<1>9. /\ link' \in [NodeSet -> {"down", "open", "closing"}]
      /\ opens' \in 0 .. MaxOpens
      /\ has' \in [NodeSet -> SUBSET Ledgers]
  BY <1>1 DEF IInv, TypeOK
<1>10. DownIsIdle'
  BY <1>1, <1>4 DEF IInv, TypeOK, DownIsIdle
<1>11. TypeOK'
  BY <1>1, <1>4, <1>9, <1>10, TypeParts DEF IInv, TypeOK
<1> QED
  BY <1>4, <1>6, <1>7, <1>8, <1>11 DEF IInv

\* A connection that closes rejects all that is in flight on it.
LEMMA CloseStep ==
  ASSUME IInv, NEW n \in NodeSet, Close(n)
  PROVE  IInv'
<1>1. /\ link' = [link EXCEPT ![n] = "down"]
      /\ Forget(n, DOMAIN inflight[n])
      /\ result' = [r \in Requests |->
                      IF result[r] = None /\ r \in {inflight[n][i] : i \in DOMAIN inflight[n]}
                      THEN "error" ELSE result[r]]
      /\ wire' = [wire EXCEPT ![n] = {}]
      /\ UNCHANGED <<payload, timed, queue, opens, has, tickets, nextId>>
  BY DEF Close, FailAll, asking
<1>2. wire' \in [NodeSet -> SUBSET Messages] /\ \A k \in NodeSet : wire'[k] \subseteq wire[k]
  BY <1>1 DEF IInv, WireType
<1>3. /\ Shrinks /\ busy' \in [NodeSet -> Requests \cup {None}] /\ BusyIsWaiting'
      /\ DOMAIN inflight'[n] = {}
  <2> DEFINE ids == DOMAIN inflight[n]
  <2>1. ids \in SUBSET DOMAIN inflight[n] /\ Forget(n, ids)
    BY <1>1
  <2> HIDE DEF ids
  <2>2. /\ Shrinks /\ busy' \in [NodeSet -> Requests \cup {None}] /\ BusyIsWaiting'
        /\ DOMAIN inflight'[n] = DOMAIN inflight[n] \ ids
    BY <1>1, <1>2, <2>1, ForgetKeeps
  <2> QED
    BY <2>2 DEF ids
<1>4. result' \in [Requests -> Requests \cup {None, "ticket", "error"}] /\ OwnAnswer'
  BY <1>1 DEF IInv, TypeOK, OwnAnswer
<1>5. FlightType' /\ WireType' /\ OwnMessages' /\ OneRequestEach'
  BY <1>3, ShrinkKeeps
<1>6. link' \in [NodeSet -> {"down", "open", "closing"}]
      /\ \A k \in NodeSet \ {n} : link'[k] = link[k]
  BY <1>1 DEF IInv, TypeOK
<1>7. DownIsIdle'
  <2>1. wire'[n] = {}
    BY <1>1 DEF IInv, WireType
  <2> QED
    BY <1>3, <1>6, <2>1 DEF Shrinks, DownIsIdle, IInv, TypeOK
<1>8. QueuedAreMade'
  BY <1>1 DEF IInv, QueuedAreMade, Made
<1>9. TypeOK'
  BY <1>1, <1>3, <1>4, <1>5, <1>6, <1>7, TypeParts DEF IInv, TypeOK
<1> QED
  BY <1>3, <1>4, <1>5, <1>8, <1>9 DEF IInv

LEMMA StutterStep ==
  ASSUME IInv, UNCHANGED vars
  PROVE  IInv'
BY DEF vars, IInv, TypeOK, FlightType, WireType, OwnMessages, OneRequestEach, QueuedAreMade,
       Made, OwnAnswer, BusyIsWaiting

---------------------------------------------------------------------------
(* The theorems.                                                           *)

\* The invariant holds in every state (nodepool.js, node.js and socket.js).
THEOREM RequestInvariant == Spec => []IInv
<1>1. ASSUME IInv, [Next]_vars
      PROVE  IInv'
  <2>1. CASE \E r \in Requests : Request(r) \/ Expire(r)
    BY <1>1, <2>1, RequestStep, ExpireStep
  <2>2. CASE WorkQueue
    BY <1>1, <2>2, WorkQueueStep
  <2>3. CASE \E n \in NodeSet : \/ Response(n) \/ RequestTimeout(n) \/ LedgerClosed(n)
                                \/ Open(n) \/ StartClose(n) \/ Close(n)
    BY <1>1, <2>3, ResponseStep, RequestTimeoutStep, QuietStep, OpenStep, CloseStep
  <2>4. CASE UNCHANGED vars
    BY <1>1, <2>4, StutterStep
  <2> QED
    BY <1>1, <2>1, <2>2, <2>3, <2>4 DEF Next
<1> QED
  BY InitInv, <1>1, PTL DEF Spec

\* The state has its types; nothing is in flight on a connection that is down.
THEOREM TypesHold == Spec => []TypeOK
<1>1. IInv => TypeOK
  BY DEF IInv
<1> QED
  BY RequestInvariant, <1>1, PTL

\* An answer is given to the request it answers, after any timeouts and
\* reconnects (socket.js, the map of inflight requests).
THEOREM AnswersOwn == Spec => []OwnAnswer
<1>1. IInv => OwnAnswer
  BY DEF IInv
<1> QED
  BY RequestInvariant, <1>1, PTL

\* A node is busy with exactly the request that its socket waits for: it is
\* never lost to the pool (node.js, do).
THEOREM BusyExact == Spec => []BusyIsWaiting
<1>1. IInv => BusyIsWaiting
  BY DEF IInv
<1> QED
  BY RequestInvariant, <1>1, PTL
===========================================================================
