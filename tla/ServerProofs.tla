---------------------------- MODULE ServerProofs ---------------------------
(***************************************************************************)
(* Proofs about Server, for every number of requests, threads, crashes,    *)
(* NFTs, thumbnail sizes and failures.                                     *)
(*                                                                         *)
(* That each request that waits has exactly one place where its answer     *)
(* will come from needs both halves of the server at once: the kind of a   *)
(* request says in which half, and nothing may be in two.                  *)
(***************************************************************************)
EXTENDS Server, FiniteSetTheorems, TLAPS

USE RequestsAssumption, WorkersAssumption, ImageAssumption

---------------------------------------------------------------------------
(* The invariant.                                                          *)

Messages == [id : Requests, request : Requests]
Pendings == UNION {[ids -> Requests] : ids \in SUBSET Requests}
Managers == [state : {"live", "dead", "gone"}, busy : BOOLEAN, last : Nat,
             next : 1 .. MaxRequests + 1, pending : Pendings]
Builds == [phase : {"enrich", "fetch", "resize"}, url : Images \cup {Unknown},
           size : 1 .. Sizes, requests : SUBSET Requests]

\* No request is ever "mixed up".
RequestType == requests \in [Requests -> {"new", "done"} \cup Kinds]

PoolType ==
  /\ pool \in [Slots -> Managers]
  /\ inbox \in [Slots -> Seq(Messages)] /\ outbox \in [Slots -> Seq(Messages)]
  /\ clock \in Nat

ImageType ==
  /\ meta \in [NFTs -> Images \cup {Unknown}]
  /\ media \in Seq(Images \cup {Unknown}) /\ IsInjective(media)
  /\ DOMAIN builds \subseteq NFTs /\ IsFiniteSet(DOMAIN builds)
  /\ builds \in [DOMAIN builds -> Builds]

\* The ids of a thread are not used again while it lives: one that has been
\* given is lower than the next, and what is under way with it is for the
\* request that it was given to; no message outlives its thread.  As requests come in their order, the next id
\* is at most the next request.
IdsInv ==
  \A slot \in Slots :
    /\ \A id \in DOMAIN pool[slot].pending : id < pool[slot].next
    /\ \A request \in Requests : requests[request] = "new" => pool[slot].next <= request
    /\ \A message \in Range(inbox[slot]) \cup Range(outbox[slot]) :
         /\ message.id < pool[slot].next
         /\ message.id \in DOMAIN pool[slot].pending =>
              pool[slot].pending[message.id] = message.request
    /\ pool[slot].state # "live" => inbox[slot] = <<>> /\ outbox[slot] = <<>>

\* A request of a thread is pending at one that lives, once.
ThreadsInv ==
  /\ \A slot \in Slots : \A id \in DOMAIN pool[slot].pending :
       /\ requests[pool[slot].pending[id]] \in {"http", "ws"}
       /\ slot \in Live
  /\ \A slot, other \in Slots : \A id \in DOMAIN pool[slot].pending :
       \A i \in DOMAIN pool[other].pending :
         pool[slot].pending[id] = pool[other].pending[i] => slot = other /\ id = i
  /\ \A request \in Requests : requests[request] \in {"http", "ws"} =>
       \E slot \in Slots : \E id \in DOMAIN pool[slot].pending : pool[slot].pending[id] = request

\* A request for an image waits for one build.
BuildsInv ==
  /\ \A nft \in DOMAIN builds : \A request \in builds[nft].requests : requests[request] = "image"
  /\ \A nft, other \in DOMAIN builds :
       builds[nft].requests \cap builds[other].requests # {} => nft = other
  /\ \A request \in Requests : requests[request] = "image" =>
       \E nft \in DOMAIN builds : request \in builds[nft].requests

\* A build that resizes has written the sizes before its own; one that does not
\* yet resize has written none.
SizesInv ==
  \A nft \in DOMAIN builds :
    LET build == builds[nft]
    IN  /\ build.phase # "resize" => build.size = 1
        /\ build.phase = "resize" /\ build.url \notin torn =>
             \A size \in 1 .. build.size - 1 : <<build.url, size>> \in files

RequestInv == RequestType /\ LoadIsExact
PoolInv == PoolType /\ IdsInv /\ ThreadsInv
ImageInv == ImageType /\ BuildsInv /\ SizesInv /\ BuildsAreCounted /\ MediaAreKept

IInv == RequestInv /\ PoolInv /\ ImageInv

---------------------------------------------------------------------------
(* Sequences.                                                              *)

LEMMA AppendFacts ==
  ASSUME NEW S, NEW s \in Seq(S), NEW e \in S
  PROVE  /\ Append(s, e) \in Seq(S) /\ Len(Append(s, e)) = Len(s) + 1
         /\ Range(Append(s, e)) = Range(s) \cup {e}
         /\ IsInjective(s) /\ e \notin Range(s) => IsInjective(Append(s, e))
<1> DEFINE t == Append(s, e)
<1>1. /\ t \in Seq(S) /\ Len(t) = Len(s) + 1
      /\ \A i \in 1 .. Len(s) : t[i] = s[i]
      /\ t[Len(s) + 1] = e
  OBVIOUS
<1> HIDE DEF t
<1>2. /\ DOMAIN s = 1 .. Len(s) /\ DOMAIN t = 1 .. Len(s) + 1 /\ Len(s) \in Nat
      /\ \A i \in 1 .. Len(s) + 1 : i \in 1 .. Len(s) \/ i = Len(s) + 1
      /\ 1 .. Len(s) \subseteq 1 .. Len(s) + 1 /\ Len(s) + 1 \in 1 .. Len(s) + 1
  BY <1>1
<1>3. Range(t) = Range(s) \cup {e}
  BY <1>1, <1>2 DEF Range
<1>4. IsInjective(s) /\ e \notin Range(s) => IsInjective(t)
  BY <1>1, <1>2 DEF Range, IsInjective
<1> QED
  BY <1>1, <1>3, <1>4 DEF t

LEMMA TailFacts ==
  ASSUME NEW S, NEW s \in Seq(S), s # <<>>
  PROVE  /\ Tail(s) \in Seq(S) /\ Range(Tail(s)) \subseteq Range(s)
         /\ Head(s) \in S /\ Head(s) \in Range(s)
<1> DEFINE t == Tail(s)
<1>1. /\ t \in Seq(S) /\ Len(t) = Len(s) - 1 /\ Len(s) \in Nat \ {0}
      /\ \A i \in 1 .. Len(s) - 1 : t[i] = s[i + 1]
      /\ Head(s) = s[1] /\ Head(s) \in S
  OBVIOUS
<1> HIDE DEF t
<1>2. Range(t) \subseteq Range(s)
  <2>1. \A i \in 1 .. Len(s) - 1 : i + 1 \in 1 .. Len(s)
    BY <1>1
  <2> QED
    BY <1>1, <2>1 DEF Range
<1> QED
  BY <1>1, <1>2 DEF t, Range

\* What a sequence is made of when two are put together.
LEMMA ConcatFacts ==
  ASSUME NEW S, NEW s \in Seq(S), NEW t \in Seq(S)
  PROVE  /\ s \o t \in Seq(S) /\ Len(s \o t) = Len(s) + Len(t)
         /\ \A i \in 1 .. Len(s) : (s \o t)[i] = s[i]
         /\ \A i \in 1 .. Len(t) : (s \o t)[Len(s) + i] = t[i]
  OBVIOUS

\* Removing an element that is there once leaves the others.
LEMMA RemoveFirstFacts ==
  ASSUME NEW S, NEW s \in Seq(S), IsInjective(s), NEW e
  PROVE  /\ RemoveFirst(s, e) \in Seq(S)
         /\ IsInjective(RemoveFirst(s, e))
         /\ Range(RemoveFirst(s, e)) = Range(s) \ {e}
         /\ Len(RemoveFirst(s, e)) = IF e \in Range(s) THEN Len(s) - 1 ELSE Len(s)
<1> DEFINE I == {i \in 1 .. Len(s) : s[i] = e}
<1>1. CASE I = {}
  <2>1. RemoveFirst(s, e) = s
    BY <1>1 DEF RemoveFirst
  <2> QED
    BY <1>1, <2>1 DEF Range
<1>2. CASE I # {}
  <2>1. PICK k \in 1 .. Len(s) : s[k] = e
    BY <1>2
  <2>2. I = {k}
    BY <2>1 DEF IsInjective
  <2>3. SelectInSeq(s, LAMBDA v : v = e) = k
    BY <2>2 DEF SelectInSeq, Min
  <2>4. RemoveFirst(s, e) = SubSeq(s, 1, k - 1) \o SubSeq(s, k + 1, Len(s))
    BY <2>1, <2>3 DEF RemoveFirst, RemoveAt
  <2>5. /\ SubSeq(s, 1, k - 1) \in Seq(S) /\ Len(SubSeq(s, 1, k - 1)) = k - 1
        /\ SubSeq(s, k + 1, Len(s)) \in Seq(S) /\ Len(SubSeq(s, k + 1, Len(s))) = Len(s) - k
        /\ \A i \in 1 .. k - 1 : SubSeq(s, 1, k - 1)[i] = s[i]
        /\ \A i \in 1 .. Len(s) - k : SubSeq(s, k + 1, Len(s))[i] = s[i + k]
    OBVIOUS
  <2> DEFINE t == RemoveFirst(s, e)
  <2>6. /\ t \in Seq(S) /\ Len(t) = Len(s) - 1
        /\ \A i \in 1 .. k - 1 : t[i] = s[i]
        /\ \A i \in k .. Len(s) - 1 : t[i] = s[i + 1]
    <3> DEFINE before == SubSeq(s, 1, k - 1)
               after == SubSeq(s, k + 1, Len(s))
    <3>1. /\ before \in Seq(S) /\ Len(before) = k - 1
          /\ after \in Seq(S) /\ Len(after) = Len(s) - k
          /\ \A i \in 1 .. k - 1 : before[i] = s[i]
          /\ \A i \in 1 .. Len(s) - k : after[i] = s[i + k]
      BY <2>5
    <3>2. t = before \o after
      BY <2>4
    <3> HIDE DEF before, after, t
    <3>3. /\ t \in Seq(S) /\ Len(t) = Len(before) + Len(after)
          /\ \A i \in 1 .. Len(before) : t[i] = before[i]
          /\ \A i \in 1 .. Len(after) : t[Len(before) + i] = after[i]
      <4>1. before \in Seq(S) /\ after \in Seq(S)
        BY <3>1
      <4>2. /\ before \o after \in Seq(S) /\ Len(before \o after) = Len(before) + Len(after)
            /\ \A i \in 1 .. Len(before) : (before \o after)[i] = before[i]
            /\ \A i \in 1 .. Len(after) : (before \o after)[Len(before) + i] = after[i]
        BY <4>1, ConcatFacts
      <4> QED
        BY <4>2, <3>2
    <3>4. ASSUME NEW i \in k .. Len(s) - 1 PROVE t[i] = s[i + 1]
      <4>1. i - (k - 1) \in 1 .. Len(s) - k
        OBVIOUS
      <4>2. t[Len(before) + (i - (k - 1))] = s[i - (k - 1) + k]
        BY <3>1, <3>3, <4>1
      <4> QED
        BY <3>1, <4>2
    <3> QED
      BY <3>1, <3>3, <3>4
  <2> HIDE DEF t
  <2>7. IsInjective(t)
    <3> DEFINE From(i) == IF i < k THEN i ELSE i + 1
    <3>1. \A i \in 1 .. Len(s) - 1 : From(i) \in 1 .. Len(s) /\ t[i] = s[From(i)]
      BY <2>6
    <3>2. \A i, j \in 1 .. Len(s) - 1 : From(i) = From(j) => i = j
      OBVIOUS
    <3> HIDE DEF From
    <3>3. DOMAIN t = 1 .. Len(s) - 1 /\ DOMAIN s = 1 .. Len(s)
      BY <2>6
    <3> QED
      BY <3>1, <3>2, <3>3 DEF IsInjective
  <2>8. ASSUME NEW x \in Range(s) \ {e} PROVE x \in Range(t)
    <3>1. PICK i \in 1 .. Len(s) : s[i] = x
      BY DEF Range
    <3>2. CASE i < k
      BY <3>1, <3>2, <2>6 DEF Range
    <3>3. CASE i > k
      <4>1. i - 1 \in 1 .. Len(s) - 1 /\ t[i - 1] = s[i]
        BY <3>3, <2>6
      <4> QED
        BY <3>1, <4>1, <2>6 DEF Range
    <3> QED
      BY <3>1, <3>2, <3>3, <2>1
  <2>9. ASSUME NEW x \in Range(t) PROVE x \in Range(s) \ {e}
    <3>1. PICK i \in 1 .. Len(s) - 1 : t[i] = x
      BY <2>6 DEF Range
    <3>2. PICK j \in 1 .. Len(s) : x = s[j] /\ j # k
      <4>1. CASE i < k
        <5>1. i \in 1 .. k - 1 /\ i \in 1 .. Len(s) /\ i # k
          BY <4>1
        <5>2. t[i] = s[i]
          BY <5>1, <2>6
        <5> QED
          BY <3>1, <5>1, <5>2
      <4>2. CASE i >= k
        <5>1. i + 1 \in 1 .. Len(s) /\ x = s[i + 1] /\ i + 1 # k
          BY <3>1, <4>2, <2>6
        <5> QED
          BY <5>1
      <4> QED
        BY <4>1, <4>2
    <3> QED
      BY <3>2, <2>1 DEF Range, IsInjective
  <2> QED
    <3>1. e \in Range(s)
      BY <2>1 DEF Range
    <3> QED
      BY <2>6, <2>7, <2>8, <2>9, <3>1 DEF t
<1> QED
  BY <1>1, <1>2

---------------------------------------------------------------------------
(* Requests, and their count.                                              *)

LEMMA FiniteRequests ==
  ASSUME NEW S \in SUBSET Requests
  PROVE  IsFiniteSet(S) /\ Cardinality(S) \in Nat
<1>1. IsFiniteSet(Requests)
  BY FS_Interval DEF Requests
<1> QED
  BY <1>1, FS_Subset, FS_CardinalityType

\* The HTTP requests in progress.
Http == {request \in Requests : requests[request] = "http"}

\* A request that comes waits from now on, and is counted.
LEMMA AwaitFacts ==
  ASSUME RequestInv, NEW request \in Requests, Comes(request),
         NEW kind \in Kinds, Await(request, kind)
  PROVE  /\ RequestInv'
         /\ requests[request] = "new" /\ requests'[request] = kind
         /\ \A other \in Requests \ {request} : requests'[other] = requests[other]
<1>1. /\ requests' = [requests EXCEPT ![request] = kind]
      /\ load' = IF kind = "http" THEN load + 1 ELSE load
      /\ requests[request] = "new" /\ requests \in [Requests -> {"new", "done"} \cup Kinds]
      /\ load = Cardinality(Http)
  BY DEF Await, Comes, RequestInv, RequestType, LoadIsExact, Http
<1>2. IsFiniteSet(Http) /\ request \notin Http
  BY <1>1, FiniteRequests DEF Http
<1>3. Http' = IF kind = "http" THEN Http \cup {request} ELSE Http
  BY <1>1 DEF Http
<1>4. load' = Cardinality(Http')
  BY <1>1, <1>2, <1>3, FS_AddElement
<1>5. RequestType'
  BY <1>1 DEF RequestType
<1> QED
  BY <1>1, <1>4, <1>5 DEF RequestInv, LoadIsExact, Http

LEMMA AnswerFacts ==
  ASSUME RequestInv, NEW request \in Requests, Comes(request), Answer(request)
  PROVE  /\ RequestInv'
         /\ requests[request] = "new" /\ requests'[request] = "done"
         /\ \A other \in Requests \ {request} : requests'[other] = requests[other]
<1>1. /\ requests' = [requests EXCEPT ![request] = "done"] /\ UNCHANGED load
      /\ requests[request] = "new" /\ requests \in [Requests -> {"new", "done"} \cup Kinds]
      /\ load = Cardinality(Http)
  BY DEF Answer, Comes, RequestInv, RequestType, LoadIsExact, Http
<1>2. Http' = Http
  BY <1>1 DEF Http
<1>3. RequestType'
  BY <1>1 DEF RequestType
<1> QED
  BY <1>1, <1>2, <1>3 DEF RequestInv, LoadIsExact, Http

\* Requests that are settled are done, and no longer counted.
LEMMA SettleFacts ==
  ASSUME RequestInv, NEW settled \in SUBSET Requests,
         NEW outcomes, DOMAIN outcomes = settled,
         \A request \in settled : outcomes[request] \in {"answered", "failed"},
         Settle(outcomes)
  PROVE  /\ RequestInv'
         /\ \A request \in settled : requests'[request] = "done"
         /\ \A request \in Requests \ settled : requests'[request] = requests[request]
<1>1. /\ requests' = [request \in Requests |->
                        IF request \notin settled THEN requests[request]
                        ELSE IF outcomes[request] = "mixed up" THEN "mixed up" ELSE "done"]
      /\ load' = load - Cardinality(Http \cap settled)
      /\ requests \in [Requests -> {"new", "done"} \cup Kinds]
      /\ load = Cardinality(Http)
  <2>1. Ended(outcomes) = Http \cap settled
    BY DEF Ended, Http
  <2> QED
    BY <2>1 DEF Settle, RequestInv, RequestType, LoadIsExact, Http
<1>2. requests' = [request \in Requests |-> IF request \notin settled THEN requests[request] ELSE "done"]
  BY <1>1
<1>3. Http' = Http \ settled
  BY <1>2 DEF Http
<1>4. Cardinality(Http \ settled) = Cardinality(Http) - Cardinality(Http \cap settled)
  BY FiniteRequests, FS_Difference DEF Http
<1>5. RequestType'
  BY <1>1, <1>2 DEF RequestType
<1> QED
  BY <1>1, <1>2, <1>3, <1>4, <1>5 DEF RequestInv, LoadIsExact, Http

---------------------------------------------------------------------------
(* The threads.                                                            *)

\* What the image cache does to its requests is nothing to the threads.
LEMMA PoolUnmoved ==
  ASSUME PoolInv, UNCHANGED poolVars,
         \A request \in Requests :
           \/ requests'[request] = requests[request]
           \/ /\ requests[request] \notin {"http", "ws"}
              /\ requests'[request] \notin {"http", "ws", "new"}
  PROVE  PoolInv'
<1>1. PoolType' /\ \A slot \in Slots : \A id \in DOMAIN pool[slot].pending : pool[slot].pending[id] \in Requests
  BY DEF PoolInv, PoolType, poolVars, Managers, Pendings
<1>2. IdsInv'
  BY DEF PoolInv, IdsInv, poolVars
<1>3. ThreadsInv'
  BY <1>1 DEF PoolInv, ThreadsInv, poolVars, Live
<1> QED
  BY <1>1, <1>2, <1>3 DEF PoolInv

\* The fields of a manager.
LEMMA ManagerFacts ==
  ASSUME PoolType, NEW slot \in Slots
  PROVE  /\ pool[slot] \in Managers
         /\ DOMAIN pool[slot].pending \subseteq Requests
         /\ \A id \in DOMAIN pool[slot].pending : pool[slot].pending[id] \in Requests
         /\ inbox[slot] \in Seq(Messages) /\ outbox[slot] \in Seq(Messages)
  BY DEF PoolType, Managers, Pendings

LEMMA PendingType ==
  ASSUME NEW ids \in SUBSET Requests, NEW p \in [ids -> Requests]
  PROVE  p \in Pendings
  BY DEF Pendings

LEMMA FreshType == Fresh \in Managers /\ DOMAIN Fresh.pending = {} /\ Fresh.next = 1
<1>1. <<>> \in [{} -> Requests] /\ DOMAIN <<>> = {}
  OBVIOUS
<1>2. <<>> \in Pendings
  BY <1>1, PendingType
<1>3. 1 \in 1 .. MaxRequests + 1
  OBVIOUS
<1> QED
  BY <1>1, <1>2, <1>3 DEF Managers, Fresh

LEMMA InvDispatch ==
  ASSUME RequestInv, PoolInv, NEW request \in Requests, Comes(request),
         NEW kind \in {"http", "ws"}, Await(request, kind), Dispatch(request)
  PROVE  PoolInv'
<1>1. PICK slot \in Slots :
        /\ First(slot)
        /\ LET id == NextId(pool[slot])
               pending == pool[slot].pending
           IN  /\ pool' = [pool EXCEPT ![slot] =
                     [pool[slot] EXCEPT !.busy = TRUE, !.last = clock, !.next = @ + 1,
                               !.pending = [i \in DOMAIN pending \cup {id} |->
                                              IF i = id THEN request ELSE pending[i]]]]
               /\ inbox' = [inbox EXCEPT ![slot] = Append(@, [id |-> id, request |-> request])]
  BY DEF Dispatch
<1> DEFINE id == pool[slot].next
           pending == pool[slot].pending
           added == [i \in DOMAIN pending \cup {id} |-> IF i = id THEN request ELSE pending[i]]
<1>2. /\ PoolType /\ clock \in Nat /\ slot \in Live /\ pool[slot] \in Managers
      /\ DOMAIN pending \subseteq Requests /\ \A i \in DOMAIN pending : pending[i] \in Requests
      /\ inbox[slot] \in Seq(Messages)
  BY <1>1, ManagerFacts DEF PoolInv, PoolType, First
<1>3. /\ requests[request] = "new" /\ requests'[request] = kind
      /\ \A other \in Requests \ {request} : requests'[other] = requests[other]
  BY AwaitFacts DEF Kinds
<1>4. /\ id \in Requests /\ id <= request /\ id \notin DOMAIN pending
      /\ \A i \in DOMAIN pending : i < id
  <2>1. id \in 1 .. MaxRequests + 1 /\ id <= request
    BY <1>2, <1>3 DEF PoolInv, IdsInv, Managers
  <2>2. \A i \in DOMAIN pending : i < id
    BY DEF PoolInv, IdsInv
  <2> QED
    BY <2>1, <2>2 DEF Requests
<1>5. added \in Pendings
  BY <1>2, <1>4, PendingType
<1>6. /\ pool' = [pool EXCEPT ![slot] = [pool[slot] EXCEPT !.busy = TRUE, !.last = clock, !.next = @ + 1,
                                                  !.pending = added]]
      /\ inbox' = [inbox EXCEPT ![slot] = Append(@, [id |-> id, request |-> request])]
      /\ outbox' = outbox /\ clock' = clock + 1
  BY <1>1 DEF NextId, Dispatch
<1>7. /\ DOMAIN added = DOMAIN pending \cup {id} /\ added[id] = request
      /\ \A i \in DOMAIN pending : added[i] = pending[i]
  BY <1>4
<1> HIDE DEF added
<1>8. /\ pool' \in [Slots -> Managers]
      /\ pool'[slot].pending = added /\ pool'[slot].next = id + 1 /\ pool'[slot].state = "live"
      /\ \A other \in Slots \ {slot} : pool'[other] = pool[other]
  <2> DEFINE m == [pool[slot] EXCEPT !.busy = TRUE, !.last = clock, !.next = @ + 1, !.pending = added]
  <2>1. /\ m \in Managers /\ m.pending = added /\ m.next = id + 1 /\ m.state = pool[slot].state
    <3>1. id + 1 \in 1 .. MaxRequests + 1
      BY <1>4 DEF Requests
    <3> HIDE DEF pending
    <3>2. m.pending = added /\ m.next = id + 1 /\ m.state = pool[slot].state
      BY <1>2 DEF Managers
    <3>3. m \in Managers
      BY <1>2, <1>5, <3>1 DEF Managers
    <3> QED
      BY <3>2, <3>3
  <2>2. pool' = [pool EXCEPT ![slot] = m]
    BY <1>6
  <2>3. pool \in [Slots -> Managers] /\ pool[slot].state = "live"
    BY <1>2 DEF PoolType, Live
  <2> HIDE DEF m
  <2> QED
    BY <2>1, <2>2, <2>3
<1>9. /\ inbox'[slot] \in Seq(Messages) /\ inbox' \in [Slots -> Seq(Messages)]
      /\ Range(inbox'[slot]) = Range(inbox[slot]) \cup {[id |-> id, request |-> request]}
      /\ \A other \in Slots \ {slot} : inbox'[other] = inbox[other]
  <2>1. [id |-> id, request |-> request] \in Messages
    BY <1>4 DEF Messages
  <2>2. inbox'[slot] = Append(inbox[slot], [id |-> id, request |-> request])
    BY <1>2, <1>6 DEF PoolType
  <2>3. \A other \in Slots \ {slot} : inbox'[other] = inbox[other] /\ inbox[other] \in Seq(Messages)
    BY <1>2, <1>6, ManagerFacts DEF PoolType
  <2>4. /\ inbox'[slot] \in Seq(Messages)
        /\ Range(inbox'[slot]) = Range(inbox[slot]) \cup {[id |-> id, request |-> request]}
    BY <1>2, <2>1, <2>2, AppendFacts
  <2> QED
    BY <1>2, <1>6, <2>3, <2>4 DEF PoolType
<1>10. PoolType'
  BY <1>2, <1>6, <1>8, <1>9 DEF PoolType
<1>11. IdsInv'
  <2>1. ASSUME NEW other \in Slots, other # slot
        PROVE  /\ pool'[other] = pool[other] /\ inbox'[other] = inbox[other] /\ outbox'[other] = outbox[other]
    BY <1>6, <1>8, <1>9, <2>1
  <2>2. \A i \in DOMAIN added : i < id + 1
    BY <1>2, <1>4, <1>7 DEF Requests
  <2>3. \A r \in Requests : requests'[r] = "new" => r > request
    BY <1>3 DEF Comes, Requests
  <2>4. ASSUME NEW message \in Range(inbox'[slot]) \cup Range(outbox'[slot])
        PROVE  /\ message.id < id + 1
               /\ message.id \in DOMAIN added => added[message.id] = message.request
    <3>1. CASE message = [id |-> id, request |-> request]
      BY <1>4, <1>7, <3>1 DEF Requests
    <3>2. CASE message \in Range(inbox[slot]) \cup Range(outbox[slot])
      <4>1. message.id < id /\ (message.id \in DOMAIN pending => pending[message.id] = message.request)
        BY <3>2 DEF PoolInv, IdsInv
      <4>2. message.id # id /\ message.id < id + 1
        <5>1. message \in Messages
          BY <1>2, <3>2, ManagerFacts DEF Range
        <5> QED
          BY <1>4, <4>1, <5>1 DEF Messages, Requests
      <4> QED
        BY <1>7, <4>1, <4>2
    <3> QED
      BY <1>6, <1>9, <2>4, <3>1, <3>2
  <2>5. ASSUME NEW r \in Requests, requests'[r] = "new", NEW other \in Slots
        PROVE  pool'[other].next <= r
    <3>1. r > request /\ requests[r] = "new"
      BY <1>3, <2>3, <2>5
    <3>2. CASE other = slot
      BY <1>4, <1>8, <3>1, <3>2 DEF Requests
    <3>3. CASE other # slot
      BY <2>1, <3>1, <3>3 DEF PoolInv, IdsInv
    <3> QED
      BY <3>2, <3>3
  <2> HIDE DEF id, pending
  <2> QED
    BY <1>8, <2>1, <2>2, <2>4, <2>5 DEF PoolInv, IdsInv
<1>12. ThreadsInv'
  <2>1. /\ \A other \in Slots : \A i \in DOMAIN pool[other].pending :
             /\ pool[other].pending[i] \in Requests /\ pool[other].pending[i] # request
             /\ requests[pool[other].pending[i]] \in {"http", "ws"}
             /\ pool[other].state = "live"
    BY <1>2, <1>3, ManagerFacts DEF PoolInv, ThreadsInv, Live
  <2>2. ASSUME NEW other \in Slots, NEW i \in DOMAIN pool'[other].pending
        PROVE  \/ other = slot /\ i = id /\ pool'[other].pending[i] = request
               \/ i \in DOMAIN pool[other].pending /\ pool'[other].pending[i] = pool[other].pending[i]
    BY <1>7, <1>8
  <2>3. ASSUME NEW other \in Slots, NEW i \in DOMAIN pool[other].pending
        PROVE  i \in DOMAIN pool'[other].pending /\ pool'[other].pending[i] = pool[other].pending[i]
    BY <1>7, <1>8
  <2>4. id \in DOMAIN pool'[slot].pending /\ pool'[slot].pending[id] = request
    BY <1>7, <1>8
  <2>5. \A other \in Slots : other \in Live => other \in Live'
    BY <1>8 DEF Live
  <2> HIDE DEF id, pending
  <2>6. \A other \in Slots : \A i \in DOMAIN pool'[other].pending :
          requests'[pool'[other].pending[i]] \in {"http", "ws"} /\ other \in Live'
    BY <1>2, <1>3, <2>1, <2>2, <2>5 DEF Live
  <2>7. \A one, other \in Slots : \A i \in DOMAIN pool'[one].pending : \A j \in DOMAIN pool'[other].pending :
          pool'[one].pending[i] = pool'[other].pending[j] => one = other /\ i = j
    BY <2>1, <2>2 DEF PoolInv, ThreadsInv
  <2>8. \A r \in Requests : requests'[r] \in {"http", "ws"} =>
          \E other \in Slots : \E i \in DOMAIN pool'[other].pending : pool'[other].pending[i] = r
    BY <1>3, <2>3, <2>4 DEF PoolInv, ThreadsInv
  <2> QED
    BY <2>6, <2>7, <2>8 DEF ThreadsInv
<1> QED
  BY <1>10, <1>11, <1>12 DEF PoolInv

\* The other steps of the threads settle some requests and take messages away.
LEMMA PoolShrinks ==
  ASSUME PoolInv, PoolType', NEW settled \in SUBSET Requests,
         \A request \in settled : requests'[request] = "done",
         \A request \in Requests \ settled : requests'[request] = requests[request],
         \A slot \in Slots :
           /\ DOMAIN pool'[slot].pending
                = {id \in DOMAIN pool[slot].pending : pool[slot].pending[id] \notin settled}
           /\ \A id \in DOMAIN pool'[slot].pending : pool'[slot].pending[id] = pool[slot].pending[id]
           /\ Range(inbox'[slot]) \cup Range(outbox'[slot]) \subseteq Range(inbox[slot]) \cup Range(outbox[slot])
           /\ \/ pool'[slot].next = pool[slot].next
              \/ /\ pool'[slot].next = 1 /\ DOMAIN pool'[slot].pending = {}
                 /\ inbox'[slot] = <<>> /\ outbox'[slot] = <<>>
           /\ \/ pool'[slot].state = "live"
              \/ /\ DOMAIN pool'[slot].pending = {}
                 /\ inbox'[slot] = <<>> /\ outbox'[slot] = <<>>
  PROVE  PoolInv'
<1>0. Range(<<>>) = {}
  BY DEF Range
<1>1. IdsInv'
  <2>1. ASSUME NEW slot \in Slots, NEW message \in Range(inbox'[slot]) \cup Range(outbox'[slot])
        PROVE  /\ message.id < pool'[slot].next
               /\ message.id \in DOMAIN pool'[slot].pending =>
                    pool'[slot].pending[message.id] = message.request
    <3>1. message \in Range(inbox[slot]) \cup Range(outbox[slot]) /\ pool'[slot].next = pool[slot].next
      BY <1>0, <2>1
    <3>2. /\ message.id < pool[slot].next
          /\ message.id \in DOMAIN pool[slot].pending => pool[slot].pending[message.id] = message.request
      BY <3>1 DEF PoolInv, IdsInv
    <3> QED
      BY <3>1, <3>2
  <2>2. ASSUME NEW slot \in Slots, NEW request \in Requests, requests'[request] = "new"
        PROVE  pool'[slot].next <= request
    <3>1. requests[request] = "new"
      BY <2>2
    <3> QED
      BY <3>1 DEF PoolInv, IdsInv, Requests
  <2>3. ASSUME NEW slot \in Slots, NEW id \in DOMAIN pool'[slot].pending
        PROVE  id < pool'[slot].next
    BY <2>3 DEF PoolInv, IdsInv
  <2> QED
    BY <2>1, <2>2, <2>3 DEF IdsInv
<1>2. ThreadsInv'
  <2>1. ASSUME NEW slot \in Slots, NEW id \in DOMAIN pool'[slot].pending
        PROVE  requests'[pool'[slot].pending[id]] \in {"http", "ws"} /\ slot \in Live'
    <3>1. /\ id \in DOMAIN pool[slot].pending /\ pool[slot].pending[id] \in Requests \ settled
          /\ pool'[slot].pending[id] = pool[slot].pending[id] /\ pool'[slot].state = "live"
      BY <2>1, ManagerFacts DEF PoolInv
    <3> QED
      BY <3>1 DEF PoolInv, ThreadsInv, Live
  <2>2. ASSUME NEW slot \in Slots, NEW other \in Slots,
               NEW id \in DOMAIN pool'[slot].pending, NEW i \in DOMAIN pool'[other].pending,
               pool'[slot].pending[id] = pool'[other].pending[i]
        PROVE  slot = other /\ id = i
    BY <2>2 DEF PoolInv, ThreadsInv
  <2>3. ASSUME NEW request \in Requests, requests'[request] \in {"http", "ws"}
        PROVE  \E slot \in Slots : \E id \in DOMAIN pool'[slot].pending : pool'[slot].pending[id] = request
    <3>1. request \notin settled /\ requests[request] \in {"http", "ws"}
      BY <2>3
    <3>2. PICK slot \in Slots : \E id \in DOMAIN pool[slot].pending : pool[slot].pending[id] = request
      BY <3>1 DEF PoolInv, ThreadsInv
    <3> QED
      BY <3>1, <3>2
  <2> QED
    BY <2>1, <2>2, <2>3 DEF ThreadsInv
<1> QED
  BY <1>1, <1>2 DEF PoolInv

\* A step that settles none of the requests of a thread.
Keeps(slot) ==
  /\ \/ pool'[slot].pending = pool[slot].pending
     \/ DOMAIN pool[slot].pending = {} /\ DOMAIN pool'[slot].pending = {}
  /\ Range(inbox'[slot]) \cup Range(outbox'[slot]) \subseteq Range(inbox[slot]) \cup Range(outbox[slot])
  /\ \/ pool'[slot].next = pool[slot].next
     \/ /\ pool'[slot].next = 1 /\ DOMAIN pool'[slot].pending = {}
        /\ inbox'[slot] = <<>> /\ outbox'[slot] = <<>>
  /\ \/ pool'[slot].state = "live"
     \/ /\ DOMAIN pool'[slot].pending = {}
        /\ inbox'[slot] = <<>> /\ outbox'[slot] = <<>>

LEMMA PoolKeeps ==
  ASSUME PoolInv, PoolType', UNCHANGED requests,
         \A slot \in Slots : Keeps(slot)
  PROVE  PoolInv'
<1> DEFINE settled == {}
<1>1. \A slot \in Slots :
        /\ DOMAIN pool'[slot].pending
             = {id \in DOMAIN pool[slot].pending : pool[slot].pending[id] \notin settled}
        /\ \A id \in DOMAIN pool'[slot].pending : pool'[slot].pending[id] = pool[slot].pending[id]
  BY DEF Keeps
<1>2. /\ settled \in SUBSET Requests
      /\ \A request \in settled : requests'[request] = "done"
      /\ \A request \in Requests \ settled : requests'[request] = requests[request]
  OBVIOUS
<1> HIDE DEF settled
<1> QED
  BY <1>1, <1>2, PoolShrinks DEF Keeps

LEMMA InvWork ==
  ASSUME PoolInv, NEW slot \in Slots, Work(slot)
  PROVE  PoolInv'
<1>1. /\ inbox[slot] \in Seq(Messages) /\ inbox[slot] # <<>> /\ outbox[slot] \in Seq(Messages)
      /\ inbox' = [inbox EXCEPT ![slot] = Tail(inbox[slot])]
      /\ outbox' = [outbox EXCEPT ![slot] = Append(outbox[slot], Head(inbox[slot]))]
      /\ UNCHANGED <<pool, clock, requests>>
      /\ PoolType
  BY ManagerFacts DEF Work, PoolInv
<1>2. /\ Tail(inbox[slot]) \in Seq(Messages) /\ Range(Tail(inbox[slot])) \subseteq Range(inbox[slot])
      /\ Head(inbox[slot]) \in Messages /\ Head(inbox[slot]) \in Range(inbox[slot])
  BY <1>1, TailFacts
<1>3. /\ Append(outbox[slot], Head(inbox[slot])) \in Seq(Messages)
      /\ Range(Append(outbox[slot], Head(inbox[slot]))) = Range(outbox[slot]) \cup {Head(inbox[slot])}
  BY <1>1, <1>2, AppendFacts
<1>4. /\ inbox'[slot] = Tail(inbox[slot]) /\ outbox'[slot] = Append(outbox[slot], Head(inbox[slot]))
      /\ \A other \in Slots \ {slot} : inbox'[other] = inbox[other] /\ outbox'[other] = outbox[other]
  BY <1>1 DEF PoolType
<1>5. PoolType'
  BY <1>1, <1>2, <1>3 DEF PoolType
<1>6. \A other \in Slots :
        Range(inbox'[other]) \cup Range(outbox'[other]) \subseteq Range(inbox[other]) \cup Range(outbox[other])
  BY <1>2, <1>3, <1>4
<1>7. \A other \in Slots : pool'[other].state = "live" \/
        /\ DOMAIN pool'[other].pending = {} /\ inbox'[other] = <<>> /\ outbox'[other] = <<>>
  <2>1. pool[slot].state = "live"
    BY <1>1 DEF PoolInv, IdsInv
  <2> QED
    BY <1>1, <1>4, <2>1 DEF PoolInv, IdsInv, ThreadsInv, Live
<1> QED
  <2>1. \A other \in Slots : Keeps(other)
    BY <1>1, <1>6, <1>7 DEF Keeps
  <2> QED
    BY <1>1, <1>5, <2>1, PoolKeeps

LEMMA InvReceive ==
  ASSUME RequestInv, PoolInv, NEW slot \in Slots, Receive(slot)
  PROVE  /\ RequestInv' /\ PoolInv'
         /\ \A request \in Requests :
              \/ requests'[request] = requests[request]
              \/ requests[request] # "image" /\ requests'[request] # "image"
<1> SUFFICES ASSUME NEW message, message = Head(outbox[slot]),
                    NEW pending, pending = pool[slot].pending
             PROVE  /\ RequestInv' /\ PoolInv'
                    /\ \A request \in Requests :
                         \/ requests'[request] = requests[request]
                         \/ requests[request] # "image" /\ requests'[request] # "image"
  OBVIOUS
<1>1. /\ outbox[slot] \in Seq(Messages) /\ outbox[slot] # <<>> /\ PoolType
      /\ outbox' = [outbox EXCEPT ![slot] = Tail(outbox[slot])]
      /\ UNCHANGED <<inbox, clock>>
  BY ManagerFacts DEF Receive, PoolInv
<1>2. /\ Tail(outbox[slot]) \in Seq(Messages) /\ Range(Tail(outbox[slot])) \subseteq Range(outbox[slot])
      /\ message \in Messages /\ message \in Range(outbox[slot])
  BY <1>1, TailFacts
<1>3. /\ outbox' \in [Slots -> Seq(Messages)]
      /\ \A other \in Slots : Range(inbox'[other]) \cup Range(outbox'[other])
                                \subseteq Range(inbox[other]) \cup Range(outbox[other])
  BY <1>1, <1>2 DEF PoolType
<1>4. pool[slot].state = "live"
  BY <1>1 DEF PoolInv, IdsInv
<1>5. CASE message.id \notin DOMAIN pending
  <2>1. UNCHANGED <<pool, requests, load>>
    BY <1>5 DEF Receive
  <2>2. PoolType'
    BY <1>1, <1>3, <2>1 DEF PoolType
  <2>3. \A other \in Slots : pool'[other].state = "live" \/
          /\ DOMAIN pool'[other].pending = {} /\ inbox'[other] = <<>> /\ outbox'[other] = <<>>
    BY <1>1, <1>4, <2>1 DEF PoolInv, IdsInv, ThreadsInv, Live, PoolType
  <2>4. PoolInv'
    <3>1. \A other \in Slots : Keeps(other)
      BY <1>3, <2>1, <2>3 DEF Keeps
    <3> QED
      BY <2>1, <2>2, <3>1, PoolKeeps
  <2> QED
    BY <2>1, <2>4 DEF RequestInv, RequestType, LoadIsExact
<1>6. CASE message.id \in DOMAIN pending
  <2> SUFFICES ASSUME NEW id, id = message.id, NEW r, r = pending[id]
               PROVE  /\ RequestInv' /\ PoolInv'
                      /\ \A request \in Requests :
                           \/ requests'[request] = requests[request]
                           \/ requests[request] # "image" /\ requests'[request] # "image"
    OBVIOUS
  <2>1. message.request = r
    BY <1>2, <1>6 DEF PoolInv, IdsInv
  <2>2. PICK outcome \in {"answered", "failed"} : Settle([request \in {r} |-> outcome])
    <3>1. \E outcome \in Reply(message, r) : Settle([request \in {r} |-> outcome])
      BY <1>6 DEF Receive
    <3> QED
      BY <2>1, <3>1 DEF Reply
  <2>3. pool' = [pool EXCEPT ![slot].pending = [i \in DOMAIN pending \ {id} |-> pending[i]],
                             ![slot].busy = FALSE]
    BY <1>6 DEF Receive
  <2>4. r \in Requests /\ requests[r] \in {"http", "ws"} /\ DOMAIN pending \subseteq Requests
        /\ \A i \in DOMAIN pending : pending[i] \in Requests
    BY <1>1, <1>6, ManagerFacts DEF PoolInv, ThreadsInv
  <2>5. /\ RequestInv' /\ requests'[r] = "done"
        /\ \A request \in Requests \ {r} : requests'[request] = requests[request]
    <3> DEFINE outcomes == [request \in {r} |-> outcome]
    <3>1. DOMAIN outcomes = {r} /\ \A request \in {r} : outcomes[request] \in {"answered", "failed"}
      OBVIOUS
    <3>2. Settle(outcomes) /\ {r} \in SUBSET Requests
      BY <2>2, <2>4
    <3> HIDE DEF outcomes
    <3>3. /\ RequestInv'
          /\ \A request \in {r} : requests'[request] = "done"
          /\ \A request \in Requests \ {r} : requests'[request] = requests[request]
      BY <3>1, <3>2, SettleFacts
    <3> QED
      BY <3>3
  <2>6. /\ pool' \in [Slots -> Managers]
        /\ pool'[slot].pending = [i \in DOMAIN pending \ {id} |-> pending[i]]
        /\ pool'[slot].next = pool[slot].next /\ pool'[slot].state = pool[slot].state
        /\ \A other \in Slots \ {slot} : pool'[other] = pool[other]
    <3> DEFINE rest == [i \in DOMAIN pending \ {id} |-> pending[i]]
    <3>1. rest \in Pendings
      BY <2>4, PendingType
    <3>2. pool' = [pool EXCEPT ![slot].pending = rest, ![slot].busy = FALSE]
      BY <2>3
    <3> HIDE DEF rest
    <3>3. /\ pool' \in [Slots -> Managers] /\ pool'[slot].pending = rest
          /\ pool'[slot].next = pool[slot].next /\ pool'[slot].state = pool[slot].state
          /\ \A other \in Slots \ {slot} : pool'[other] = pool[other]
      BY <1>1, <3>1, <3>2 DEF PoolType, Managers
    <3> QED
      BY <3>3 DEF rest
  <2>7. PoolType'
    BY <1>1, <1>3, <2>6 DEF PoolType
  <2>8. ASSUME NEW other \in Slots
        PROVE  /\ DOMAIN pool'[other].pending
                    = {i \in DOMAIN pool[other].pending : pool[other].pending[i] \notin {r}}
               /\ \A i \in DOMAIN pool'[other].pending : pool'[other].pending[i] = pool[other].pending[i]
               /\ pool'[other].next = pool[other].next
               /\ \/ pool'[other].state = "live"
                  \/ /\ DOMAIN pool'[other].pending = {}
                     /\ inbox'[other] = <<>> /\ outbox'[other] = <<>>
    <3>1. \A i \in DOMAIN pool[other].pending : pool[other].pending[i] = r => other = slot /\ i = id
      BY <1>6 DEF PoolInv, ThreadsInv
    <3>2. CASE other = slot
      BY <1>4, <1>6, <2>6, <3>1, <3>2
    <3>3. CASE other # slot
      <4>1. outbox'[other] = outbox[other] /\ pool'[other] = pool[other]
        BY <1>1, <2>6, <3>3 DEF PoolType
      <4> QED
        BY <1>1, <3>1, <3>3, <4>1 DEF PoolInv, IdsInv, ThreadsInv, Live
    <3> QED
      BY <3>2, <3>3
  <2>9. PoolInv'
    <3>1. {r} \in SUBSET Requests /\ \A request \in {r} : requests'[request] = "done"
      BY <2>4, <2>5
    <3> QED
      BY <1>3, <2>5, <2>7, <2>8, <3>1, PoolShrinks
  <2> QED
    BY <2>4, <2>5, <2>9
<1> QED
  BY <1>5, <1>6

LEMMA InvDie ==
  ASSUME RequestInv, PoolInv, NEW slot \in Slots, Die(slot)
  PROVE  /\ RequestInv' /\ PoolInv'
         /\ \A request \in Requests :
              \/ requests'[request] = requests[request]
              \/ requests[request] # "image" /\ requests'[request] # "image"
<1> SUFFICES ASSUME NEW rejected, rejected = Rejected(slot)
             PROVE  /\ RequestInv' /\ PoolInv'
                    /\ \A request \in Requests :
                         \/ requests'[request] = requests[request]
                         \/ requests[request] # "image" /\ requests'[request] # "image"
  OBVIOUS
<1>1. /\ Settle([request \in rejected |-> "failed"])
      /\ pool' = [pool EXCEPT ![slot] = [Fresh EXCEPT !.state = "dead"]]
      /\ inbox' = [inbox EXCEPT ![slot] = <<>>] /\ outbox' = [outbox EXCEPT ![slot] = <<>>]
      /\ clock' = clock /\ PoolType
  BY DEF Die, PoolInv
<1>2. /\ rejected \in SUBSET Requests
      /\ \A request \in rejected : requests[request] \in {"http", "ws"}
  BY <1>1, ManagerFacts DEF Rejected, PoolInv, ThreadsInv
<1>3. /\ RequestInv' /\ \A request \in rejected : requests'[request] = "done"
      /\ \A request \in Requests \ rejected : requests'[request] = requests[request]
  <2> DEFINE outcomes == [request \in rejected |-> "failed"]
  <2>1. DOMAIN outcomes = rejected /\ \A request \in rejected : outcomes[request] \in {"answered", "failed"}
    OBVIOUS
  <2>2. Settle(outcomes)
    BY <1>1
  <2> HIDE DEF outcomes
  <2> QED
    BY <1>2, <2>1, <2>2, SettleFacts
<1>4. /\ pool' \in [Slots -> Managers]
      /\ DOMAIN pool'[slot].pending = {} /\ pool'[slot].next = 1
      /\ \A other \in Slots \ {slot} : pool'[other] = pool[other]
  <2> DEFINE m == [Fresh EXCEPT !.state = "dead"]
  <2>1. m \in Managers /\ DOMAIN m.pending = {} /\ m.next = 1
    BY FreshType DEF Managers
  <2>2. pool' = [pool EXCEPT ![slot] = m]
    BY <1>1
  <2> HIDE DEF m
  <2> QED
    BY <1>1, <2>1, <2>2 DEF PoolType
<1>5. /\ inbox'[slot] = <<>> /\ outbox'[slot] = <<>>
      /\ \A other \in Slots \ {slot} : inbox'[other] = inbox[other] /\ outbox'[other] = outbox[other]
      /\ inbox' \in [Slots -> Seq(Messages)] /\ outbox' \in [Slots -> Seq(Messages)]
  BY <1>1 DEF PoolType
<1>6. PoolType'
  BY <1>1, <1>4, <1>5 DEF PoolType
<1>7. Range(<<>>) = {}
  BY DEF Range
<1>8. ASSUME NEW other \in Slots
      PROVE  /\ DOMAIN pool'[other].pending
                  = {i \in DOMAIN pool[other].pending : pool[other].pending[i] \notin rejected}
             /\ \A i \in DOMAIN pool'[other].pending : pool'[other].pending[i] = pool[other].pending[i]
             /\ Range(inbox'[other]) \cup Range(outbox'[other])
                  \subseteq Range(inbox[other]) \cup Range(outbox[other])
             /\ \/ pool'[other].next = pool[other].next
                \/ /\ pool'[other].next = 1 /\ DOMAIN pool'[other].pending = {}
                   /\ inbox'[other] = <<>> /\ outbox'[other] = <<>>
             /\ \/ pool'[other].state = "live"
                \/ /\ DOMAIN pool'[other].pending = {}
                   /\ inbox'[other] = <<>> /\ outbox'[other] = <<>>
  <2>1. CASE other = slot
    BY <1>4, <1>5, <1>7, <2>1 DEF Rejected
  <2>2. CASE other # slot
    <3>1. \A i \in DOMAIN pool[other].pending : pool[other].pending[i] \notin rejected
      BY <2>2 DEF Rejected, PoolInv, ThreadsInv
    <3> QED
      BY <1>4, <1>5, <2>2, <3>1 DEF PoolInv, IdsInv, ThreadsInv, Live
  <2> QED
    BY <2>1, <2>2
<1>9. PoolInv'
  BY <1>2, <1>3, <1>6, <1>8, PoolShrinks
<1> QED
  BY <1>2, <1>3, <1>9

LEMMA InvReplace ==
  ASSUME PoolInv, NEW slot \in Slots, Replace(slot)
  PROVE  PoolInv'
<1>1. /\ pool' \in {[pool EXCEPT ![slot] = Fresh], [pool EXCEPT ![slot].state = "gone"]}
      /\ UNCHANGED <<inbox, outbox, clock, requests>> /\ PoolType
      /\ pool[slot] \in Managers /\ pool[slot].state = "dead"
  BY ManagerFacts DEF Replace, PoolInv
<1>2. DOMAIN pool[slot].pending = {} /\ inbox[slot] = <<>> /\ outbox[slot] = <<>>
  BY <1>1 DEF PoolInv, ThreadsInv, Live, IdsInv
<1>3. /\ pool' \in [Slots -> Managers]
      /\ DOMAIN pool'[slot].pending = {} /\ pool'[slot].next \in {1, pool[slot].next}
      /\ \A other \in Slots \ {slot} : pool'[other] = pool[other]
  <2>1. CASE pool' = [pool EXCEPT ![slot] = Fresh]
    BY <1>1, <2>1, FreshType DEF PoolType
  <2>2. CASE pool' = [pool EXCEPT ![slot].state = "gone"]
    BY <1>1, <1>2, <2>2 DEF PoolType, Managers
  <2> QED
    BY <1>1, <2>1, <2>2
<1>4. PoolType'
  BY <1>1, <1>3 DEF PoolType
<1>5. \A other \in Slots : pool[other].state = "live" \/
        /\ DOMAIN pool[other].pending = {} /\ inbox[other] = <<>> /\ outbox[other] = <<>>
  BY DEF PoolInv, IdsInv, ThreadsInv, Live
<1> QED
  <2>1. ASSUME NEW other \in Slots PROVE Keeps(other)
    <3>1. CASE other = slot
      BY <1>1, <1>2, <1>3, <3>1 DEF Keeps
    <3>2. CASE other # slot
      BY <1>1, <1>3, <1>5, <3>2 DEF Keeps
    <3> QED
      BY <3>1, <3>2
  <2> QED
    BY <1>1, <1>4, <2>1, PoolKeeps

---------------------------------------------------------------------------
(* The image cache.                                                        *)

\* What the threads do to their requests is nothing to the image cache.
LEMMA ImageUnmoved ==
  ASSUME ImageInv, UNCHANGED imageVars,
         \A request \in Requests :
           \/ requests'[request] = requests[request]
           \/ requests[request] # "image" /\ requests'[request] # "image"
  PROVE  ImageInv'
<1>1. ImageType' /\ SizesInv' /\ BuildsAreCounted' /\ MediaAreKept'
  BY DEF ImageInv, ImageType, SizesInv, BuildsAreCounted, MediaAreKept, imageVars
<1>2. \A nft \in DOMAIN builds : builds[nft].requests \subseteq Requests
  BY DEF ImageInv, ImageType, Builds
<1>3. BuildsInv'
  BY <1>2 DEF ImageInv, BuildsInv, imageVars
<1> QED
  BY <1>1, <1>3 DEF ImageInv

\* A row that is served becomes the last one.
LEMMA TouchFacts ==
  ASSUME NEW S, NEW rows \in Seq(S), IsInjective(rows), NEW url \in S
  PROVE  /\ Touch(rows, url) \in Seq(S) /\ IsInjective(Touch(rows, url))
         /\ Range(Touch(rows, url)) = Range(rows) \cup {url}
         /\ url \in Range(rows) => Len(Touch(rows, url)) = Len(rows)
<1> DEFINE rest == RemoveFirst(rows, url)
<1>1. /\ rest \in Seq(S) /\ IsInjective(rest) /\ Range(rest) = Range(rows) \ {url}
      /\ Len(rest) = IF url \in Range(rows) THEN Len(rows) - 1 ELSE Len(rows)
      /\ Len(rows) \in Nat
  BY RemoveFirstFacts
<1> HIDE DEF rest
<1>2. /\ Append(rest, url) \in Seq(S) /\ Len(Append(rest, url)) = Len(rest) + 1
      /\ Range(Append(rest, url)) = Range(rest) \cup {url}
      /\ IsInjective(Append(rest, url))
  BY <1>1, AppendFacts
<1> QED
  BY <1>1, <1>2 DEF Touch, rest

\* The rows that are kept are the last ones, and within the limit.
LEMMA KeptFacts ==
  ASSUME NEW S, NEW rows \in Seq(S), IsInjective(rows)
  PROVE  /\ Kept(rows) \in Seq(S) /\ IsInjective(Kept(rows))
         /\ Range(Kept(rows)) \subseteq Range(rows)
         /\ Len(Kept(rows)) * Sizes <= MaxBytes
<1> DEFINE left == ((MaxBytes * 9) \div 10) \div Sizes
<1>1. CASE Len(rows) * Sizes <= MaxBytes
  BY <1>1 DEF Kept
<1>2. CASE ~(Len(rows) * Sizes <= MaxBytes)
  <2>1. left \in Nat /\ left * Sizes <= MaxBytes
    <3> DEFINE x == (MaxBytes * 9) \div 10
    <3>1. x \in Nat /\ x <= MaxBytes
      OBVIOUS
    <3> HIDE DEF x
    <3>2. x \div Sizes \in Nat /\ Sizes * (x \div Sizes) <= x
      BY <3>1
    <3> QED
      BY <3>1, <3>2 DEF x
  <2>2. Kept(rows) = SubSeq(rows, Len(rows) - left + 1, Len(rows))
    BY <1>2 DEF Kept
  <2> HIDE DEF left
  <2>3. left < Len(rows)
    BY <1>2, <2>1
  <2>4. /\ Kept(rows) \in Seq(S) /\ Len(Kept(rows)) = left
        /\ \A i \in 1 .. left : Kept(rows)[i] = rows[i + (Len(rows) - left)]
    BY <2>1, <2>2, <2>3
  <2>5. \A i \in 1 .. left : i + (Len(rows) - left) \in 1 .. Len(rows)
    BY <2>1, <2>3
  <2>6. Range(Kept(rows)) \subseteq Range(rows)
    BY <2>4, <2>5 DEF Range
  <2>7. IsInjective(Kept(rows))
    <3>1. DOMAIN Kept(rows) = 1 .. left /\ DOMAIN rows = 1 .. Len(rows) /\ Len(rows) \in Nat
      BY <2>4
    <3>2. ASSUME NEW i \in 1 .. left, NEW j \in 1 .. left, Kept(rows)[i] = Kept(rows)[j]
          PROVE  i = j
      <4>1. rows[i + (Len(rows) - left)] = rows[j + (Len(rows) - left)]
        BY <2>4, <3>2
      <4>2. i + (Len(rows) - left) = j + (Len(rows) - left)
        BY <2>5, <3>1, <4>1 DEF IsInjective
      <4> QED
        BY <2>1, <3>1, <4>2
    <3> QED
      BY <3>1, <3>2 DEF IsInjective
  <2> QED
    BY <2>1, <2>4, <2>6, <2>7
<1> QED
  BY <1>1, <1>2

\* Serving a row keeps what the image cache has.
LEMMA MediaServed ==
  ASSUME ImageInv, NEW url \in Range(media), media' = Touch(media, url), UNCHANGED <<files, torn>>
  PROVE  /\ media' \in Seq(Images \cup {Unknown}) /\ IsInjective(media')
         /\ MediaAreKept'
<1>1. media \in Seq(Images \cup {Unknown}) /\ IsInjective(media)
  BY DEF ImageInv, ImageType
<1>2. url \in Images \cup {Unknown}
  BY <1>1 DEF Range
<1>3. /\ media' \in Seq(Images \cup {Unknown}) /\ IsInjective(media')
      /\ Range(media') = Range(media) /\ Len(media') = Len(media)
  <2> DEFINE S == Images \cup {Unknown}
  <2>1. media \in Seq(S) /\ url \in S /\ IsInjective(media)
    BY <1>1, <1>2
  <2> HIDE DEF S
  <2>2. /\ Touch(media, url) \in Seq(S) /\ IsInjective(Touch(media, url))
        /\ Range(Touch(media, url)) = Range(media) \cup {url}
        /\ Len(Touch(media, url)) = Len(media)
    BY <2>1, TouchFacts
  <2> QED
    BY <2>2 DEF S
<1> QED
  BY <1>3 DEF ImageInv, MediaAreKept

\* A build ends: its requests are done, and it is no longer counted.
LEMMA EndBuildFacts ==
  ASSUME RequestInv, ImageInv, NEW nft \in DOMAIN builds,
         NEW outcome \in {"answered", "failed"}, EndBuild(nft, outcome)
  PROVE  /\ RequestInv'
         /\ \A request \in Requests :
              \/ requests'[request] = requests[request]
              \/ requests[request] = "image" /\ requests'[request] = "done"
         /\ DOMAIN builds' = DOMAIN builds \ {nft}
         /\ \A other \in DOMAIN builds' : builds'[other] = builds[other]
         /\ IsFiniteSet(DOMAIN builds') /\ builds' \in [DOMAIN builds' -> Builds]
         /\ BuildsInv' /\ BuildsAreCounted'
<1> SUFFICES ASSUME NEW settled, settled = builds[nft].requests
             PROVE  /\ RequestInv'
                    /\ \A request \in Requests :
                         \/ requests'[request] = requests[request]
                         \/ requests[request] = "image" /\ requests'[request] = "done"
                    /\ DOMAIN builds' = DOMAIN builds \ {nft}
                    /\ \A other \in DOMAIN builds' : builds'[other] = builds[other]
                    /\ IsFiniteSet(DOMAIN builds') /\ builds' \in [DOMAIN builds' -> Builds]
                    /\ BuildsInv' /\ BuildsAreCounted'
  OBVIOUS
<1>1. /\ Settle([request \in settled |-> outcome])
      /\ builds' = Restrict(builds, DOMAIN builds \ {nft}) /\ active' = active - 1
  BY DEF EndBuild
<1>2. /\ settled \in SUBSET Requests /\ \A request \in settled : requests[request] = "image"
      /\ builds \in [DOMAIN builds -> Builds] /\ IsFiniteSet(DOMAIN builds)
      /\ \A other \in DOMAIN builds : builds[other].requests \subseteq Requests
  BY DEF ImageInv, ImageType, BuildsInv, Builds
<1>3. /\ RequestInv' /\ \A request \in settled : requests'[request] = "done"
      /\ \A request \in Requests \ settled : requests'[request] = requests[request]
  <2> DEFINE outcomes == [request \in settled |-> outcome]
  <2>1. DOMAIN outcomes = settled /\ \A request \in settled : outcomes[request] \in {"answered", "failed"}
    OBVIOUS
  <2>2. Settle(outcomes)
    BY <1>1
  <2> HIDE DEF outcomes
  <2> QED
    BY <1>2, <2>1, <2>2, SettleFacts
<1>4. /\ DOMAIN builds' = DOMAIN builds \ {nft}
      /\ \A other \in DOMAIN builds' : builds'[other] = builds[other]
      /\ builds' \in [DOMAIN builds' -> Builds]
  BY <1>1, <1>2 DEF Restrict
<1>5. IsFiniteSet(DOMAIN builds') /\ Cardinality(DOMAIN builds') = Cardinality(DOMAIN builds) - 1
  BY <1>2, <1>4, FS_RemoveElement
<1>6. BuildsAreCounted'
  <2>1. active = Cardinality(DOMAIN builds) /\ active <= Concurrency /\ Cardinality(DOMAIN builds) \in Nat
    BY <1>2, FS_CardinalityType DEF ImageInv, BuildsAreCounted
  <2> QED
    BY <1>1, <1>5, <2>1 DEF BuildsAreCounted
<1>7. BuildsInv'
  <2>1. ASSUME NEW other \in DOMAIN builds', NEW request \in builds'[other].requests
        PROVE  requests'[request] = "image"
    <3>1. other # nft /\ request \in builds[other].requests /\ other \in DOMAIN builds
      BY <1>4, <2>1
    <3>2. request \notin settled /\ request \in Requests
      BY <1>2, <3>1 DEF ImageInv, BuildsInv
    <3> QED
      BY <1>3, <3>1, <3>2 DEF ImageInv, BuildsInv
  <2>2. ASSUME NEW one \in DOMAIN builds', NEW other \in DOMAIN builds',
               builds'[one].requests \cap builds'[other].requests # {}
        PROVE  one = other
    BY <1>4, <2>2 DEF ImageInv, BuildsInv
  <2>3. ASSUME NEW request \in Requests, requests'[request] = "image"
        PROVE  \E other \in DOMAIN builds' : request \in builds'[other].requests
    <3>1. request \notin settled /\ requests[request] = "image"
      BY <1>3, <2>3
    <3>2. PICK other \in DOMAIN builds : request \in builds[other].requests
      BY <3>1 DEF ImageInv, BuildsInv
    <3> QED
      BY <1>4, <3>1, <3>2
  <2> QED
    BY <2>1, <2>2, <2>3 DEF BuildsInv
<1> QED
  BY <1>2, <1>3, <1>4, <1>5, <1>6, <1>7

\* A build begins, or one goes on with the requests that it has.
LEMMA StartedFacts ==
  ASSUME ImageInv, NEW nft \in NFTs, NEW phase \in {"enrich", "fetch"},
         NEW url \in Images \cup {Unknown}, NEW waiting \in SUBSET Requests,
         Started(nft, phase, url, waiting)
  PROVE  /\ DOMAIN builds' = DOMAIN builds \cup {nft} /\ DOMAIN builds' \subseteq NFTs
         /\ IsFiniteSet(DOMAIN builds') /\ builds' \in [DOMAIN builds' -> Builds]
         /\ Cardinality(DOMAIN builds')
              = IF nft \in DOMAIN builds THEN Cardinality(DOMAIN builds) ELSE Cardinality(DOMAIN builds) + 1
         /\ builds'[nft].requests = waiting
         /\ builds'[nft].phase # "resize" /\ builds'[nft].size = 1
         /\ \A other \in DOMAIN builds \ {nft} : builds'[other] = builds[other]
<1> DEFINE build == [phase |-> phase, url |-> url, size |-> 1, requests |-> waiting]
<1>1. build \in Builds /\ build.requests = waiting /\ build.phase # "resize" /\ build.size = 1
  BY DEF Builds
<1>2. builds' = [n \in DOMAIN builds \cup {nft} |-> IF n = nft THEN build ELSE builds[n]]
  BY DEF Started
<1> HIDE DEF build
<1>3. builds \in [DOMAIN builds -> Builds] /\ IsFiniteSet(DOMAIN builds) /\ DOMAIN builds \subseteq NFTs
  BY DEF ImageInv, ImageType
<1>4. DOMAIN builds' = DOMAIN builds \cup {nft}
  BY <1>2
<1>5. IsFiniteSet(DOMAIN builds') /\ Cardinality(DOMAIN builds')
        = IF nft \in DOMAIN builds THEN Cardinality(DOMAIN builds) ELSE Cardinality(DOMAIN builds) + 1
  BY <1>3, <1>4, FS_AddElement
<1> QED
  BY <1>1, <1>2, <1>3, <1>4, <1>5

LEMMA InvJoin ==
  ASSUME RequestInv, ImageInv, NEW request \in Requests, NEW nft \in NFTs,
         Comes(request), Join(request, nft)
  PROVE  ImageInv'
<1>1. /\ requests[request] = "new" /\ requests'[request] = "image"
      /\ \A other \in Requests \ {request} : requests'[other] = requests[other]
  BY AwaitFacts DEF Join, Kinds
<1>2. /\ nft \in DOMAIN builds /\ builds \in [DOMAIN builds -> Builds]
      /\ builds' = [builds EXCEPT ![nft].requests = @ \cup {request}]
      /\ UNCHANGED <<meta, media, files, active, torn>>
  BY DEF Join, ImageInv, ImageType
<1>3. /\ DOMAIN builds' = DOMAIN builds /\ builds' \in [DOMAIN builds -> Builds]
      /\ builds'[nft].requests = builds[nft].requests \cup {request}
      /\ builds'[nft].phase = builds[nft].phase /\ builds'[nft].size = builds[nft].size
      /\ builds'[nft].url = builds[nft].url
      /\ \A other \in DOMAIN builds \ {nft} : builds'[other] = builds[other]
  BY <1>2 DEF Builds
<1>4. ImageType' /\ BuildsAreCounted' /\ MediaAreKept' /\ SizesInv'
  <2>1. ImageType' /\ BuildsAreCounted' /\ MediaAreKept'
    BY <1>2, <1>3 DEF ImageInv, ImageType, BuildsAreCounted, MediaAreKept
  <2>2. ASSUME NEW other \in DOMAIN builds
        PROVE  /\ builds'[other].phase = builds[other].phase /\ builds'[other].size = builds[other].size
               /\ builds'[other].url = builds[other].url
    BY <1>3
  <2>3. SizesInv'
    BY <1>2, <1>3, <2>2 DEF ImageInv, SizesInv
  <2> QED
    BY <2>1, <2>3
<1>5. BuildsInv'
  <2>1. \A other \in DOMAIN builds : request \notin builds[other].requests
    BY <1>1 DEF ImageInv, BuildsInv
  <2>2. \A other \in DOMAIN builds : builds[other].requests \subseteq Requests
    BY <1>2 DEF Builds
  <2>3. ASSUME NEW one \in DOMAIN builds, NEW other \in DOMAIN builds, NEW r \in builds'[one].requests,
               r \in builds'[other].requests
        PROVE  one = other /\ requests'[r] = "image"
    <3>1. CASE r = request
      BY <1>1, <1>3, <2>1, <2>3, <3>1
    <3>2. CASE r # request
      <4>1. r \in builds[one].requests /\ r \in builds[other].requests /\ r \in Requests
        BY <1>3, <2>2, <2>3, <3>2
      <4>2. one = other /\ requests[r] = "image"
        BY <4>1 DEF ImageInv, BuildsInv
      <4> QED
        BY <1>1, <3>2, <4>1, <4>2
    <3> QED
      BY <3>1, <3>2
  <2>4. ASSUME NEW r \in Requests, requests'[r] = "image"
        PROVE  \E other \in DOMAIN builds : r \in builds'[other].requests
    <3>1. CASE r = request
      BY <1>2, <1>3, <3>1
    <3>2. CASE r # request
      BY <1>1, <1>3, <2>4, <3>2 DEF ImageInv, BuildsInv
    <3> QED
      BY <3>1, <3>2
  <2> QED
    BY <1>3, <2>3, <2>4 DEF BuildsInv
<1> QED
  BY <1>4, <1>5 DEF ImageInv

\* A build that begins is the only place of its request.
LEMMA InvStarted ==
  ASSUME RequestInv, ImageInv, NEW request \in Requests, NEW nft \in NFTs, nft \notin DOMAIN builds,
         Comes(request), Await(request, "image"), active < Concurrency,
         NEW phase \in {"enrich", "fetch"}, NEW url \in Images \cup {Unknown},
         Started(nft, phase, url, {request}),
         active' = active + 1, UNCHANGED <<meta, media, files, torn>>
  PROVE  ImageInv'
<1>1. /\ requests[request] = "new" /\ requests'[request] = "image"
      /\ \A other \in Requests \ {request} : requests'[other] = requests[other]
  BY AwaitFacts DEF Kinds
<1>2. /\ DOMAIN builds' = DOMAIN builds \cup {nft} /\ DOMAIN builds' \subseteq NFTs
      /\ IsFiniteSet(DOMAIN builds') /\ builds' \in [DOMAIN builds' -> Builds]
      /\ Cardinality(DOMAIN builds') = Cardinality(DOMAIN builds) + 1
      /\ builds'[nft].requests = {request}
      /\ builds'[nft].phase # "resize" /\ builds'[nft].size = 1
      /\ \A other \in DOMAIN builds \ {nft} : builds'[other] = builds[other]
  <2> DEFINE waiting == {request}
  <2>1. waiting \in SUBSET Requests /\ Started(nft, phase, url, waiting)
    OBVIOUS
  <2> HIDE DEF waiting
  <2>2. /\ DOMAIN builds' = DOMAIN builds \cup {nft} /\ DOMAIN builds' \subseteq NFTs
        /\ IsFiniteSet(DOMAIN builds') /\ builds' \in [DOMAIN builds' -> Builds]
        /\ Cardinality(DOMAIN builds') = Cardinality(DOMAIN builds) + 1
        /\ builds'[nft].requests = waiting
        /\ builds'[nft].phase # "resize" /\ builds'[nft].size = 1
        /\ \A other \in DOMAIN builds \ {nft} : builds'[other] = builds[other]
    BY <2>1, StartedFacts
  <2> QED
    BY <2>2 DEF waiting
<1>3. ImageType' /\ MediaAreKept'
  BY <1>2 DEF ImageInv, ImageType, MediaAreKept
<1>4. BuildsAreCounted'
  <2>1. active = Cardinality(DOMAIN builds) /\ Cardinality(DOMAIN builds) \in Nat
    BY FS_CardinalityType DEF ImageInv, ImageType, BuildsAreCounted
  <2> QED
    BY <1>2, <2>1 DEF BuildsAreCounted
<1>5. SizesInv'
  BY <1>2 DEF ImageInv, SizesInv
<1>6. BuildsInv'
  <2>1. \A other \in DOMAIN builds : request \notin builds[other].requests /\ builds[other].requests \subseteq Requests
    BY <1>1 DEF ImageInv, ImageType, Builds, BuildsInv
  <2>2. ASSUME NEW one \in DOMAIN builds', NEW other \in DOMAIN builds', NEW r \in builds'[one].requests,
               r \in builds'[other].requests
        PROVE  one = other /\ requests'[r] = "image"
    <3>1. CASE r = request
      BY <1>1, <1>2, <2>1, <2>2, <3>1
    <3>2. CASE r # request
      <4>1. r \in builds[one].requests /\ r \in builds[other].requests /\ r \in Requests
            /\ one \in DOMAIN builds /\ other \in DOMAIN builds
        BY <1>2, <2>1, <2>2, <3>2
      <4>2. one = other /\ requests[r] = "image"
        BY <4>1 DEF ImageInv, BuildsInv
      <4> QED
        BY <1>1, <3>2, <4>1, <4>2
    <3> QED
      BY <3>1, <3>2
  <2>3. ASSUME NEW r \in Requests, requests'[r] = "image"
        PROVE  \E other \in DOMAIN builds' : r \in builds'[other].requests
    <3>1. CASE r = request
      BY <1>2, <3>1
    <3>2. CASE r # request
      <4>1. PICK other \in DOMAIN builds : r \in builds[other].requests
        BY <1>1, <2>3, <3>2 DEF ImageInv, BuildsInv
      <4> QED
        BY <1>2, <4>1
    <3> QED
      BY <3>1, <3>2
  <2> QED
    BY <2>2, <2>3 DEF BuildsInv
<1> QED
  BY <1>3, <1>4, <1>5, <1>6 DEF ImageInv

LEMMA InvBegin ==
  ASSUME RequestInv, ImageInv, NEW request \in Requests, NEW nft \in NFTs,
         Comes(request), Begin(request, nft)
  PROVE  /\ RequestInv' /\ ImageInv'
         /\ requests[request] = "new" /\ requests'[request] \in {"image", "done"}
         /\ \A other \in Requests \ {request} : requests'[other] = requests[other]
<1> SUFFICES ASSUME NEW url, url = meta[nft]
             PROVE  /\ RequestInv' /\ ImageInv'
                    /\ requests[request] = "new" /\ requests'[request] \in {"image", "done"}
                    /\ \A other \in Requests \ {request} : requests'[other] = requests[other]
  OBVIOUS
<1>0. /\ nft \notin DOMAIN builds /\ active < Concurrency
      /\ UNCHANGED <<meta, files, torn>>
      /\ url \in Images \cup {Unknown} /\ NoImage \in Images \cup {Unknown}
  BY DEF Begin, ImageInv, ImageType, Images
<1>1. CASE /\ Await(request, "image") /\ Started(nft, "enrich", NoImage, {request})
           /\ active' = active + 1 /\ UNCHANGED media
  <2>1. ImageInv'
    BY <1>0, <1>1, InvStarted
  <2> QED
    BY <1>1, <2>1, AwaitFacts DEF Kinds
<1>2. CASE Answer(request) /\ UNCHANGED <<builds, active, media>>
  <2>1. UNCHANGED imageVars
    BY <1>2 DEF Begin, imageVars
  <2>2. /\ RequestInv' /\ requests[request] = "new" /\ requests'[request] = "done"
        /\ \A other \in Requests \ {request} : requests'[other] = requests[other]
    BY <1>2, AnswerFacts
  <2>3. ImageInv'
    BY <2>1, <2>2, ImageUnmoved
  <2> QED
    BY <2>2, <2>3
<1>3. CASE /\ Answer(request) /\ Known(url) = "found" /\ media' = Touch(media, url)
           /\ UNCHANGED <<builds, active>>
  <2>1. url \in Range(media)
    BY <1>3 DEF Known
  <2>2. /\ media' \in Seq(Images \cup {Unknown}) /\ IsInjective(media') /\ MediaAreKept'
    BY <1>0, <1>3, <2>1, MediaServed
  <2>3. /\ RequestInv' /\ requests[request] = "new" /\ requests'[request] = "done"
        /\ \A other \in Requests \ {request} : requests'[other] = requests[other]
    BY <1>3, AnswerFacts
  <2>4. ImageType' /\ SizesInv' /\ BuildsAreCounted'
    BY <1>0, <1>3, <2>2 DEF ImageInv, ImageType, SizesInv, BuildsAreCounted
  <2>5. BuildsInv'
    <3>1. \A other \in DOMAIN builds : builds[other].requests \subseteq Requests
      BY DEF ImageInv, ImageType, Builds
    <3>2. \A r \in Requests : requests'[r] = "image" <=> requests[r] = "image"
      BY <2>3
    <3> QED
      BY <1>3, <3>1, <3>2 DEF ImageInv, BuildsInv
  <2> QED
    BY <2>2, <2>3, <2>4, <2>5 DEF ImageInv
<1>4. CASE /\ Await(request, "image") /\ Started(nft, "fetch", url, {request})
           /\ active' = active + 1 /\ UNCHANGED media
  <2>1. ImageInv'
    BY <1>0, <1>4, InvStarted
  <2> QED
    BY <1>4, <2>1, AwaitFacts DEF Kinds
<1> QED
  BY <1>1, <1>2, <1>3, <1>4 DEF Begin

\* A build ends, whatever it does to the rows and the files of the cache, as
\* long as the other builds keep what they have written.
LEMMA InvEnded ==
  ASSUME RequestInv, ImageInv, NEW nft \in DOMAIN builds,
         NEW outcome \in {"answered", "failed"}, EndBuild(nft, outcome),
         meta' \in [NFTs -> Images \cup {Unknown}],
         media' \in Seq(Images \cup {Unknown}), IsInjective(media'), MediaAreKept',
         torn \subseteq torn',
         \A other \in DOMAIN builds \ {nft} : \A size \in 1 .. Sizes :
           builds[other].phase = "resize" /\ builds[other].url \notin torn'
             /\ <<builds[other].url, size>> \in files => <<builds[other].url, size>> \in files'
  PROVE  /\ RequestInv' /\ ImageInv'
         /\ \A request \in Requests :
              \/ requests'[request] = requests[request]
              \/ requests[request] = "image" /\ requests'[request] = "done"
<1>1. /\ RequestInv'
      /\ \A request \in Requests :
           \/ requests'[request] = requests[request]
           \/ requests[request] = "image" /\ requests'[request] = "done"
      /\ DOMAIN builds' = DOMAIN builds \ {nft}
      /\ \A other \in DOMAIN builds' : builds'[other] = builds[other]
      /\ IsFiniteSet(DOMAIN builds') /\ builds' \in [DOMAIN builds' -> Builds]
      /\ BuildsInv' /\ BuildsAreCounted'
  BY EndBuildFacts
<1>2. ImageType'
  BY <1>1 DEF ImageInv, ImageType
<1>3. SizesInv'
  <2>1. ASSUME NEW other \in DOMAIN builds'
        PROVE  /\ builds'[other].phase # "resize" => builds'[other].size = 1
               /\ builds'[other].phase = "resize" /\ builds'[other].url \notin torn' =>
                    \A size \in 1 .. builds'[other].size - 1 : <<builds'[other].url, size>> \in files'
    <3>1. other \in DOMAIN builds \ {nft} /\ builds'[other] = builds[other]
      BY <1>1
    <3>2. builds[other].size \in 1 .. Sizes
      BY <3>1 DEF ImageInv, ImageType, Builds
    <3>3. \A size \in 1 .. builds[other].size - 1 : size \in 1 .. Sizes
      BY <3>2
    <3> QED
      BY <3>1, <3>3 DEF ImageInv, SizesInv
  <2> QED
    BY <2>1 DEF SizesInv
<1> QED
  BY <1>1, <1>2, <1>3 DEF ImageInv

\* What enriching an NFT makes of what is known of it.
LEMMA EnrichedFacts ==
  ASSUME ImageInv, NEW nft \in NFTs, Enriched(nft)
  PROVE  meta' \in [NFTs -> Images \cup {Unknown}] /\ meta'[nft] \in Images \cup {Unknown}
<1>1. meta \in [NFTs -> Images \cup {Unknown}] /\ ImageOf[nft] \in Images /\ NoImage \in Images
  BY DEF ImageInv, ImageType, Images
<1>2. \E image \in Images \cup {Unknown} : meta' = [meta EXCEPT ![nft] = image]
  <2>1. CASE meta' = [meta EXCEPT ![nft] = ImageOf[nft]]
    BY <1>1, <2>1
  <2>2. CASE meta' = [meta EXCEPT ![nft] = IF @ = Unknown THEN NoImage ELSE @]
    BY <1>1, <2>2
  <2> QED
    BY <2>1, <2>2 DEF Enriched
<1> QED
  BY <1>1, <1>2

LEMMA InvResume ==
  ASSUME RequestInv, ImageInv, NEW nft \in NFTs, Resume(nft)
  PROVE  /\ RequestInv' /\ ImageInv'
         /\ \A request \in Requests :
              \/ requests'[request] = requests[request]
              \/ requests[request] = "image" /\ requests'[request] = "done"
<1> SUFFICES ASSUME NEW url, url = meta'[nft], NEW waiting, waiting = builds[nft].requests
             PROVE  /\ RequestInv' /\ ImageInv'
                    /\ \A request \in Requests :
                         \/ requests'[request] = requests[request]
                         \/ requests[request] = "image" /\ requests'[request] = "done"
  OBVIOUS
<1>1. /\ nft \in DOMAIN builds /\ UNCHANGED <<files, torn>>
      /\ meta' \in [NFTs -> Images \cup {Unknown}] /\ url \in Images \cup {Unknown}
      /\ media \in Seq(Images \cup {Unknown}) /\ IsInjective(media)
  BY EnrichedFacts DEF Resume, ImageInv, ImageType
<1>2. CASE EndBuild(nft, "answered") /\ UNCHANGED media
  <2>1. MediaAreKept'
    BY <1>1, <1>2 DEF ImageInv, MediaAreKept
  <2> QED
    BY <1>1, <1>2, <2>1, InvEnded
<1>3. CASE EndBuild(nft, "answered") /\ Known(url) = "found" /\ media' = Touch(media, url)
  <2>1. url \in Range(media)
    BY <1>3 DEF Known
  <2>2. media' \in Seq(Images \cup {Unknown}) /\ IsInjective(media') /\ MediaAreKept'
    BY <1>1, <1>3, <2>1, MediaServed
  <2> QED
    BY <1>1, <1>3, <2>2, InvEnded
<1>4. CASE Started(nft, "fetch", url, waiting) /\ UNCHANGED <<media, active, requests, load>>
  <2>1. waiting \in SUBSET Requests
    BY <1>1 DEF ImageInv, ImageType, Builds
  <2>2. /\ DOMAIN builds' = DOMAIN builds /\ DOMAIN builds' \subseteq NFTs
        /\ IsFiniteSet(DOMAIN builds') /\ builds' \in [DOMAIN builds' -> Builds]
        /\ builds'[nft].requests = waiting
        /\ builds'[nft].phase # "resize" /\ builds'[nft].size = 1
        /\ \A other \in DOMAIN builds \ {nft} : builds'[other] = builds[other]
    BY <1>1, <1>4, <2>1, StartedFacts
  <2>3. \A other \in DOMAIN builds : builds'[other].requests = builds[other].requests
    BY <2>2
  <2>4. ImageType' /\ BuildsAreCounted' /\ MediaAreKept'
    BY <1>1, <1>4, <2>2 DEF ImageInv, ImageType, BuildsAreCounted, MediaAreKept
  <2>5. BuildsInv'
    BY <1>4, <2>2, <2>3 DEF ImageInv, BuildsInv
  <2>6. SizesInv'
    BY <1>1, <2>2 DEF ImageInv, SizesInv
  <2>7. RequestInv'
    BY <1>4 DEF RequestInv, RequestType, LoadIsExact
  <2> QED
    BY <1>4, <2>4, <2>5, <2>6, <2>7 DEF ImageInv
<1> QED
  BY <1>2, <1>3, <1>4 DEF Resume

\* A build goes on by itself.
LEMMA InvAdvanced ==
  ASSUME ImageInv, NEW nft \in DOMAIN builds, UNCHANGED <<meta, media, active, torn, requests>>,
         NEW build \in Builds, builds' = [builds EXCEPT ![nft] = build],
         build.requests = builds[nft].requests, build.url = builds[nft].url, build.phase = "resize",
         files \subseteq files',
         build.url \notin torn => \A size \in 1 .. build.size - 1 : <<build.url, size>> \in files'
  PROVE  ImageInv'
<1>1. /\ DOMAIN builds' = DOMAIN builds /\ builds'[nft] = build /\ builds' \in [DOMAIN builds -> Builds]
      /\ \A other \in DOMAIN builds \ {nft} : builds'[other] = builds[other]
  BY DEF ImageInv, ImageType
<1>2. \A other \in DOMAIN builds : builds'[other].requests = builds[other].requests
  BY <1>1
<1>3. ImageType' /\ BuildsAreCounted' /\ MediaAreKept'
  BY <1>1 DEF ImageInv, ImageType, BuildsAreCounted, MediaAreKept
<1>4. BuildsInv'
  BY <1>1, <1>2 DEF ImageInv, BuildsInv
<1>5. SizesInv'
  BY <1>1 DEF ImageInv, SizesInv
<1> QED
  BY <1>3, <1>4, <1>5 DEF ImageInv

LEMMA InvFetched ==
  ASSUME RequestInv, ImageInv, NEW nft \in NFTs, Fetched(nft)
  PROVE  RequestInv' /\ ImageInv'
<1> SUFFICES ASSUME NEW build, build = [builds[nft] EXCEPT !.phase = "resize"]
             PROVE  RequestInv' /\ ImageInv'
  OBVIOUS
<1>1. /\ nft \in DOMAIN builds /\ builds[nft] \in Builds /\ builds[nft].size = 1
      /\ builds' = [builds EXCEPT ![nft] = build]
      /\ UNCHANGED <<meta, media, files, active, torn, requests, load>>
  BY DEF Fetched, ImageInv, ImageType, SizesInv
<1>2. /\ build \in Builds /\ build.requests = builds[nft].requests /\ build.url = builds[nft].url
      /\ build.phase = "resize" /\ build.size = 1
  BY <1>1 DEF Builds
<1>3. \A size \in 1 .. build.size - 1 : <<build.url, size>> \in files'
  BY <1>2
<1>4. ImageInv'
  BY <1>1, <1>2, <1>3, InvAdvanced
<1> QED
  BY <1>1, <1>4 DEF RequestInv, RequestType, LoadIsExact

LEMMA InvResized ==
  ASSUME RequestInv, ImageInv, NEW nft \in NFTs, Resized(nft)
  PROVE  /\ RequestInv' /\ ImageInv'
         /\ \A request \in Requests :
              \/ requests'[request] = requests[request]
              \/ requests[request] = "image" /\ requests'[request] = "done"
<1> SUFFICES ASSUME NEW build, build = builds[nft], NEW url, url = build.url
             PROVE  /\ RequestInv' /\ ImageInv'
                    /\ \A request \in Requests :
                         \/ requests'[request] = requests[request]
                         \/ requests[request] = "image" /\ requests'[request] = "done"
  OBVIOUS
<1>1. /\ nft \in DOMAIN builds /\ build \in Builds /\ build.phase = "resize"
      /\ url \in Images \cup {Unknown} /\ build.size \in 1 .. Sizes
      /\ UNCHANGED meta /\ meta \in [NFTs -> Images \cup {Unknown}]
      /\ media \in Seq(Images \cup {Unknown}) /\ IsInjective(media)
  BY DEF Resized, ImageInv, ImageType, Builds
<1>2. url \notin torn => \A size \in 1 .. build.size - 1 : <<url, size>> \in files
  BY <1>1 DEF ImageInv, SizesInv
<1>3. CASE build.size = Sizes
  <2> SUFFICES ASSUME NEW rows, rows = Touch(media, url), NEW gone, gone = Evicted(rows)
               PROVE  /\ RequestInv' /\ ImageInv'
                      /\ \A request \in Requests :
                           \/ requests'[request] = requests[request]
                           \/ requests[request] = "image" /\ requests'[request] = "done"
    OBVIOUS
  <2>1. /\ media' = Kept(rows)
        /\ files' = {file \in files \cup {<<url, Sizes>>} : file[1] \notin gone}
        /\ torn' = torn \cup {u \in gone :
                     \E other \in DOMAIN builds : builds[other].phase = "resize" /\ builds[other].url = u}
        /\ EndBuild(nft, "answered")
    BY <1>3 DEF Resized, Insert
  <2>2. /\ Range(rows) = Range(media) \cup {url}
        /\ media' \in Seq(Images \cup {Unknown}) /\ IsInjective(media')
        /\ Range(media') \subseteq Range(rows) /\ Len(media') * Sizes <= MaxBytes
        /\ Range(media') \cap gone = {}
    <3> DEFINE S == Images \cup {Unknown}
    <3>1. media \in Seq(S) /\ IsInjective(media) /\ url \in S
      BY <1>1
    <3> HIDE DEF S
    <3>2. rows \in Seq(S) /\ IsInjective(rows) /\ Range(rows) = Range(media) \cup {url}
      BY <3>1, TouchFacts
    <3>3. /\ Kept(rows) \in Seq(S) /\ IsInjective(Kept(rows)) /\ Range(Kept(rows)) \subseteq Range(rows)
          /\ Len(Kept(rows)) * Sizes <= MaxBytes
      BY <3>2, KeptFacts
    <3> QED
      BY <2>1, <3>2, <3>3 DEF S, Evicted
  <2>3. ASSUME NEW u, NEW size, u \notin gone, <<u, size>> \in files \/ (u = url /\ size = Sizes)
        PROVE  <<u, size>> \in files'
    <3>1. <<u, size>>[1] = u
      OBVIOUS
    <3> QED
      BY <2>1, <2>3, <3>1
  <2>4. MediaAreKept'
    <3>1. ASSUME NEW u \in Range(media') \ torn', NEW size \in 1 .. Sizes
          PROVE  <<u, size>> \in files'
      <4>1. u \in Range(media) \cup {url} /\ u \notin gone /\ u \notin torn
        BY <2>1, <2>2
      <4>2. CASE u = url
        <5>1. size \in 1 .. build.size - 1 \/ size = Sizes
          BY <1>3
        <5> QED
          BY <1>2, <2>3, <4>1, <4>2, <5>1
      <4>3. CASE u \in Range(media)
        BY <2>3, <4>1, <4>3 DEF ImageInv, MediaAreKept
      <4> QED
        BY <4>1, <4>2, <4>3
    <3> QED
      BY <2>2, <3>1 DEF MediaAreKept
  <2>5. \A other \in DOMAIN builds \ {nft} : \A size \in 1 .. Sizes :
          builds[other].phase = "resize" /\ builds[other].url \notin torn'
            /\ <<builds[other].url, size>> \in files => <<builds[other].url, size>> \in files'
    BY <2>1, <2>3
  <2> QED
    BY <1>1, <2>1, <2>2, <2>4, <2>5, InvEnded
<1>4. CASE build.size # Sizes
  <2> SUFFICES ASSUME NEW next, next = [build EXCEPT !.size = @ + 1]
               PROVE  /\ RequestInv' /\ ImageInv'
                      /\ \A request \in Requests :
                           \/ requests'[request] = requests[request]
                           \/ requests[request] = "image" /\ requests'[request] = "done"
    OBVIOUS
  <2>1. /\ files' = files \cup {<<url, build.size>>}
        /\ builds' = [builds EXCEPT ![nft] = next]
        /\ UNCHANGED <<meta, media, active, torn, requests, load>>
    <3>1. builds' = [builds EXCEPT ![nft].size = @ + 1]
      BY <1>4 DEF Resized
    <3>2. builds' = [builds EXCEPT ![nft] = next]
      BY <3>1
    <3> QED
      BY <1>4, <3>2 DEF Resized
  <2>2. /\ next \in Builds /\ next.requests = build.requests /\ next.url = url
        /\ next.phase = "resize" /\ next.size = build.size + 1
    BY <1>1, <1>4 DEF Builds
  <2>3. url \notin torn => \A size \in 1 .. next.size - 1 : <<url, size>> \in files'
    <3>1. \A size \in 1 .. next.size - 1 : size \in 1 .. build.size - 1 \/ size = build.size
      BY <1>1, <2>2
    <3> QED
      BY <1>2, <2>1, <3>1
  <2>4. ImageInv'
    BY <1>1, <2>1, <2>2, <2>3, InvAdvanced
  <2> QED
    BY <2>1, <2>4 DEF RequestInv, RequestType, LoadIsExact
<1> QED
  BY <1>3, <1>4

LEMMA InvImageStep ==
  ASSUME RequestInv, ImageInv, ImageNext
  PROVE  /\ RequestInv' /\ ImageInv'
         /\ \A request \in Requests :
              \/ requests'[request] = requests[request]
              \/ requests[request] = "image" /\ requests'[request] = "done"
<1>1. PICK nft \in NFTs : Resume(nft) \/ Fetched(nft) \/ Resized(nft) \/ BuildFails(nft) \/ Sampled(nft)
  BY DEF ImageNext
<1>2. CASE Resume(nft)
  BY <1>2, InvResume
<1>3. CASE Fetched(nft)
  BY <1>3, InvFetched DEF Fetched
<1>4. CASE Resized(nft)
  BY <1>4, InvResized
<1>5. CASE BuildFails(nft)
  <2>1. /\ nft \in DOMAIN builds /\ EndBuild(nft, "failed")
        /\ UNCHANGED <<meta, media, files, torn>>
    BY <1>5 DEF BuildFails
  <2>2. /\ MediaAreKept' /\ meta' \in [NFTs -> Images \cup {Unknown}]
        /\ media' \in Seq(Images \cup {Unknown}) /\ IsInjective(media')
    BY <2>1 DEF ImageInv, MediaAreKept, ImageType
  <2> QED
    BY <2>1, <2>2, InvEnded
<1>6. CASE Sampled(nft)
  <2>1. UNCHANGED <<media, files, builds, active, torn, requests, load>>
    BY <1>6 DEF Sampled
  <2>2. meta' \in [NFTs -> Images \cup {Unknown}]
    BY <1>6, EnrichedFacts DEF Sampled
  <2>3. ImageInv'
    BY <2>1, <2>2 DEF ImageInv, ImageType, BuildsInv, SizesInv, BuildsAreCounted, MediaAreKept
  <2> QED
    BY <2>1, <2>3 DEF RequestInv, RequestType, LoadIsExact
<1> QED
  BY <1>1, <1>2, <1>3, <1>4, <1>5, <1>6

---------------------------------------------------------------------------
(* Both together.                                                          *)

LEMMA InvPoolStep ==
  ASSUME RequestInv, PoolInv, PoolNext
  PROVE  /\ RequestInv' /\ PoolInv'
         /\ \A request \in Requests :
              \/ requests'[request] = requests[request]
              \/ requests[request] # "image" /\ requests'[request] # "image"
<1>1. PICK slot \in Slots : Work(slot) \/ Stop(slot) \/ Receive(slot) \/ Die(slot) \/ Replace(slot)
  BY DEF PoolNext
<1>2. UNCHANGED <<requests, load>> => RequestInv'
  BY DEF RequestInv, RequestType, LoadIsExact
<1>3. CASE Work(slot)
  BY <1>2, <1>3, InvWork DEF Work
<1>4. CASE Stop(slot)
  <2>1. PoolInv'
    BY <1>4 DEF Stop, PoolInv, PoolType, IdsInv, ThreadsInv, Live
  <2> QED
    BY <1>2, <1>4, <2>1 DEF Stop
<1>5. CASE Receive(slot)
  BY <1>5, InvReceive
<1>6. CASE Die(slot)
  BY <1>6, InvDie
<1>7. CASE Replace(slot)
  BY <1>2, <1>7, InvReplace DEF Replace
<1> QED
  BY <1>1, <1>3, <1>4, <1>5, <1>6, <1>7

LEMMA InvInit ==
  ASSUME Init
  PROVE  IInv
<1>1. RequestType /\ \A request \in Requests : requests[request] = "new"
  BY DEF Init, RequestType
<1>2. LoadIsExact
  <2>1. {request \in Requests : requests[request] = "http"} = {}
    BY <1>1
  <2> QED
    BY <2>1, FS_EmptySet DEF Init, LoadIsExact
<1>3. Range(<<>>) = {} /\ <<>> \in Seq(Messages) /\ <<>> \in Seq(Images \cup {Unknown})
      /\ IsInjective(<<>>) /\ DOMAIN <<>> = {} /\ Len(<<>>) = 0 /\ <<>> \in [{} -> Builds]
  BY DEF Range, IsInjective
<1>4. Fresh.state = "live"
  BY DEF Fresh
<1>5. PoolType
  BY <1>3, FreshType DEF Init, PoolInit, PoolType
<1>6. IdsInv /\ ThreadsInv
  <2>1. \A slot \in Slots : DOMAIN pool[slot].pending = {} /\ pool[slot].next = 1 /\ pool[slot].state = "live"
          /\ Range(inbox[slot]) = {} /\ Range(outbox[slot]) = {}
    BY <1>3, <1>4, FreshType DEF Init, PoolInit
  <2> QED
    BY <1>1, <2>1 DEF IdsInv, ThreadsInv, Live, Requests
<1>7. /\ DOMAIN builds = {} /\ builds \in [DOMAIN builds -> Builds] /\ media = <<>> /\ active = 0
      /\ meta \in [NFTs -> Images \cup {Unknown}]
  BY <1>3 DEF Init, ImageInit
<1>8. ImageType /\ BuildsAreCounted
  BY <1>3, <1>7, FS_EmptySet DEF ImageType, BuildsAreCounted
<1>9. BuildsInv /\ SizesInv /\ MediaAreKept
  BY <1>1, <1>3, <1>7 DEF BuildsInv, SizesInv, MediaAreKept
<1> QED
  BY <1>1, <1>2, <1>5, <1>6, <1>8, <1>9 DEF IInv, RequestInv, PoolInv, ImageInv

LEMMA InvStep ==
  ASSUME IInv, [Next]_vars
  PROVE  IInv'
<1>0. RequestInv /\ PoolInv /\ ImageInv
  BY DEF IInv
<1>1. CASE UNCHANGED vars
  <2>1. RequestInv'
    BY <1>0, <1>1 DEF vars, RequestInv, RequestType, LoadIsExact
  <2>2. PoolInv' /\ ImageInv'
    BY <1>0, <1>1, PoolUnmoved, ImageUnmoved DEF vars
  <2> QED
    BY <2>1, <2>2 DEF IInv
<1>2. ASSUME NEW request \in Requests, HandleRequest(request) \/ HandleMessage(request) PROVE IInv'
  <2>1. CASE Comes(request) /\ Answer(request) /\ UNCHANGED poolVars /\ UNCHANGED imageVars
    <3>1. /\ RequestInv' /\ requests[request] = "new" /\ requests'[request] = "done"
          /\ \A other \in Requests \ {request} : requests'[other] = requests[other]
      BY <1>0, <2>1, AnswerFacts
    <3>2. PoolInv'
      BY <1>0, <2>1, <3>1, PoolUnmoved
    <3>3. ImageInv'
      BY <1>0, <2>1, <3>1, ImageUnmoved
    <3> QED
      BY <3>1, <3>2, <3>3 DEF IInv
  <2>2. ASSUME NEW kind \in {"http", "ws"}, Comes(request), Await(request, kind), Dispatch(request),
               UNCHANGED imageVars
        PROVE  IInv'
    <3>1. /\ RequestInv' /\ requests[request] = "new" /\ requests'[request] = kind
          /\ \A other \in Requests \ {request} : requests'[other] = requests[other]
      BY <1>0, <2>2, AwaitFacts DEF Kinds
    <3>2. PoolInv'
      BY <1>0, <2>2, InvDispatch
    <3>3. ImageInv'
      BY <1>0, <2>2, <3>1, ImageUnmoved
    <3> QED
      BY <3>1, <3>2, <3>3 DEF IInv
  <2> QED
    BY <1>2, <2>1, <2>2 DEF HandleRequest, HandleMessage
<1>3. ASSUME NEW request \in Requests, NEW nft \in NFTs, HandleImage(request, nft) PROVE IInv'
  <2>1. /\ RequestInv' /\ ImageInv' /\ requests[request] = "new" /\ requests'[request] \in {"image", "done"}
        /\ \A other \in Requests \ {request} : requests'[other] = requests[other]
    <3>1. CASE Join(request, nft)
      BY <1>0, <1>3, <3>1, InvJoin, AwaitFacts DEF HandleImage, Join, Kinds
    <3>2. CASE Busy(request, nft)
      <4>1. /\ RequestInv' /\ requests[request] = "new" /\ requests'[request] = "done"
            /\ \A other \in Requests \ {request} : requests'[other] = requests[other]
        BY <1>0, <1>3, <3>2, AnswerFacts DEF HandleImage, Busy
      <4>2. ImageInv'
        BY <1>0, <3>2, <4>1, ImageUnmoved DEF Busy
      <4> QED
        BY <4>1, <4>2
    <3>3. CASE Begin(request, nft)
      BY <1>0, <1>3, <3>3, InvBegin DEF HandleImage
    <3> QED
      BY <1>3, <3>1, <3>2, <3>3 DEF HandleImage
  <2>2. PoolInv'
    BY <1>0, <1>3, <2>1, PoolUnmoved DEF HandleImage
  <2> QED
    BY <2>1, <2>2 DEF IInv
<1>4. CASE PoolNext /\ UNCHANGED imageVars
  <2>1. /\ RequestInv' /\ PoolInv'
        /\ \A request \in Requests :
             \/ requests'[request] = requests[request]
             \/ requests[request] # "image" /\ requests'[request] # "image"
    BY <1>0, <1>4, InvPoolStep
  <2>2. ImageInv'
    BY <1>0, <1>4, <2>1, ImageUnmoved
  <2> QED
    BY <2>1, <2>2 DEF IInv
<1>5. CASE ImageNext /\ UNCHANGED poolVars
  <2>1. /\ RequestInv' /\ ImageInv'
        /\ \A request \in Requests :
             \/ requests'[request] = requests[request]
             \/ requests[request] = "image" /\ requests'[request] = "done"
    BY <1>0, <1>5, InvImageStep
  <2>2. PoolInv'
    BY <1>0, <1>5, <2>1, PoolUnmoved
  <2> QED
    BY <2>1, <2>2 DEF IInv
<1> QED
  BY <1>1, <1>2, <1>3, <1>4, <1>5 DEF Next

\* Where a request waits, counted.
LEMMA OnePlace ==
  ASSUME IInv
  PROVE  WaitingIsPending
<1> DEFINE pendings == {p \in Slots \X (1 .. MaxRequests) : p[2] \in DOMAIN pool[p[1]].pending}
           here(request) == {p \in pendings : pool[p[1]].pending[p[2]] = request}
           there(request) == {nft \in DOMAIN builds : request \in builds[nft].requests}
<1>0. PoolInv /\ ImageInv /\ RequestType
  BY DEF IInv, RequestInv
<1>1. ASSUME NEW request \in Requests, NEW p \in here(request)
      PROVE  /\ p[1] \in Slots /\ p[2] \in DOMAIN pool[p[1]].pending /\ p = <<p[1], p[2]>>
             /\ pool[p[1]].pending[p[2]] = request
             /\ requests[request] \in {"http", "ws"} /\ p[1] \in Live
  <2>1. p \in Slots \X (1 .. MaxRequests) /\ p[2] \in DOMAIN pool[p[1]].pending
        /\ pool[p[1]].pending[p[2]] = request
    BY <1>1
  <2> QED
    BY <1>0, <2>1 DEF PoolInv, ThreadsInv
<1>2. ASSUME NEW request \in Requests, NEW nft \in there(request)
      PROVE  nft \in DOMAIN builds /\ request \in builds[nft].requests /\ requests[request] = "image"
  <2>1. nft \in DOMAIN builds /\ request \in builds[nft].requests
    BY <1>2
  <2> QED
    BY <1>0, <2>1 DEF ImageInv, BuildsInv
<1>3. ASSUME NEW slot \in Slots, NEW id \in DOMAIN pool[slot].pending
      PROVE  <<slot, id>> \in here(pool[slot].pending[id])
  <2>1. id \in 1 .. MaxRequests
    BY <1>0, <1>3, ManagerFacts DEF PoolInv, Requests
  <2>2. <<slot, id>>[1] = slot /\ <<slot, id>>[2] = id
    OBVIOUS
  <2> QED
    BY <1>3, <2>1, <2>2
<1>4. \A nft \in DOMAIN builds : \A request \in builds[nft].requests : nft \in there(request)
  OBVIOUS
<1> HIDE DEF pendings, here, there
<1>5. ASSUME NEW request \in Requests
      PROVE  Cardinality(here(request)) + Cardinality(there(request)) = IF Waiting(request) THEN 1 ELSE 0
  <2>1. CASE requests[request] \in {"http", "ws"}
    <3>1. PICK slot \in Slots : \E id \in DOMAIN pool[slot].pending : pool[slot].pending[id] = request
      BY <1>0, <2>1 DEF PoolInv, ThreadsInv
    <3>2. PICK id \in DOMAIN pool[slot].pending : pool[slot].pending[id] = request
      BY <3>1
    <3>3. <<slot, id>> \in here(request)
      BY <1>3, <3>2
    <3>4. ASSUME NEW p \in here(request) PROVE p = <<slot, id>>
      BY <1>0, <1>1, <3>2, <3>4 DEF PoolInv, ThreadsInv
    <3>5. here(request) = {<<slot, id>>}
      BY <3>3, <3>4
    <3>6. there(request) = {}
      BY <1>2, <2>1
    <3>7. Cardinality(here(request)) = 1
      BY <3>5, FS_Singleton
    <3>8. Cardinality(there(request)) = 0
      BY <3>6, FS_EmptySet
    <3> QED
      BY <2>1, <3>7, <3>8 DEF Waiting, Kinds
  <2>2. CASE requests[request] = "image"
    <3>1. PICK nft \in DOMAIN builds : request \in builds[nft].requests
      BY <1>0, <2>2 DEF ImageInv, BuildsInv
    <3>2. there(request) = {nft}
      <4>1. ASSUME NEW other \in there(request) PROVE other = nft
        <5>1. other \in DOMAIN builds /\ request \in builds[other].requests
          BY <1>2, <4>1
        <5> QED
          BY <1>0, <3>1, <5>1 DEF ImageInv, BuildsInv
      <4> QED
        BY <1>4, <3>1, <4>1
    <3>3. here(request) = {}
      BY <1>1, <2>2
    <3>4. Cardinality(there(request)) = 1
      BY <3>2, FS_Singleton
    <3>5. Cardinality(here(request)) = 0
      BY <3>3, FS_EmptySet
    <3> QED
      BY <2>2, <3>4, <3>5 DEF Waiting, Kinds
  <2>3. CASE requests[request] \notin Kinds
    <3>1. here(request) = {} /\ there(request) = {}
      BY <1>1, <1>2, <2>3 DEF Kinds
    <3> QED
      BY <2>3, <3>1, FS_EmptySet DEF Waiting
  <2> QED
    BY <2>1, <2>2, <2>3 DEF Kinds
<1> QED
  BY <1>1, <1>5 DEF WaitingIsPending, pendings, here, there

---------------------------------------------------------------------------
(* The theorems.                                                           *)

\* The invariant holds in every state the server reaches.
THEOREM ServerInvariant == Spec => []IInv
<1>1. Init => IInv
  BY InvInit
<1>2. IInv /\ [Next]_vars => IInv'
  BY InvStep
<1> QED
  BY <1>1, <1>2, PTL DEF Spec

\* A request that waits is pending once at one thread that lives, or in one
\* build, however threads crash and are replaced and builds fail: it is never
\* forgotten by both, and never answered twice.
THEOREM RequestsPend == Spec => []WaitingIsPending
<1>1. IInv => WaitingIsPending
  BY OnePlace
<1> QED
  BY <1>1, ServerInvariant, PTL

\* No request is ever given the answer of another one: the ids that a thread's
\* manager gives are never used again while one of them is under way.
THEOREM AnswersMatch == Spec => []OwnAnswers
<1>1. IInv => OwnAnswers
  BY DEF IInv, RequestInv, RequestType, OwnAnswers, Kinds
<1> QED
  BY <1>1, ServerInvariant, PTL

\* The load that crawlers and caches give way to is the number of HTTP requests
\* in progress, however each of them ends.
THEOREM LoadExact == Spec => []LoadIsExact
<1>1. IInv => LoadIsExact
  BY DEF IInv, RequestInv
<1> QED
  BY <1>1, ServerInvariant, PTL

\* The counter that limits image builds is exact and never above the limit.
THEOREM BuildsCounted == Spec => []BuildsAreCounted
<1>1. IInv => BuildsAreCounted
  BY DEF IInv, ImageInv
<1> QED
  BY <1>1, ServerInvariant, PTL

\* The image cache is within its limit of bytes, and what it has a row of is on
\* disk in all sizes but for urls evicted while a build of them was half-way.
THEOREM MediaKept == Spec => []MediaAreKept
<1>1. IInv => MediaAreKept
  BY DEF IInv, ImageInv
<1> QED
  BY <1>1, ServerInvariant, PTL

===========================================================================
