------------------------------- MODULE Server -------------------------------
(***************************************************************************)
(* The server: HTTP requests for a procedure (handle of srv/http.js) or an *)
(* NFT's image, and messages over a websocket (srv/ws.js), with the worker *)
(* threads and the image cache they go to.                                 *)
(***************************************************************************)
EXTENDS WorkerPool, ImageCache

vars == <<requests, load, poolVars, imageVars>>

---------------------------------------------------------------------------
\* handle: a procedure nobody knows, or shed because the event loop was
\* blocked, as it may be at any time; no thread is live; else a thread's.
HandleRequest(request) ==
  /\ Comes(request)
  /\ \/ /\ Answer(request)
        /\ UNCHANGED poolVars
     \/ /\ Await(request, "http")
        /\ Dispatch(request)
  /\ UNCHANGED imageVars

\* The message event of a socket: closed for what it sent, an unknown command, a
\* subscription, answered on the main thread; no thread is live; else a
\* thread's.  It is neither shed nor counted; one that is answered at once is
\* as above.
HandleMessage(request) ==
  /\ Comes(request)
  /\ Await(request, "ws")
  /\ Dispatch(request)
  /\ UNCHANGED imageVars

\* The route of an NFT's image; one that is refused or shed is as above.
HandleImage(request, nft) ==
  /\ Comes(request)
  /\ Join(request, nft) \/ Busy(request, nft) \/ Begin(request, nft)
  /\ UNCHANGED poolVars

---------------------------------------------------------------------------
Init ==
  /\ requests = [request \in Requests |-> "new"]
  /\ load = 0
  /\ PoolInit /\ ImageInit

Next ==
  \/ \E request \in Requests :
       \/ HandleRequest(request) \/ HandleMessage(request)
       \/ \E nft \in NFTs : HandleImage(request, nft)
  \/ PoolNext /\ UNCHANGED imageVars
  \/ ImageNext /\ UNCHANGED poolVars

\* Threads run, messages arrive and the death of a thread is noticed; what is
\* fetched has a timeout.
Fairness ==
  /\ WF_vars((\E slot \in Slots : Work(slot) \/ Receive(slot) \/ Die(slot)) /\ UNCHANGED imageVars)
  /\ WF_vars((\E nft \in NFTs : Resume(nft) \/ Fetched(nft) \/ Resized(nft)) /\ UNCHANGED poolVars)

Spec == Init /\ [][Next]_vars /\ Fairness

---------------------------------------------------------------------------
\* A request that waits is pending once at one thread that has not been
\* declared dead, or in one build: there is always somebody who will answer it.
WaitingIsPending ==
  LET pendings == {p \in Slots \X (1 .. MaxRequests) : p[2] \in DOMAIN pool[p[1]].pending}
  IN  \A request \in Requests :
        LET here == {p \in pendings : pool[p[1]].pending[p[2]] = request}
            there == {nft \in DOMAIN builds : request \in builds[nft].requests}
        IN  /\ Cardinality(here) + Cardinality(there) = (IF Waiting(request) THEN 1 ELSE 0)
            /\ \A p \in here : p[1] \in Live

\* Each answer is that of its own request, whatever threads crash in between
\* and however many requests one of them has taken.
OwnAnswers == \A request \in Requests : requests[request] # "mixed up"

\* The load that other work gives way to is the number of HTTP requests in
\* progress; it returns to zero however they end.
LoadIsExact ==
  load = Cardinality({request \in Requests : requests[request] = "http"})

\* The counter of builds is the number of builds, and never above the limit,
\* so that failures do not use it up.
BuildsAreCounted == active = Cardinality(DOMAIN builds) /\ active <= Concurrency

\* What the image cache has a row of is on disk in all sizes, and is not above
\* the limit - unless the row was made by a build whose first files had been
\* evicted with the row of another build of the same url.
MediaAreKept ==
  /\ Len(media) * Sizes <= MaxBytes
  /\ \A url \in Range(media) \ torn : \A size \in 1 .. Sizes : <<url, size>> \in files

\* Every request is answered in the end.
AllAnswered == \A request \in Requests : Waiting(request) ~> ~Waiting(request)
=============================================================================
