-------------------------- MODULE StatusStream_proofs --------------------------
(***************************************************************************)
(* Proofs about StatusStream, for every set of pages and every size of the *)
(* work queue.                                                             *)
(***************************************************************************)
EXTENDS StatusStream, TLAPS

(* The invariant is inductive as it stands.  Its parts lean on each other    *)
(* and on the types: that no page believes in a stream when a new request   *)
(* is accepted is ServedUntilSendFails under ~active; that a failing send   *)
(* completes a request, and not the handle of before the first one, is      *)
(* OpenRequestIsActive under active.                                        *)
Inv == TypeOK /\ OpenRequestIsActive /\ ServedUntilSendFails

(* No request, no page and no work when the server starts. *)
LEMMA InitInv == Init => Inv
<1> SUFFICES ASSUME Init PROVE Inv
  OBVIOUS
<1>1. TypeOK
  <2>1. page \in [Pages -> PageState] /\ streamTask \in {"idle", "queueing"}
    BY DEF Init, PageState
  <2>2. queued \in 0 .. QueueBound
    BY QueueBoundAssumption DEF Init
  <2>3. active \in BOOLEAN /\ httpAsyncHandle \in Pages \cup {NoPage}
    BY Zenon DEF Init
  <2> QED
    BY <2>1, <2>2, <2>3 DEF Init, TypeOK
<1>2. OpenRequestIsActive
  BY DEF Init, OpenRequestIsActive
<1>3. ServedUntilSendFails
  BY DEF Init, ServedUntilSendFails
<1> QED
  BY <1>1, <1>2, <1>3 DEF Inv

(* Every step of the browsers and of both tasks preserves the invariant. *)
LEMMA NextInv == Inv /\ [Next]_vars => Inv'
<1> SUFFICES ASSUME Inv, [Next]_vars PROVE Inv'
  OBVIOUS
<1> USE NoPageAssumption, QueueBoundAssumption
    DEF Inv, TypeOK, OpenRequestIsActive, ServedUntilSendFails, PageState
<1>1. ASSUME NEW p \in Pages, Connect(p) PROVE Inv'
  BY <1>1 DEF Connect
<1>2. ASSUME NEW p \in Pages, Leave(p) PROVE Inv'
  BY <1>2 DEF Leave
<1>3. ASSUME NEW p \in Pages, Refuse(p) PROVE Inv'
  BY <1>3 DEF Refuse
<1>4. ASSUME NEW p \in Pages, BeginFails(p) PROVE Inv'
  BY <1>4 DEF BeginFails
<1>5. ASSUME NEW p \in Pages, HelloFails(p) PROVE Inv'
  <2>1. PICK after \in {"closed", "unanswered"} : page' = [page EXCEPT ![p] = after]
    BY <1>5 DEF HelloFails
  <2> QED
    BY <1>5, <2>1 DEF HelloFails
<1>6. ASSUME NEW p \in Pages, Accept(p) PROVE Inv'
  <2>1. ~active /\ openRequests = {}
    BY <1>6 DEF Accept
  <2>2. \A q \in Pages : page[q] # "streaming"
    BY <2>1
  <2> QED
    BY <1>6, <2>1, <2>2 DEF Accept
<1>7. CASE SendNothingOrChunk
  BY <1>7 DEF SendNothingOrChunk
<1>8. CASE SendFails
  <2>1. active /\ openRequests = {httpAsyncHandle} /\ httpAsyncHandle \in Pages
    BY <1>8 DEF SendFails
  <2> PICK after \in {"closed", "abandoned"} :
             page' = [page EXCEPT ![httpAsyncHandle] = after]
    BY <1>8 DEF SendFails, LoseStream
  <2>2. /\ active' = FALSE
        /\ openRequests' = {}
        /\ page' = [page EXCEPT ![httpAsyncHandle] = after]
        /\ httpAsyncHandle' = httpAsyncHandle
    BY <1>8, <2>1 DEF SendFails
  <2>3. \A p \in Pages : page'[p] # "streaming"
    BY <2>1, <2>2
  <2>4. ServedUntilSendFails'
    BY <2>3
  <2>5. OpenRequestIsActive'
    BY <2>2
  <2>6. page' \in [Pages -> PageState]
    BY <2>1, <2>2
  <2>7. queued' \in 0 .. QueueBound /\ streamTask' = streamTask
    BY <1>8 DEF SendFails
  <2>8. active' \in BOOLEAN
    BY <2>2, Zenon
  <2> QED
    BY <2>2, <2>4, <2>5, <2>6, <2>7, <2>8
<1>9. CASE ReadActive
  BY <1>9 DEF ReadActive
<1>10. CASE QueueWork
  BY <1>10 DEF QueueWork
<1>11. CASE UNCHANGED vars
  BY <1>11 DEF vars
<1> QED
  BY <1>1, <1>2, <1>3, <1>4, <1>5, <1>6, <1>7, <1>8, <1>9, <1>10, <1>11
     DEF Next, HandleRequest, Send

(* The invariant holds throughout every behaviour of the stream. *)
THEOREM Invariance == Spec => []Inv
<1> QED
  BY InitInv, NextInv, PTL DEF Spec

(* The queue of the server never holds more than its size, and the handle   *)
(* is that of a page or the one of before the first request.                *)
THEOREM TypeCorrect == Spec => []TypeOK
<1>1. Inv => TypeOK
  BY DEF Inv
<1> QED
  BY <1>1, Invariance, PTL

(* At most one request is open, it is the one the handle points to, and it  *)
(* is open exactly while active is set: no queued message, however late, is *)
(* sent on a completed request.                                             *)
THEOREM OneOpenRequest == Spec => []OpenRequestIsActive
<1>1. Inv => OpenRequestIsActive
  BY DEF Inv
<1> QED
  BY <1>1, Invariance, PTL

(* A page to which everything has been sent in time is the one being served: *)
(* only a failing send takes the stream from a page that waits for it.       *)
THEOREM StreamKept == Spec => []ServedUntilSendFails
<1>1. Inv => ServedUntilSendFails
  BY DEF Inv
<1> QED
  BY <1>1, Invariance, PTL
===============================================================================
