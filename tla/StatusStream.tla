------------------------------- MODULE StatusStream -------------------------------
(***************************************************************************)
(* components/Application/http_requests/GetStatusStream.cpp: the stream of *)
(* status messages to the web page.                                        *)
(*                                                                         *)
(* Two tasks: the HTTP server's thread runs the request handler and, one   *)
(* at a time and in order, the work queued to it; the StatusStream task    *)
(* queues one message per second while `active' is set.  A browser that    *)
(* leaves the page is noticed only when a send to it fails, and a send to  *)
(* a closed connection need not fail at once.                              *)
(*                                                                         *)
(* A page is one EventSource of a browser with its connection; a page that *)
(* has come to its end is opened again as a new one.  Nothing in the code  *)
(* closes a connection: completing an asynchronous request gives the       *)
(* socket back to the server, which waits on it for a next request.        *)
(***************************************************************************)
EXTENDS Naturals, FiniteSets

CONSTANTS
  Pages,
  NoPage,       \* what httpAsyncHandle points to before the first request
  QueueBound    \* messages the server's work queue can hold

ASSUME NoPageAssumption == NoPage \notin Pages
ASSUME QueueBoundAssumption == QueueBound \in Nat \ {0}

VARIABLES
  active,
  httpAsyncHandle,   \* the page whose request was last made asynchronous
  openRequests,      \* asynchronous requests that are not completed
  page,              \* the browser's side of each page
  queued,            \* messages in the server's work queue
  streamTask         \* "idle", or "queueing" after it has read active

vars == <<active, httpAsyncHandle, openRequests, page, queued, streamTask>>

(* What the browser has seen.  A page that is streaming, abandoned or        *)
(* unanswered is the same to its user: it has an open connection and waits   *)
(* for messages.  To the first everything has been sent in time; to an       *)
(* abandoned one a send has failed, and to an unanswered one the first.      *)
PageState ==
  {"closed", "connecting", "unanswered", "streaming", "abandoned", "refused", "left"}

Init ==
  /\ active = FALSE
  /\ httpAsyncHandle = NoPage
  /\ openRequests = {}
  /\ page = [p \in Pages |-> "closed"]
  /\ queued = 0
  /\ streamTask = "idle"

-------------------------------------------------------------------------------
(* The browser.                                                             *)

(* A page is opened, or its EventSource connects again after the server has *)
(* ended the stream.                                                        *)
Connect(p) ==
  /\ page[p] = "closed"
  /\ page' = [page EXCEPT ![p] = "connecting"]
  /\ UNCHANGED <<active, httpAsyncHandle, openRequests, queued, streamTask>>

(* The user leaves or reloads the page, or its connection breaks and the    *)
(* browser opens another.  A connection whose request is asynchronous the    *)
(* server does not watch; of any other it sees the end.                      *)
Leave(p) ==
  /\ page[p] \in {"unanswered", "streaming", "abandoned", "refused"}
  /\ page' = [page EXCEPT ![p] = IF p \in openRequests THEN "left" ELSE "closed"]
  /\ UNCHANGED <<active, httpAsyncHandle, openRequests, queued, streamTask>>

-------------------------------------------------------------------------------
(* The HTTP server's thread: get_status_stream_handler.                     *)

(* "SSE already active": an answer that is not an event stream, for which   *)
(* an EventSource gives up.                                                 *)
Refuse(p) ==
  /\ page[p] = "connecting"
  /\ active
  /\ page' = [page EXCEPT ![p] = "refused"]
  /\ UNCHANGED <<active, httpAsyncHandle, openRequests, queued, streamTask>>

(* httpd_req_async_handler_begin fails: the connection is closed. *)
BeginFails(p) ==
  /\ page[p] = "connecting"
  /\ ~active
  /\ page' = [page EXCEPT ![p] = "closed"]
  /\ UNCHANGED <<active, httpAsyncHandle, openRequests, queued, streamTask>>

(* Faulty variant: active is set before the first chunk is sent. *)
HelloFailsLeavingActive(p) ==
  /\ page[p] = "connecting"
  /\ ~active
  /\ httpAsyncHandle' = p
  /\ active' = TRUE
  /\ page' = [page EXCEPT ![p] = "closed"]
  /\ UNCHANGED <<openRequests, queued, streamTask>>

(* The first chunk cannot be sent: the request is begun and completed, and   *)
(* the handler returns ESP_OK.  The connection is broken, or stays open and  *)
(* nothing more is sent on it.                                               *)
HelloFails(p) ==
  /\ page[p] = "connecting"
  /\ ~active
  /\ httpAsyncHandle' = p
  /\ \E after \in {"closed", "unanswered"} : page' = [page EXCEPT ![p] = after]
  /\ UNCHANGED <<active, openRequests, queued, streamTask>>

(* Faulty variant: a second request is made asynchronous as well. *)
AcceptSecond(p) ==
  /\ page[p] = "connecting"
  /\ httpAsyncHandle' = p
  /\ openRequests' = openRequests \cup {p}
  /\ active' = TRUE
  /\ page' = [page EXCEPT ![p] = "streaming"]
  /\ UNCHANGED <<queued, streamTask>>

Accept(p) ==
  /\ page[p] = "connecting"
  /\ ~active
  /\ httpAsyncHandle' = p
  /\ openRequests' = openRequests \cup {p}
  /\ active' = TRUE
  /\ page' = [page EXCEPT ![p] = "streaming"]
  /\ UNCHANGED <<queued, streamTask>>

(* The HTTP server's thread: status_stream_once, taken from the work queue. *)

(* Not active, or the chunk is sent, be it to a page that has been left. *)
SendNothingOrChunk ==
  /\ queued > 0
  /\ queued' = queued - 1
  /\ UNCHANGED <<active, httpAsyncHandle, openRequests, page, streamTask>>

(* After a failed send: the connection of a page that was left has ended,    *)
(* that of a page that was not is broken or only slow.                       *)
LoseStream ==
  \E after \in {"closed", "abandoned"} :
    /\ after = "abandoned" => page[httpAsyncHandle] = "streaming"
    /\ page' = [page EXCEPT ![httpAsyncHandle] = after]

(* Faulty variant: a failed send does not complete the request. *)
SendFailsLeavingRequest ==
  /\ queued > 0
  /\ active
  /\ queued' = queued - 1
  /\ active' = FALSE
  /\ LoseStream
  /\ UNCHANGED <<httpAsyncHandle, openRequests, streamTask>>

(* The request is completed.  That alone does not close the connection: a   *)
(* page that was only slow goes on waiting on it.                           *)
SendFails ==
  /\ queued > 0
  /\ active
  /\ queued' = queued - 1
  /\ openRequests' = openRequests \ {httpAsyncHandle}
  /\ active' = FALSE
  /\ LoseStream
  /\ UNCHANGED <<httpAsyncHandle, streamTask>>

(* The rest of a failed send to a page that was left. *)
SendToLeftFails == active /\ page[httpAsyncHandle] = "left" /\ SendFails

-------------------------------------------------------------------------------
(* The StatusStream task, once a second. *)

ReadActive ==
  /\ streamTask = "idle"
  /\ active
  /\ streamTask' = "queueing"
  /\ UNCHANGED <<active, httpAsyncHandle, openRequests, page, queued>>

(* Faulty variant: room in the queue is not looked at. *)
QueueWorkRegardless ==
  /\ streamTask = "queueing"
  /\ queued' = queued + 1
  /\ streamTask' = "idle"
  /\ UNCHANGED <<active, httpAsyncHandle, openRequests, page>>

(* httpd_queue_work; a full queue takes nothing and the result is ignored. *)
QueueWork ==
  /\ streamTask = "queueing"
  /\ queued' = IF queued < QueueBound THEN queued + 1 ELSE queued
  /\ streamTask' = "idle"
  /\ UNCHANGED <<active, httpAsyncHandle, openRequests, page>>

-------------------------------------------------------------------------------
HandleRequest(p) == Refuse(p) \/ BeginFails(p) \/ HelloFails(p) \/ Accept(p)

Send == SendNothingOrChunk \/ SendFails

Next ==
  \/ \E p \in Pages : Connect(p) \/ Leave(p) \/ HandleRequest(p)
  \/ Send
  \/ ReadActive
  \/ QueueWork

Spec == Init /\ [][Next]_vars

(* Both tasks run for ever.  A request is served sooner or later, whatever  *)
(* else the server's thread has to do.  Of the sends to a connection that   *)
(* the browser has closed, one fails sooner or later.                       *)
FairSpec ==
  /\ Spec
  /\ WF_vars(Send)
  /\ WF_vars(ReadActive)
  /\ WF_vars(QueueWork)
  /\ \A p \in Pages : SF_vars(HandleRequest(p))
  /\ SF_vars(SendToLeftFails)

-------------------------------------------------------------------------------
(* Properties. *)

TypeOK ==
  /\ active \in BOOLEAN
  /\ httpAsyncHandle \in Pages \cup {NoPage}
  /\ openRequests \subseteq Pages
  /\ page \in [Pages -> PageState]
  /\ queued \in 0 .. QueueBound
  /\ streamTask \in {"idle", "queueing"}

(* The flag, the handle and the server's open requests tell the same story  *)
(* between any two steps: exactly the request the handle points to is open  *)
(* while active is set, and none otherwise.  No message is sent on a        *)
(* completed request, however late it comes out of the queue, and none is   *)
(* left open.                                                               *)
OpenRequestIsActive ==
  openRequests = IF active THEN {httpAsyncHandle} ELSE {}

(* Only a failed send takes the stream from a page that waits for it: as     *)
(* long as everything has been sent to it in time, the page has the one      *)
(* open request.  No other page's request, and no message or failure that    *)
(* was meant for an earlier page, gets in between.                           *)
ServedUntilSendFails ==
  \A p \in Pages : page[p] = "streaming" => active /\ httpAsyncHandle = p

(* A page that was left frees the stream for another one. *)
LeftPageIsReleased ==
  \A p \in Pages : page[p] = "left" ~> p \notin openRequests
===============================================================================
