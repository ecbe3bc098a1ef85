--------------------------- MODULE NetworkWifi_proofs ---------------------------
(***************************************************************************)
(* Proofs about NetworkWifi, for every set of addresses and of requests    *)
(* and every number of retries.                                            *)
(***************************************************************************)
EXTENDS NetworkWifi, SequenceTheorems, TLAPS

(* The inductive invariant. *)

(* What the main task has done so far. *)
BeforeStart == {"loadingIp", "savingIp", "starting"}

StartInv ==
  main \in BeforeStart =>
    station = "stopped" /\ events = <<>> /\ handling = "none" /\ bits = {}

BaseOf(event) == IF event \in WifiEvents THEN "WIFI_EVENT" ELSE "IP_EVENT"

(* The group exists from the registration of the handlers to the end of     *)
(* their unregistering, and an event is handled only while its handler is   *)
(* registered: this is why HandlerFindsGroup holds.                         *)
GroupInv ==
  /\ main \notin {"loadingIp", "serving"} => group
  /\ main \in {"deletingGroup", "serving"} => handlers = {}
  /\ main = "unregisteringWifi" => handlers \subseteq {"WIFI_EVENT"}
  /\ main = "loadingIp" => handlers = {}
  /\ handling # "none" => BaseOf(handling) \in handlers

(* The events whose handling makes the station connect. *)
Restarts(event) == event \in {"STA_START", "STA_DISCONNECTED"}

(* At most one of them is on its way, only while the station is down, and   *)
(* none once the last failure has been reported: this is why giving up is   *)
(* final.                                                                   *)
RestartInv ==
  /\ \A i, j \in DOMAIN events : Restarts(events[i]) /\ Restarts(events[j]) => i = j
  /\ Restarts(handling) => \A i \in DOMAIN events : ~Restarts(events[i])
  /\ Restarts(handling) \/ (\E i \in DOMAIN events : Restarts(events[i])) =>
       station = "down" /\ WIFI_FAIL_BIT \notin bits

(* The address loaded is saved before it is used. *)
AddressInv ==
  /\ httpd = "saving" => main = "serving"
  /\ main \notin {"loadingIp", "savingIp"} /\ httpd = "idle" /\ ~saveFailed => flash = netif

Inv ==
  /\ TypeOK /\ StartInv /\ GroupInv /\ RestartInv /\ AddressInv
  /\ HandlerFindsGroup /\ GivenUpStaysDown /\ AddressKept

-------------------------------------------------------------------------------
(* What the two ways of changing the queue do to it. *)

(* An event is appended. *)
LEMMA Posted ==
  ASSUME NEW q \in Seq(Events), NEW e \in Events
  PROVE  /\ Append(q, e) \in Seq(Events)
         /\ \A i \in DOMAIN Append(q, e) :
              \/ i \in DOMAIN q /\ Append(q, e)[i] = q[i]
              \/ i = Len(q) + 1 /\ Append(q, e)[i] = e
  OBVIOUS

(* The first event is taken, and an address may be reported. *)
LEMMA Taken ==
  ASSUME NEW q \in Seq(Events), q # <<>>, NEW new \in {<<>>, <<"STA_GOT_IP">>}
  PROVE  /\ Tail(q) \o new \in Seq(Events)
         /\ \A i \in DOMAIN (Tail(q) \o new) :
              \/ i + 1 \in DOMAIN q /\ (Tail(q) \o new)[i] = q[i + 1]
              \/ (Tail(q) \o new)[i] = "STA_GOT_IP"
<1>1. Tail(q) \in Seq(Events) /\ Len(Tail(q)) = Len(q) - 1 /\ Len(q) \in Nat
  BY HeadTailProperties
<1>2. \A i \in 1 .. Len(Tail(q)) : Tail(q)[i] = q[i + 1]
  BY HeadTailProperties
<1>3. /\ new \in Seq(Events)
      /\ \A i \in 1 .. Len(new) : new[i] = "STA_GOT_IP"
      /\ Len(new) \in {0, 1}
  <2>1. "STA_GOT_IP" \in Events
    BY DEF Events
  <2>2. CASE new = <<>>
    BY <2>2
  <2>3. CASE new = <<"STA_GOT_IP">>
    BY <2>1, <2>3
  <2> QED
    BY <2>2, <2>3
<1>4. /\ Tail(q) \o new \in Seq(Events)
      /\ Len(Tail(q) \o new) = Len(Tail(q)) + Len(new)
      /\ \A i \in 1 .. Len(Tail(q)) + Len(new) :
           (Tail(q) \o new)[i] = IF i <= Len(Tail(q)) THEN Tail(q)[i] ELSE new[i - Len(Tail(q))]
  BY <1>1, <1>3, ConcatProperties
<1>5. DOMAIN (Tail(q) \o new) = 1 .. Len(Tail(q)) + Len(new) /\ DOMAIN q = 1 .. Len(q)
  BY <1>4
<1>6. \A i \in 1 .. Len(Tail(q)) + Len(new) :
         \/ i + 1 \in 1 .. Len(q) /\ (Tail(q) \o new)[i] = q[i + 1]
         \/ (Tail(q) \o new)[i] = "STA_GOT_IP"
  BY <1>1, <1>2, <1>3, <1>4
<1> QED
  BY <1>4, <1>5, <1>6

-------------------------------------------------------------------------------
(* Nothing runs before network_wifi_init. *)
LEMMA InitInv == Init => Inv
<1> SUFFICES ASSUME Init PROVE Inv
  OBVIOUS
<1> USE StaticAddrAssumption, RequestsAssumption, RetryAssumption DEF Init
<1>1. TypeOK
  <2>1. events \in Seq(Events)
    BY EmptySeq
  <2>2. saveFailed \in BOOLEAN /\ group \in BOOLEAN
    BY Zenon
  <2> QED
    BY <2>1, <2>2 DEF TypeOK, Config, MainSteps
<1>2. StartInv /\ GroupInv /\ AddressInv
  BY DEF StartInv, GroupInv, AddressInv
<1>3. RestartInv
  BY DEF RestartInv, Restarts
<1> QED
  BY <1>1, <1>2, <1>3 DEF Inv, HandlerFindsGroup, GivenUpStaysDown, AddressKept

(* Every step of the tasks, of the radio and of the power preserves it. *)
LEMMA NextInv == Inv /\ [Next]_vars => Inv'
<1> SUFFICES ASSUME Inv, [Next]_vars PROVE Inv'
  OBVIOUS
<1> USE StaticAddrAssumption, AddrAssumption, RequestsAssumption, RetryAssumption
    DEF Inv, TypeOK, StartInv, GroupInv, RestartInv, AddressInv, HandlerFindsGroup,
        GivenUpStaysDown, AddressKept, BeforeStart, BaseOf, Restarts, Config,
        MainSteps, WifiEvents, Events, WIFI_FAIL_BIT, CONNECTED_BIT,
        handlerVars, registration, eventTaskVars, addressVars
<1>1. ASSUME NEW ok \in BOOLEAN, LoadIp(ok) PROVE Inv'
  BY <1>1 DEF LoadIp, validate_ip_config
<1>2. ASSUME NEW ok \in BOOLEAN, SaveLoadedIp(ok) PROVE Inv'
  BY <1>2 DEF SaveLoadedIp, Save
<1>3. CASE StartWifi
  BY <1>3 DEF StartWifi
<1>4. CASE WaitBits
  BY <1>4 DEF WaitBits
<1>5. CASE UnregisterIp
  BY <1>5 DEF UnregisterIp, Unregister
<1>6. CASE UnregisterWifi
  BY <1>6 DEF UnregisterWifi, Unregister
<1>7. CASE DeleteGroup
  BY <1>7 DEF DeleteGroup
<1>8. CASE Dispatch
  <2> DEFINE new == IF Head(events) = "STA_CONNECTED" /\ netif \in Addresses
                      THEN <<"STA_GOT_IP">> ELSE <<>>
  <2>1. /\ events # <<>>
        /\ events' = Tail(events) \o new
        /\ handling = "none"
        /\ \/ handling' = "none"
           \/ handling' = Head(events) /\ BaseOf(handling') \in handlers
        /\ UNCHANGED <<addressVars, main, httpd, registration, handlerVars, station>>
    BY <1>8 DEF Dispatch
  <2>2. /\ 1 \in DOMAIN events /\ Head(events) = events[1]
        /\ events[1] \in {"STA_START", "STA_CONNECTED", "STA_DISCONNECTED", "STA_GOT_IP"}
        /\ \A i \in DOMAIN events : i \in Nat \ {0}
    BY <2>1
  <2> HIDE DEF Events
  <2>3. /\ events' \in Seq(Events)
        /\ \A i \in DOMAIN events' :
             \/ i + 1 \in DOMAIN events /\ events'[i] = events[i + 1]
             \/ events'[i] = "STA_GOT_IP"
    BY <2>1, Taken
  <2>4. DOMAIN events' \subseteq Nat
    BY <2>3
  <2> HIDE DEF new
  <2>5. RestartInv'
    <3>1. \A i \in DOMAIN events' : Restarts(events'[i]) =>
            i + 1 \in DOMAIN events /\ Restarts(events[i + 1])
      BY <2>3
    <3>2. \A i, j \in DOMAIN events' :
            Restarts(events'[i]) /\ Restarts(events'[j]) => i = j
      BY <3>1, <2>4
    <3>3. Restarts(handling') => \A i \in DOMAIN events' : ~Restarts(events'[i])
      BY <3>1, <2>1, <2>2, <2>4
    <3>4. Restarts(handling') \/ (\E i \in DOMAIN events' : Restarts(events'[i])) =>
            station = "down" /\ WIFI_FAIL_BIT \notin bits
      BY <3>1, <2>1, <2>2
    <3> QED
      BY <3>2, <3>3, <3>4, <2>1
  <2>6. TypeOK' /\ StartInv' /\ GroupInv' /\ AddressInv'
    BY <2>1, <2>2, <2>3 DEF Events
  <2> QED
    BY <2>1, <2>5, <2>6
<1>9. CASE HandleStart
  BY <1>9 DEF HandleStart, Handled
<1>10. CASE HandleConnected
  BY <1>10 DEF HandleConnected, Handled
<1>11. CASE Retry
  BY <1>11 DEF Retry, Handled
<1>12. CASE GiveUp
  BY <1>12 DEF GiveUp, Handled
<1>13. CASE HandleGotIp
  BY <1>13 DEF HandleGotIp, Handled
<1>14. CASE Associate
  BY <1>14 DEF Associate, Post
<1>15. CASE AssociateFails
  BY <1>15 DEF AssociateFails, Post
<1>16. CASE LinkLost
  BY <1>16 DEF LinkLost, Post
<1>17. ASSUME NEW addr \in Requests, SetIp(addr) PROVE Inv'
  BY <1>17 DEF SetIp
<1>18. ASSUME NEW ok \in BOOLEAN, SaveSetIp(ok) PROVE Inv'
  BY <1>18 DEF SaveSetIp, Save
<1>19. CASE PowerFails
  <2>1. events' \in Seq(Events)
    BY <1>19, EmptySeq DEF PowerFails
  <2>2. saveFailed' \in BOOLEAN /\ group' \in BOOLEAN
    BY <1>19, Zenon DEF PowerFails
  <2> QED
    BY <1>19, <2>1, <2>2 DEF PowerFails
<1>20. CASE UNCHANGED vars
  BY <1>20 DEF vars
<1> QED
  BY <1>1, <1>2, <1>3, <1>4, <1>5, <1>6, <1>7, <1>8, <1>9, <1>10, <1>11, <1>12,
     <1>13, <1>14, <1>15, <1>16, <1>17, <1>18, <1>19, <1>20
     DEF Next, MainTask, EventTask, Attempt, Httpd

(* The invariant holds throughout every behaviour. *)
THEOREM Invariance == Spec => []Inv
<1> QED
  BY InitInv, NextInv, PTL DEF Spec

(* wifi_event_handler never touches a deleted group: unregistering waits    *)
(* for the event that is being handled, and the group goes last.            *)
THEOREM GroupOutlivesHandlers == Spec => []HandlerFindsGroup
<1>1. Inv => HandlerFindsGroup
  BY DEF Inv
<1> QED
  BY <1>1, Invariance, PTL

(* After the last failure nothing makes the station connect any more. *)
THEOREM GivingUpIsFinal == Spec => []GivenUpStaysDown
<1>1. Inv => GivenUpStaysDown
  BY DEF Inv
<1> QED
  BY <1>1, Invariance, PTL

(* The address in use is the address the next start will find. *)
THEOREM AddressSurvives == Spec => []AddressKept
<1>1. Inv => AddressKept
  BY DEF Inv
<1> QED
  BY <1>1, Invariance, PTL
===============================================================================
