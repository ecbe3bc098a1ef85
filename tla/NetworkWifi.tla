------------------------------- MODULE NetworkWifi -------------------------------
(***************************************************************************)
(* components/Middleware/network_wifi.c: the connection to the access      *)
(* point at start-up, and the static address of the device.                *)
(*                                                                         *)
(* The main task loads the address, starts the station and waits for one   *)
(* of two bits of an event group; the event task runs wifi_event_handler,  *)
(* which retries and sets the bits.  When the wait is over the handlers    *)
(* are unregistered, the group is deleted and the web server started,      *)
(* whose thread may then set another address.  Every call of the flash     *)
(* may fail, and the power may fail between any two steps.                 *)
(*                                                                         *)
(* An address stands for the three of a configuration.  That the station   *)
(* reports an address, and when, is the driver's: it posts                 *)
(* IP_EVENT_STA_GOT_IP when it is connected with a static address of which *)
(* no part is zero.                                                        *)
(***************************************************************************)
EXTENDS Naturals, Sequences

CONSTANTS
  Addresses,            \* configurations without a part that is 0 or 0xFFFFFFFF
  StaticAddr,           \* STATIC_IP_ADDR, STATIC_NETMASK_ADDR, STATIC_GW_ADDR
  EmptyAddr,            \* a part is EMPTY_IP_ADDR, which ipaddr_addr returns for no address
  ZeroAddr,             \* a part is 0.0.0.0, and none is EMPTY_IP_ADDR
  NoAddr,               \* nothing stored in flash, nothing set in the station
  Requests,             \* what the web page may ask for
  WIFI_MAXIMUM_RETRY

ASSUME StaticAddrAssumption == StaticAddr \in Addresses
ASSUME AddrAssumption ==
  /\ EmptyAddr \notin Addresses \cup {ZeroAddr, NoAddr}
  /\ ZeroAddr \notin Addresses \cup {NoAddr}
  /\ NoAddr \notin Addresses
ASSUME RequestsAssumption == Requests \subseteq Addresses \cup {EmptyAddr, ZeroAddr}
ASSUME RetryAssumption == WIFI_MAXIMUM_RETRY \in Nat

Config == Addresses \cup {EmptyAddr, ZeroAddr}

CONNECTED_BIT == "CONNECTED_BIT"
WIFI_FAIL_BIT == "WIFI_FAIL_BIT"

VARIABLES
  flash,         \* the blob under IP_CONFIG_KEY
  netif,         \* the address set in the station
  main,          \* the main task
  httpd,         \* the web server's thread: "idle", or "saving" inside set_ip
  saveFailed,    \* history: the last save of an address failed
  s_retry_num,
  bits,          \* of s_network_event_group
  group,         \* the group exists
  handlers,      \* the registered instances of wifi_event_handler
  events,        \* the queue of the event task
  handling,      \* the event wifi_event_handler is called for, or "none"
  station        \* the radio: "stopped", "down", "connecting" or "up"

handlerVars == <<s_retry_num, bits>>
registration == <<group, handlers>>
eventTaskVars == <<handlerVars, events, handling, station>>
addressVars == <<flash, netif, saveFailed>>
vars == <<addressVars, main, httpd, registration, eventTaskVars>>

WifiEvents == {"STA_START", "STA_CONNECTED", "STA_DISCONNECTED"}
Events == WifiEvents \cup {"STA_GOT_IP"}
MainSteps == {"loadingIp", "savingIp", "starting", "waiting", "unregisteringIp",
              "unregisteringWifi", "deletingGroup", "serving"}

(* The device before network_wifi_init, with any address ever stored. *)
Init ==
  /\ flash \in Requests \cup {NoAddr, StaticAddr}
  /\ netif = NoAddr
  /\ main = "loadingIp"
  /\ httpd = "idle"
  /\ saveFailed = FALSE
  /\ s_retry_num = 0
  /\ bits = {}
  /\ group = FALSE
  /\ handlers = {}
  /\ events = <<>>
  /\ handling = "none"
  /\ station = "stopped"

PowerFails ==
  /\ netif' = NoAddr
  /\ main' = "loadingIp"
  /\ httpd' = "idle"
  /\ saveFailed' = FALSE
  /\ s_retry_num' = 0
  /\ bits' = {}
  /\ group' = FALSE
  /\ handlers' = {}
  /\ events' = <<>>
  /\ handling' = "none"
  /\ station' = "stopped"
  /\ UNCHANGED flash

-------------------------------------------------------------------------------
(* The main task: network_wifi_init, wifi_init_sta.                         *)

(* No part is EMPTY_IP_ADDR; a part may well be zero. *)
validate_ip_config(addr) == addr # EmptyAddr

(* The group is created, the handlers are registered, and the address       *)
(* loaded is set; the default one if there is none or it cannot be read.    *)
LoadIp(readable) ==
  /\ main = "loadingIp"
  /\ group' = TRUE
  /\ handlers' = {"WIFI_EVENT", "IP_EVENT"}
  /\ netif' = IF readable /\ flash # NoAddr /\ validate_ip_config(flash)
                THEN flash ELSE StaticAddr
  /\ main' = "savingIp"
  /\ UNCHANGED <<flash, saveFailed, httpd, eventTaskVars>>

(* save_ip_config, whose result nobody looks at. *)
Save(successful) ==
  /\ flash' = IF successful THEN netif ELSE flash
  /\ saveFailed' = ~successful
  /\ UNCHANGED netif

(* The address just loaded is saved again. *)
SaveLoadedIp(successful) ==
  /\ main = "savingIp"
  /\ Save(successful)
  /\ main' = "starting"
  /\ UNCHANGED <<httpd, registration, eventTaskVars>>

StartWifi ==
  /\ main = "starting"
  /\ station' = "down"
  /\ events' = Append(events, "STA_START")
  /\ main' = "waiting"
  /\ UNCHANGED <<addressVars, httpd, registration, handlerVars, handling>>

(* Faulty variant: the group is deleted as soon as the bits are known. *)
WaitBitsDeletingGroup ==
  /\ main = "waiting"
  /\ bits # {}
  /\ main' = "unregisteringIp"
  /\ group' = FALSE
  /\ UNCHANGED <<addressVars, httpd, handlers, eventTaskVars>>

(* Either bit ends the wait. *)
WaitBits ==
  /\ main = "waiting"
  /\ bits # {}
  /\ main' = "unregisteringIp"
  /\ UNCHANGED <<addressVars, httpd, registration, eventTaskVars>>

(* Unregistering waits for the event that is being handled. *)
Unregister(base, next) ==
  /\ handling = "none"
  /\ handlers' = handlers \ {base}
  /\ main' = next
  /\ UNCHANGED <<addressVars, httpd, group, eventTaskVars>>

UnregisterIp ==
  main = "unregisteringIp" /\ Unregister("IP_EVENT", "unregisteringWifi")

UnregisterWifi ==
  main = "unregisteringWifi" /\ Unregister("WIFI_EVENT", "deletingGroup")

(* http_server_init follows. *)
DeleteGroup ==
  /\ main = "deletingGroup"
  /\ group' = FALSE
  /\ main' = "serving"
  /\ UNCHANGED <<addressVars, httpd, handlers, eventTaskVars>>

-------------------------------------------------------------------------------
(* The event task.                                                          *)

(* An event is taken from the queue; the driver's own handlers come first:  *)
(* a connected station with a usable static address reports it.             *)
Dispatch ==
  /\ handling = "none"
  /\ events # <<>>
  /\ LET event == Head(events)
         base == IF event \in WifiEvents THEN "WIFI_EVENT" ELSE "IP_EVENT"
     IN  /\ handling' = IF base \in handlers THEN event ELSE "none"
         /\ events' = Tail(events) \o
                        IF event = "STA_CONNECTED" /\ netif \in Addresses
                          THEN <<"STA_GOT_IP">> ELSE <<>>
  /\ UNCHANGED <<addressVars, main, httpd, registration, handlerVars, station>>

(* wifi_event_handler returns. *)
Handled(event) ==
  /\ handling = event
  /\ handling' = "none"
  /\ UNCHANGED <<addressVars, main, httpd, registration, events>>

HandleStart ==
  /\ Handled("STA_START")
  /\ station' = "connecting"
  /\ UNCHANGED handlerVars

HandleConnected ==
  /\ Handled("STA_CONNECTED")
  /\ UNCHANGED <<handlerVars, station>>

(* Faulty variant: retries are not counted. *)
RetryUncounted ==
  /\ Handled("STA_DISCONNECTED")
  /\ s_retry_num < WIFI_MAXIMUM_RETRY
  /\ station' = "connecting"
  /\ UNCHANGED handlerVars

Retry ==
  /\ Handled("STA_DISCONNECTED")
  /\ s_retry_num < WIFI_MAXIMUM_RETRY
  /\ station' = "connecting"
  /\ s_retry_num' = s_retry_num + 1
  /\ UNCHANGED bits

(* Faulty variant: the last failure is reported and another retry made. *)
GiveUpConnecting ==
  /\ Handled("STA_DISCONNECTED")
  /\ s_retry_num >= WIFI_MAXIMUM_RETRY
  /\ bits' = bits \cup {WIFI_FAIL_BIT}
  /\ station' = "connecting"
  /\ UNCHANGED s_retry_num

GiveUp ==
  /\ Handled("STA_DISCONNECTED")
  /\ s_retry_num >= WIFI_MAXIMUM_RETRY
  /\ bits' = bits \cup {WIFI_FAIL_BIT}
  /\ UNCHANGED <<s_retry_num, station>>

HandleGotIp ==
  /\ Handled("STA_GOT_IP")
  /\ s_retry_num' = 0
  /\ bits' = bits \cup {CONNECTED_BIT}
  /\ UNCHANGED station

-------------------------------------------------------------------------------
(* The radio and the access point. *)

Post(event) ==
  /\ events' = Append(events, event)
  /\ UNCHANGED <<addressVars, main, httpd, registration, handlerVars, handling>>

Associate ==
  /\ station = "connecting"
  /\ station' = "up"
  /\ Post("STA_CONNECTED")

(* The attempt fails. *)
AssociateFails ==
  /\ station = "connecting"
  /\ station' = "down"
  /\ Post("STA_DISCONNECTED")

(* The access point goes away. *)
LinkLost ==
  /\ station = "up"
  /\ station' = "down"
  /\ Post("STA_DISCONNECTED")

-------------------------------------------------------------------------------
(* The web server's thread: post_ip_set_handler, network_wifi_set_ip.       *)

(* Faulty variant: the new address is not saved. *)
SetIpUnsaved(addr) ==
  /\ main = "serving"
  /\ httpd = "idle"
  /\ netif' = addr
  /\ UNCHANGED <<flash, saveFailed, main, httpd, registration, eventTaskVars>>

(* The address is set; that the driver reports it concerns nobody any more. *)
SetIp(addr) ==
  /\ main = "serving"
  /\ httpd = "idle"
  /\ netif' = addr
  /\ httpd' = "saving"
  /\ UNCHANGED <<flash, saveFailed, main, registration, eventTaskVars>>

SaveSetIp(successful) ==
  /\ httpd = "saving"
  /\ Save(successful)
  /\ httpd' = "idle"
  /\ UNCHANGED <<main, registration, eventTaskVars>>

-------------------------------------------------------------------------------
MainTask ==
  \/ \E ok \in BOOLEAN : LoadIp(ok) \/ SaveLoadedIp(ok)
  \/ StartWifi
  \/ WaitBits
  \/ UnregisterIp
  \/ UnregisterWifi
  \/ DeleteGroup

EventTask ==
  \/ Dispatch
  \/ HandleStart
  \/ HandleConnected
  \/ Retry
  \/ GiveUp
  \/ HandleGotIp

Attempt == Associate \/ AssociateFails

Httpd ==
  \/ \E addr \in Requests : SetIp(addr)
  \/ \E ok \in BOOLEAN : SaveSetIp(ok)

Next == MainTask \/ EventTask \/ Attempt \/ LinkLost \/ Httpd \/ PowerFails

Spec == Init /\ [][Next]_vars

(* The tasks run, and the radio ends every attempt one way or the other.    *)
(* The main task may have to wait for the event task again and again: it    *)
(* gets the mutex of the event loop when that task is done with its queue.  *)
FairSpec ==
  Spec /\ SF_vars(MainTask) /\ WF_vars(EventTask) /\ WF_vars(Attempt)

-------------------------------------------------------------------------------
(* Properties. *)

TypeOK ==
  /\ flash \in Config \cup {NoAddr}
  /\ netif \in Config \cup {NoAddr}
  /\ main \in MainSteps
  /\ httpd \in {"idle", "saving"}
  /\ saveFailed \in BOOLEAN
  /\ s_retry_num \in 0 .. WIFI_MAXIMUM_RETRY
  /\ bits \subseteq {CONNECTED_BIT, WIFI_FAIL_BIT}
  /\ group \in BOOLEAN
  /\ handlers \subseteq {"WIFI_EVENT", "IP_EVENT"}
  /\ events \in Seq(Events)
  /\ handling \in Events \cup {"none"}
  /\ station \in {"stopped", "down", "connecting", "up"}

(* wifi_event_handler never sets a bit of a group that was deleted under    *)
(* it, whatever events are still queued when the wait is over.              *)
HandlerFindsGroup == handling # "none" => group

(* Giving up is final: from the failure on, no attempt is made and no link  *)
(* comes up, though an address reported late may still set the other bit    *)
(* and the retry counter back.                                              *)
GivenUpStaysDown == WIFI_FAIL_BIT \in bits => station = "down"

(* The address survives.  The start-up never runs with one that was no      *)
(* address, though one may have been saved; and whenever no request is being *)
(* served, the next start will find the address that is in use now, unless   *)
(* the save failed: applying and saving never drift apart, be it across a    *)
(* loss of power between the two.                                            *)
AddressKept ==
  /\ TypeOK
  /\ main \notin {"loadingIp", "serving"} => netif \in Addresses \cup {ZeroAddr}
  /\ main = "serving" /\ httpd = "idle" /\ ~saveFailed => flash = netif

(* Waiting until either the connection is established or has failed for the *)
(* maximum number of retries: if the power stays on, the web server is      *)
(* started, whatever the access point does.                                 *)
StartupCompletes ==
  <>[](main # "loadingIp") => <>[](main = "serving")
===============================================================================
