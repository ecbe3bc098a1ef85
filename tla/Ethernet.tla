-------------------------------- MODULE Ethernet --------------------------------
(***************************************************************************)
(* Ethernet as a whole: the program initialises the modules, starts the    *)
(* one it has, stops it and deinitialises it, as the README of             *)
(* ethernet_init asks for; while the module runs, its task, the caller of  *)
(* transmit, the check of the link and the chip interleave.  A history     *)
(* ends where a garbage read has made everything after it arbitrary.       *)
(***************************************************************************)
EXTENDS EthernetInit

vars == <<linkVars, initVars>>

Init == EthernetInitInit

-------------------------------------------------------------------------------
(* One module carries traffic; two devices are only set up and taken down. *)
Start ==
  /\ main = "ready" /\ config.number = 1
  /\ main' = "running"
  /\ UNCHANGED <<linkVars, config, eth_cnt_g, eth_instance_g, heap, spi_devices, bus, isr_service, result>>

(* esp_eth_stop, under ESP_ERROR_CHECK; the check of the link has ended. *)
Stop ==
  /\ main = "running" /\ link.pc = "idle" /\ sender.pc = "idle"
  /\ \E o \in IF dev.link_status = "DOWN" THEN Done(dev)
              ELSE StopMac(WithFrame(dev)) :
       /\ dev' = [o.dev EXCEPT !.link_status = "DOWN"]
       /\ main' = IF o.ok THEN "stopped" ELSE "aborted"
  /\ UNCHANGED <<threads, config, eth_cnt_g, eth_instance_g, heap, spi_devices, bus, isr_service, result>>

ethernet_deinit_all ==
  /\ main = "stopped" \/ (main = "ready" /\ config.number > 1)
  /\ main' = "deinit"
  /\ UNCHANGED <<linkVars, config, eth_cnt_g, eth_instance_g, heap, spi_devices, bus, isr_service, result>>

Task == main \in {"running", "stopped"} /\ UNCHANGED <<link, initVars>> /\ emac_enc28j60_task
Sender == main = "running" /\ UNCHANGED <<link, initVars>> /\ emac_enc28j60_transmit
Link == main = "running" /\ UNCHANGED initVars /\ enc28j60_get_link
Wire == main = "running" /\ UNCHANGED <<link, initVars>> /\ Chip

Next ==
  /\ ~dev.lost
  /\ \/ InitStep
     \/ Start \/ Stop \/ ethernet_deinit_all
     \/ Task \/ Sender \/ Link \/ Wire

(* The task is woken by its notification or by the pin it looks at every    *)
(* second, the link is looked at every two seconds, and calls return.  That *)
(* a call fails or that somebody moves the cable is nobody's duty.          *)
Undisturbed == dev'.faults = dev.faults /\ dev'.cable = dev.cable

Fairness ==
  /\ WF_vars(~dev.lost /\ Task /\ Undisturbed)
  /\ WF_vars(~dev.lost /\ Link /\ Undisturbed)

FairSpec == Init /\ [][Next]_vars /\ Fairness

-------------------------------------------------------------------------------
TypeOK ==
  /\ main \in {"off", "internal", "isr", "bus", "mac", "revision", "phy", "install", "address", "installed",
               "undo", "unset", "duplex", "ready", "running", "stopped", "deinit", "aborted"}
  /\ eth_cnt_g \in 0 .. config.number
  /\ result \in {"none", "error", "ready"}
  /\ heap \subseteq {<<"handles", 0>>} \cup ({"mac", "phy", "driver"} \X (1 .. config.number))
  /\ tx_ready_sem \in {0, 1}
  /\ dev.pktcnt \in 0 .. Len(PacketLen)
  /\ dev.next_packet_ptr \in 0 .. ENC28J60_BUF_RX_END
  /\ dev.next_packet_ptr % 2 = 0 /\ dev.registers.ERXRDPT \in 0 .. ENC28J60_BUF_RX_END
  /\ dev.eir \subseteq {"TXIF", "TXERIF"}
  /\ dev.eie \subseteq {"PKTIE", "INTIE", "TXIE", "TXERIE"}
  /\ dev.econ1 \subseteq {"RXEN", "TXRTS", "TXRST"}
  /\ dev.faults \in 0 .. MaxFaults
  /\ stack \in 0 .. Len(PacketLen) /\ sender.frame \in 0 .. MaxFrames

(* Whatever fails and however the threads interleave, the bank the driver   *)
(* believes selected is the selected one, it keeps its place in the ring,    *)
(* and the chip writes over no packet that has not been freed, unless one of *)
(* the failures that slips names has happened: a bank half switched, a count *)
(* not taken down or not read while packets_remain stood, a read pointer     *)
(* reset under a read.                                                       *)
RxInStep ==
  /\ TypeOK
  /\ dev.last_bank # NoBank /\ "bank" \notin dev.slips => dev.bank = dev.last_bank
  /\ dev.slips \cap {"bank", "count", "ERDPT"} = {} =>
       /\ ~dev.lost
       /\ dev.next_packet_ptr = PacketStart[dev.freed + 1]
       /\ dev.pktcnt = dev.arrived - dev.freed
       /\ \A i \in dev.freed + 1 .. dev.arrived : Intact(dev, i)

(* The stack is handed every packet at most once and in the order of        *)
(* arrival, and without a failure it is handed every one.                   *)
StackInOrder ==
  [][stack' # stack /\ main' # "off" =>
       stack' > stack /\ (dev'.faults = 0 => stack' = stack + 1)]_vars

(* The semaphore is there only when the transmitter is at rest, the         *)
(* retransmission after a late collision included, and no frame is written  *)
(* over while it is sent, as long as no caller has given up waiting and the *)
(* MAC has not been stopped with a frame in hand.                           *)
SemaphoreMeansReady ==
  dev.slips \cap {"expired", "frame"} = {}
    /\ (tx_ready_sem = 1 \/ sender.pc \in {"fill", "send"}) =>
  "TXRTS" \notin dev.econ1

(* When the PHY has noted that the link is up, the MAC receives in the PHY's *)
(* duplex mode, with the interrupts of packets and transmit errors enabled   *)
(* (PKTIE and TXERIE; INTIE is the task's).  Failures of the notification    *)
(* are made up for, only half a stop is not, nor an access to another bank.  *)
MacFollowsLink ==
  dev.link_status = "UP" /\ link.pc = "idle" /\ "stop" \notin dev.slips /\ ~dev.lost =>
    /\ "RXEN" \in dev.econ1 /\ {"PKTIE", "TXERIE"} \subseteq dev.eie
    /\ dev.registers.MACON3 = dev.phy.duplex

(* ethernet_deinit_all and the error path of eth_init_spi delete only what  *)
(* exists, over repeated failing initialisations too, and one that has       *)
(* failed leaves nothing behind, but for a driver that could not be          *)
(* uninstalled and the bus if a MAC's constructor left its device there.     *)
ObjectsAccounted ==
  /\ main \in {"undo", "unset"} => Pointed(Current) \subseteq heap
  /\ \A i \in 1 .. eth_cnt_g : Followed(i) => Pointed(i) \cup {<<"driver", i>>} \subseteq heap
  /\ main = "off" /\ result = "error" =>
       /\ eth_cnt_g = 0 /\ ~isr_service
       /\ heap \subseteq {"driver"} \X (1 .. MaxModules)
       /\ bus = "free" \/ Orphan \in spi_devices

(* A packet in the ring is read, as long as the link stays up and no        *)
(* failure has cost the driver its place or its interrupts.                 *)
PacketsAreRead ==
  (dev.pktcnt > 0 /\ main = "running" /\ dev.link_status = "UP") ~>
    (dev.pktcnt = 0 \/ main # "running" \/ dev.link_status = "DOWN" \/ dev.lost
      \/ dev.slips \cap {"INTIE", "stop", "bank"} # {})

(* With the cable in, the link comes up and the MAC receives, however often *)
(* the steps on the way have failed.                                        *)
LinkComesUp ==
  <>[](main = "running" /\ dev.cable) =>
    <>(dev.lost \/ (dev.link_status = "UP" /\ "RXEN" \in dev.econ1))
===============================================================================
