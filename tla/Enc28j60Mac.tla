------------------------------ MODULE Enc28j60Mac -------------------------------
(***************************************************************************)
(* esp_eth_mac_enc28j60.c: the task that serves the interrupts, transmit,  *)
(* which the network stack calls, and the functions the Ethernet driver    *)
(* calls to set the chip up, start it and stop it.  The task and the other *)
(* threads interleave between SPI transactions wherever another thread or  *)
(* the chip can tell.                                                      *)
(***************************************************************************)
EXTENDS Enc28j60Chip

CONSTANTS
  MaxFrames,               \* bound on the calls of transmit
  MaxTraffic               \* bound on the calls and the packets together

ASSUME FramesAssumption == MaxFrames \in Nat

VARIABLES
  dev,       \* chip and driver
  tx_ready_sem,
  task,      \* emac_enc28j60_task: place and locals
  sender,    \* the caller of transmit
  stack      \* the last packet handed to stack_input

macVars == <<dev, tx_ready_sem, task, sender, stack>>

(* What MaxTraffic bounds: a history has few frames or more packets. *)
FrameWeight == 3
PacketWeight == 2
Traffic == FrameWeight * sender.frame + PacketWeight * dev.arrived

IdleTask == [pc |-> "wait", status |-> {}, packet |-> 0]
IdleSender == [pc |-> "idle", frame |-> 0]

MacInit(device) ==
  /\ dev = device
  /\ tx_ready_sem = 1
  /\ task = IdleTask
  /\ sender = IdleSender
  /\ stack = 0

-------------------------------------------------------------------------------
(* The interrupt pin, and the notification its falling edge gives the task. *)
Sources(d) == (IF d.pktcnt > 0 THEN {"PKTIF"} ELSE {}) \cup d.eir
Enabled(d) ==
  {f \in {"PKTIF", "TXIF", "TXERIF"} :
     [PKTIF |-> "PKTIE", TXIF |-> "TXIE", TXERIF |-> "TXERIE"][f] \in d.eie}
Asserted(d) == "INTIE" \in d.eie /\ Sources(d) \cap Enabled(d) # {}

(* enc28j60_isr_handler *)
Becomes(d) == dev' = [d EXCEPT !.notified = @ \/ (Asserted(d) /\ ~Asserted(dev))]

Goto(pc) == task' = [task EXCEPT !.pc = pc]

(* The task does something with the outcomes and goes to one of two places. *)
TaskStep(outcomes, done, failed) ==
  \E o \in outcomes :
    /\ Becomes(o.dev)
    /\ Goto(IF o.ok THEN done ELSE failed)
    /\ UNCHANGED <<tx_ready_sem, sender, stack>>

Wake ==
  /\ task.pc = "wait"
  /\ dev.notified \/ Asserted(dev)
  /\ TaskStep(enc28j60_do_bitwise_clr([dev EXCEPT !.notified = FALSE], "eie", {"INTIE"}),
              "status", "wait")

Dispatch(status) ==
  IF "PKTIF" \in status THEN "malloc"
  ELSE IF "TXERIF" \in status THEN "txerr"
  ELSE IF "TXIF" \in status THEN "txif" ELSE "end"

(* EIR and EIE are read, and EPKTCNT when the source is unknown: the chip   *)
(* may show PKTIF clear although packets wait (errata 6).                   *)
FromFlagsAlone(status) == status
FromFlagsAndCount(status) == IF status = {} /\ dev.pktcnt > 0 THEN {"PKTIF"} ELSE status

ReadMasks(d, unknown) ==
  LET masked == Then(Transaction(d, d), LAMBDA e : Transaction(e, e))
  IN  IF unknown THEN Then(masked, LAMBDA e : enc28j60_register_read(e, "EPKTCNT")) ELSE masked

ReadStatus ==
  /\ task.pc = "status"
  /\ \E flags \in {Sources(dev), Sources(dev) \ {"PKTIF"}} :
       LET status == flags \cap Enabled(dev)
           found == FromFlagsAndCount(status)
       IN  \E o \in ReadMasks(dev, status = {}) :
             /\ Becomes(o.dev)
             /\ task' = [task EXCEPT !.pc = IF o.ok THEN Dispatch(found) ELSE "end",
                                     !.status = found]
  /\ UNCHANGED <<tx_ready_sem, sender, stack>>

-------------------------------------------------------------------------------
(* The receive loop: emac_enc28j60_receive, one packet at a time. *)
AfterPacket(d) ==
  IF d.packets_remain THEN "malloc" ELSE Dispatch(task.status \ {"PKTIF"})

enc28j60_next_ptr_align_odd(next_packet_ptr) ==
  IF next_packet_ptr = ENC28J60_BUF_RX_START THEN ENC28J60_BUF_RX_END
  ELSE next_packet_ptr - 1

enc28j60_rx_packet_start_unwrapped(start_addr, off) == start_addr + off

enc28j60_rx_packet_start(start_addr, off) ==
  IF start_addr + off > ENC28J60_BUF_RX_END THEN start_addr + off - RingSize
  ELSE start_addr + off

(* The buffer, and the pointer to the header. *)
AllocateAndPoint(d) ==
  Then(Transaction(d, d), LAMBDA e : WritePair(e, "ERDPT", e.next_packet_ptr))

PointAtHeader ==
  /\ task.pc = "malloc"
  /\ TaskStep(AllocateAndPoint(dev), "header", AfterPacket(dev))

(* A header read anywhere but at the next packet is garbage, and so is what *)
(* the driver does from there on.                                           *)
HeaderThenPointer(d, found) ==
  Then(enc28j60_do_memory_read(d), LAMBDA e :
       IF found THEN WritePair(e, "ERDPT", enc28j60_rx_packet_start(e.next_packet_ptr, ENC28J60_RSV_SIZE))
       ELSE Done([e EXCEPT !.lost = TRUE]))

ReadHeader ==
  /\ task.pc = "header"
  /\ LET packet == PacketAt(dev, dev.registers.ERDPT)
     IN  \E o \in HeaderThenPointer(dev, packet = dev.freed + 1 /\ packet <= dev.arrived) :
           /\ Becomes(o.dev)
           /\ task' = [task EXCEPT !.pc = IF o.ok THEN "content" ELSE AfterPacket(o.dev),
                                   !.packet = packet]
  /\ UNCHANGED <<tx_ready_sem, sender, stack>>

(* The content is read where it lies, and nothing has been written over it. *)
ContentRight(d, packet) ==
  /\ d.registers.ERDPT = (PacketStart[packet] + ENC28J60_RSV_SIZE) % RingSize
  /\ Intact(d, packet)

(* The space is freed, the pointer moved and the chip's count taken down.  A *)
(* count that stays up promises a packet that is not there.                 *)
TakeDown(d) ==
  {IF o.ok THEN o ELSE [o EXCEPT !.dev = Slip(@, "count")]
     : o \in Transaction(d, [d EXCEPT !.pktcnt = IF @ > 0 THEN @ - 1 ELSE 0])}

FreeBufferSpace(d, packet) ==
  Then(WritePair(d, "ERXRDPT", enc28j60_next_ptr_align_odd(PacketStart[packet + 1])), LAMBDA w :
       TakeDown([w EXCEPT !.next_packet_ptr = PacketStart[packet + 1], !.freed = packet]))

ContentThenFree(d, packet) ==
  Then(enc28j60_do_memory_read(d), LAMBDA e :
       IF ContentRight(d, packet) THEN FreeBufferSpace(e, packet)
       ELSE Done([e EXCEPT !.lost = TRUE]))

FreePacket ==
  /\ task.pc = "content"
  /\ TaskStep(ContentThenFree(dev, task.packet), "count", AfterPacket(dev))

PassLastPacket(o) == o.ok /\ ~o.dev.packets_remain
PassPacket(o) == o.ok

(* packets_remain keeps its value when the count cannot be read. *)
ReadCount(d) ==
  {IF c.ok THEN [c EXCEPT !.dev.packets_remain = d.pktcnt > 0]
   ELSE IF d.packets_remain THEN [c EXCEPT !.dev = Slip(@, "count")] ELSE c
     : c \in enc28j60_register_read(d, "EPKTCNT")}

CountPackets ==
  /\ task.pc = "count"
  /\ \E o \in ReadCount(dev) :
       /\ Becomes(o.dev)
       /\ task' = [task EXCEPT !.pc = AfterPacket(o.dev), !.packet = 0]
       /\ stack' = IF PassPacket(o) THEN task.packet ELSE stack
  /\ UNCHANGED <<tx_ready_sem, sender>>

-------------------------------------------------------------------------------
(* The transmit error: the reset of the transmitter, and on B5 and B7 the   *)
(* retransmission after a late collision (errata 12 and 13).                *)
Retransmit(d) ==
  Then(enc28j60_do_bitwise_clr(d, "eir", {"TXIF"}), LAMBDA a :
  Then(enc28j60_do_bitwise_set(a, "eie", {"INTIE"}), LAMBDA b :
       enc28j60_do_bitwise_set(b, "econ1", {"TXRTS"})))

emac_enc28j60_get_tsv(d) ==
  Then(WritePair(d, "ERDPT", d.registers.ERDPT), enc28j60_do_memory_read)

ResetTransmitter(d) ==
  Then(enc28j60_do_bitwise_set(d, "econ1", {"TXRST"}), LAMBDA a :
  Then(enc28j60_do_bitwise_clr([a EXCEPT !.econ1 = @ \ {"TXRTS"}], "econ1", {"TXRST"}), LAMBDA b :
       enc28j60_do_bitwise_clr(b, "eir", {"TXERIF"})))

AfterRetransmitGivingSemaphore == "txif"
AfterRetransmit == "wait"

LateStatus(d) == d.revision \in {ENC28J60_REV_B5, ENC28J60_REV_B7}

HandleError(d, late) ==
  LET checked == IF LateStatus(d) THEN Then(ResetTransmitter(d), emac_enc28j60_get_tsv)
                 ELSE ResetTransmitter(d)
  IN  IF late THEN Then(checked, Retransmit) ELSE checked

TransmitError ==
  LET late == LateStatus(dev) /\ dev.lateCollision
  IN  /\ task.pc = "txerr"
      /\ TaskStep(HandleError(dev, late),
                  IF late THEN AfterRetransmit ELSE Dispatch(task.status \ {"PKTIF", "TXERIF"}),
                  "end")

ClearTransmitted(d) ==
  Then(enc28j60_do_bitwise_clr(d, "eir", {"TXIF"}), LAMBDA a :
       enc28j60_do_bitwise_clr(a, "eie", {"TXIE"}))

TransmitReady ==
  /\ task.pc = "txif"
  /\ \E o \in ClearTransmitted(dev) :
       /\ Becomes(o.dev)
       /\ tx_ready_sem' = IF o.ok THEN 1 ELSE tx_ready_sem
  /\ Goto("end")
  /\ UNCHANGED <<sender, stack>>

(* Without INTIE the pin stays high, and the task asleep. *)
RestoreInterrupts ==
  /\ task.pc = "end"
  /\ \E o \in enc28j60_do_bitwise_set(dev, "eie", {"INTIE"}) :
       Becomes(IF o.ok THEN o.dev ELSE Slip(o.dev, "INTIE"))
  /\ task' = IdleTask
  /\ UNCHANGED <<tx_ready_sem, sender, stack>>

emac_enc28j60_task ==
  \/ Wake \/ ReadStatus
  \/ PointAtHeader \/ ReadHeader \/ FreePacket \/ CountPackets
  \/ TransmitError \/ TransmitReady
  \/ RestoreInterrupts

-------------------------------------------------------------------------------
(* emac_enc28j60_transmit *)
SenderStep(outcomes, frame, done) ==
  \E o \in outcomes :
    /\ Becomes(o.dev)
    /\ sender' = [pc |-> IF o.ok THEN done ELSE "idle", frame |-> frame]
    /\ UNCHANGED <<task, stack>>

CheckTransmitter(d) ==
  SenderStep(Transaction(d, d), sender.frame + 1,
             IF "TXRTS" \in d.econ1 THEN "idle" ELSE "fill")

Called ==
  /\ dev.link_status = "UP" /\ sender.pc = "idle"
  /\ sender.frame < MaxFrames /\ Traffic + FrameWeight <= MaxTraffic

TakeSemaphore ==
  /\ Called /\ tx_ready_sem = 1
  /\ tx_ready_sem' = 0
  /\ CheckTransmitter(dev)

(* After ENC28J60_TX_READY_TIMEOUT_MS the call goes on all the same. *)
TakeExpires ==
  /\ Called /\ tx_ready_sem = 0
  /\ CheckTransmitter(Slip(dev, "expired"))
  /\ UNCHANGED tx_ready_sem

WriteFrame(d) ==
  Then(TouchPair(d, "EWRPT"), LAMBDA a :
  Then(TouchPair(a, "ETXND"), LAMBDA b :
  Then(enc28j60_do_memory_write(b), LAMBDA c :
  Then(enc28j60_do_memory_write(c), LAMBDA e :
  Then(enc28j60_do_bitwise_clr(e, "eir", {"TXIF"}), LAMBDA f :
       enc28j60_do_bitwise_set(f, "eie", {"TXIE"}))))))

FillBuffer ==
  /\ sender.pc = "fill"
  /\ SenderStep(WriteFrame(dev), sender.frame, "send")
  /\ UNCHANGED tx_ready_sem

Send ==
  /\ sender.pc = "send"
  /\ SenderStep(enc28j60_do_bitwise_set(dev, "econ1", {"TXRTS"}), sender.frame, "idle")
  /\ UNCHANGED tx_ready_sem

emac_enc28j60_transmit == TakeSemaphore \/ TakeExpires \/ FillBuffer \/ Send

-------------------------------------------------------------------------------
(* The chip: a packet arrives when there is room for it, a frame goes out or *)
(* fails with a collision (a failure of the wire, counted with the others).  *)
PacketArrives ==
  /\ "RXEN" \in dev.econ1
  /\ dev.arrived < Len(PacketLen) /\ Traffic + PacketWeight <= MaxTraffic
  /\ FreeSpace(dev) >= ENC28J60_RSV_SIZE + PacketLen[dev.arrived + 1]
  /\ Becomes([dev EXCEPT !.arrived = @ + 1, !.pktcnt = @ + 1])
  /\ UNCHANGED <<tx_ready_sem, task, sender, stack>>

FrameSent ==
  /\ "TXRTS" \in dev.econ1 /\ "TXRST" \notin dev.econ1
  /\ Becomes([dev EXCEPT !.econ1 = @ \ {"TXRTS"}, !.eir = @ \cup {"TXIF"},
                       !.lateCollision = FALSE])
  /\ UNCHANGED <<tx_ready_sem, task, sender, stack>>

FrameCollides ==
  /\ "TXRTS" \in dev.econ1 /\ "TXRST" \notin dev.econ1
  /\ MayFail(dev)
  /\ \E late \in BOOLEAN :
       Becomes([dev EXCEPT !.econ1 = @ \ {"TXRTS"}, !.eir = @ \cup {"TXIF", "TXERIF"},
                           !.lateCollision = late, !.faults = @ + 1])
  /\ UNCHANGED <<tx_ready_sem, task, sender, stack>>

Chip == PacketArrives \/ FrameSent \/ FrameCollides
===============================================================================
