----------------------------- MODULE Ethernet_proofs -----------------------------
(***************************************************************************)
(* Proofs about Ethernet: the bookkeeping of ethernet_init.c, the          *)
(* transmitter's semaphore, the link and the receive ring, for every        *)
(* number of modules, every revision of the chip, every size of the ring,   *)
(* all lengths of packets, every traffic and every number of failures.      *)
(***************************************************************************)
EXTENDS Ethernet, WellFoundedInduction, TLAPS

-------------------------------------------------------------------------------
(* The invariant of the set-up.                                             *)

Places ==
  {"off", "internal", "isr", "bus", "mac", "revision", "phy", "install", "address", "installed",
   "undo", "unset", "duplex", "ready", "running", "stopped", "deinit", "aborted"}

(* An instance is being set up, that is not counted yet. *)
InHand == {"revision", "phy", "install", "address", "installed", "undo", "unset"}

Instances ==
  [state : {"UNINITIALIZED", "INITIALIZED"}, eth_handle : BOOLEAN, pointers : SUBSET {"mac", "phy"}]

CountInv ==
  /\ main \in Places
  /\ config.number \in 1 .. MaxModules
  /\ config.internal => config.number > 1
  /\ eth_cnt_g \in 0 .. config.number
  /\ main \in {"off", "internal"} => eth_cnt_g = 0
  /\ main = "internal" => config.number > 1
  /\ main \in {"isr", "bus", "mac"} \cup InHand => eth_cnt_g < config.number

(* Every instance that is counted is one ethernet_deinit_all will follow.   *)
InstancesInv ==
  /\ eth_instance_g \in [1 .. MaxModules -> Instances]
  /\ \A i \in 1 .. eth_cnt_g : Followed(i)

(* The instances whose pointers lead to objects.  A record that is not one  *)
(* of them may be left from an earlier, failed initialisation.              *)
Live(i) == i \in 1 .. eth_cnt_g \/ (main \in InHand /\ i = Current)

Owned(o) == \E i \in 1 .. MaxModules : Live(i) /\ o \in Pointed(i)

(* What exists is what some live instance points to, and what may be left   *)
(* over; what is pointed to exists.                                         *)
HeapInv ==
  /\ \A i \in 1 .. MaxModules : Live(i) => Pointed(i) \subseteq heap
  /\ \A i \in 1 .. eth_cnt_g : <<"driver", i>> \in heap
  /\ main \in {"address", "installed"} => <<"driver", Current>> \in heap
  /\ main # "aborted" => \A o \in heap :
       \/ Owned(o)
       \/ o \in {"driver"} \X (1 .. MaxModules)
       \/ o = <<"handles", 0>> /\ main # "off"

BusInv ==
  /\ spi_devices \subseteq {Orphan} \cup ({"mac"} \X (1 .. MaxModules))
  /\ main # "aborted" => \A o \in spi_devices : Owned(o) \/ o = Orphan
  /\ main = "off" => ~isr_service /\ (bus = "free" \/ Orphan \in spi_devices)

ObjectsInv == CountInv /\ InstancesInv /\ HeapInv /\ BusInv

-------------------------------------------------------------------------------
(* The invariant of the transmitter and of the link.                        *)

(* The fields the proofs are about. *)
Fields == {"econ1", "eie", "eir", "link_status", "phy", "registers", "slips", "lost"}

IsDevice(d) == Fields \subseteq DOMAIN d /\ "MACON3" \in DOMAIN d.registers

(* Before the program starts the driver, nothing has happened on the chip   *)
(* and in the threads.                                                      *)
Idle == Places \ {"running", "stopped", "deinit", "aborted"}

Untouched(d) ==
  /\ IsDevice(d)
  /\ d.econ1 = {} /\ d.eie = {} /\ d.eir = {} /\ d.link_status = "DOWN"

QuietInv ==
  main \in Idle =>
    /\ Untouched(dev)
    /\ tx_ready_sem = 1 /\ task = IdleTask /\ sender = IdleSender /\ link = IdleLink

(* The status the task has read still decides what it does. *)
Serving == {"malloc", "header", "content", "count", "txerr", "txif"}

TaskInv ==
  /\ {"pc", "status"} \subseteq DOMAIN task
  /\ task.pc \in Serving \cup {"wait", "status", "end"}
  /\ task.pc = "txif" => "TXIF" \in task.status
  /\ task.pc = "txerr" => "TXERIF" \in task.status

ThreadsInv ==
  /\ TaskInv
  /\ tx_ready_sem \in {0, 1}
  /\ sender.pc \in {"idle", "fill", "send"}
  /\ {"pc", "seen"} \subseteq DOMAIN link
  /\ link.pc \in {"idle", "duplex", "enable", "pointer", "stop"}
  /\ link.seen \in {"UP", "DOWN"} /\ dev.link_status \in {"UP", "DOWN"}
  /\ link.pc \in {"duplex", "enable", "pointer"} => dev.link_status = "DOWN"
  /\ link.pc = "stop" => link.seen = "DOWN"

(* No frame is on its way: the semaphore is there, or its taker has not     *)
(* sent yet.                                                                *)
NoFrame == tx_ready_sem = 1 \/ sender.pc \in {"fill", "send"}

(* The task would find an error of the transmitter. *)
ErrorDue == "TXERIF" \in dev.eir /\ "TXERIE" \in dev.eie

(* A flag that the transmitter sets belongs to the one frame on its way,    *)
(* from the time the chip sets it until the task has dealt with it.         *)
FrameInv ==
  /\ tx_ready_sem = 1 => sender.pc = "idle"
  /\ NoFrame => "TXRTS" \notin dev.econ1 /\ "TXIF" \notin dev.eir /\ ~ErrorDue
  /\ "TXRTS" \in dev.econ1 => "TXIF" \notin dev.eir /\ ~ErrorDue
  /\ task.pc \in Serving /\ "TXIF" \in task.status =>
       /\ ~NoFrame /\ "TXRTS" \notin dev.econ1
       /\ ErrorDue => "TXERIF" \in task.status /\ task.pc # "txif"
  /\ task.pc \in Serving \ {"txif"} /\ "TXERIF" \in task.status => ~NoFrame
  /\ dev.link_status = "DOWN" => tx_ready_sem = 1
  /\ link.pc = "enable" => "TXERIF" \notin dev.eir

(* A caller of transmit has given up waiting, or a stop has met a frame.    *)
Astray == dev.slips \cap {"expired", "frame"} # {}

TransmitInv == Astray \/ FrameInv

Receives == "RXEN" \in dev.econ1 /\ {"PKTIE", "TXERIE"} \subseteq dev.eie
InDuplex == dev.registers.MACON3 = dev.phy.duplex

LinkInv ==
  ~dev.lost =>
    /\ dev.link_status = "UP" /\ "stop" \notin dev.slips => Receives /\ InDuplex
    /\ link.pc = "pointer" => Receives /\ InDuplex
    /\ link.pc = "enable" => InDuplex

TrafficInv == IsDevice(dev) /\ QuietInv /\ ThreadsInv /\ TransmitInv /\ LinkInv

InductiveInv == ObjectsInv /\ TrafficInv

-------------------------------------------------------------------------------
(* What an access to the chip leaves alone.                                 *)

Steady(d, e) ==
  /\ IsDevice(e)
  /\ d.slips \subseteq e.slips /\ (d.lost = TRUE => e.lost = TRUE)
  /\ e.link_status = d.link_status
  /\ e.phy = d.phy /\ e.registers.MACON3 = d.registers.MACON3

Same(d, e) ==
  /\ Steady(d, e)
  /\ e.econ1 = d.econ1 /\ e.eie = d.eie /\ e.eir = d.eir

IsOutcome(o) == {"dev", "ok"} \subseteq DOMAIN o

(* An outcome of a call that leaves control, link and PHY alone. *)
Keeps(d, o) == IsOutcome(o) /\ Same(d, o.dev)

LEMMA SameIsTransitive ==
  ASSUME NEW d, NEW e, NEW f, Same(d, e), Same(e, f)
  PROVE  Same(d, f)
  BY DEF Same, Steady

LEMMA SameIsReflexive ==
  ASSUME NEW d, IsDevice(d)
  PROVE  Same(d, d)
  BY DEF Same, Steady

LEMMA KeepsOn ==
  ASSUME NEW d, NEW e, NEW o, Same(d, e), Keeps(e, o)
  PROVE  Keeps(d, o) /\ IsDevice(o.dev)
<1>1. Same(d, o.dev)
  BY SameIsTransitive DEF Keeps
<1> QED
  BY <1>1 DEF Keeps, Same, Steady

LEMMA KeepsDevice ==
  ASSUME NEW d, NEW a, Keeps(d, a)
  PROVE  IsDevice(a.dev)
  BY DEF Keeps, Same, Steady

LEMMA KeepsChain ==
  ASSUME NEW d, NEW a, NEW o, Keeps(d, a), Keeps(a.dev, o)
  PROVE  Keeps(d, o)
  BY SameIsTransitive DEF Keeps

LEMMA DoneKeeps ==
  ASSUME NEW d, NEW e, Same(d, e), NEW o \in Done(e)
  PROVE  Keeps(d, o)
<1>1. o = [dev |-> e, ok |-> TRUE]
  BY DEF Done
<1> QED
  BY <1>1 DEF Keeps, IsOutcome

(* The device after a call that failed. *)
Faulty(d) == [d EXCEPT !.faults = @ + 1]

LEMMA TransactionOutcome ==
  ASSUME NEW d, NEW e, NEW o \in Transaction(d, e)
  PROVE  o = [dev |-> e, ok |-> TRUE] \/ o = [dev |-> Faulty(d), ok |-> FALSE]
  BY DEF Transaction, Done, Failed, Faulty

LEMMA FaultKeeps ==
  ASSUME NEW d, IsDevice(d)
  PROVE  Same(d, Faulty(d))
  BY DEF Same, Steady, IsDevice, Fields, Faulty

LEMMA TransactionKeeps ==
  ASSUME NEW d, NEW e, IsDevice(d), Same(d, e), NEW o \in Transaction(d, e)
  PROVE  Keeps(d, o)
<1>1. CASE o = [dev |-> e, ok |-> TRUE]
  BY <1>1 DEF Keeps, IsOutcome
<1>2. CASE o = [dev |-> Faulty(d), ok |-> FALSE]
  BY <1>2, FaultKeeps DEF Keeps, IsOutcome
<1> QED
  BY <1>1, <1>2, TransactionOutcome

LEMMA SlipKeeps ==
  ASSUME NEW d, NEW cause, IsDevice(d)
  PROVE  Same(d, Slip(d, cause))
  BY DEF Same, Steady, IsDevice, Fields, Slip

LEMMA SwitchKeeps ==
  ASSUME NEW d, IsDevice(d), NEW bank, NEW o \in enc28j60_switch_register_bank(d, bank)
  PROVE  Keeps(d, o)
<1>1. CASE bank = d.last_bank
  <2>1. enc28j60_switch_register_bank(d, bank) = Done(d)
    BY <1>1 DEF enc28j60_switch_register_bank, Then
  <2> QED
    BY <2>1, SameIsReflexive, DoneKeeps
<1>2. CASE bank # d.last_bank
  <2> DEFINE cleared == [d EXCEPT !.bank = 0]
             Select(c) == {IF p.ok THEN [p EXCEPT !.dev.last_bank = bank]
                           ELSE [p EXCEPT !.dev = Slip(@, "bank")]
                             : p \in Transaction(c, [c EXCEPT !.bank = bank])}
  <2>1. enc28j60_switch_register_bank(d, bank) =
          UNION {IF a.ok THEN Select(a.dev) ELSE {a} : a \in Transaction(d, cleared)}
    BY <1>2 DEF enc28j60_switch_register_bank, Then
  <2>2. Same(d, cleared)
    BY DEF Same, Steady, IsDevice, Fields
  <2> HIDE DEF Select, cleared
  <2>3. PICK a \in Transaction(d, cleared) : o \in IF a.ok THEN Select(a.dev) ELSE {a}
    BY <2>1
  <2>4. Keeps(d, a) /\ Same(d, a.dev) /\ IsDevice(a.dev)
    BY <2>2, <2>3, TransactionKeeps DEF Keeps, Same, Steady
  <2>5. CASE o \in Select(a.dev)
    <3> DEFINE c == a.dev
               e == [c EXCEPT !.bank = bank]
    <3>1. PICK p \in Transaction(c, e) :
            o = IF p.ok THEN [p EXCEPT !.dev.last_bank = bank]
                ELSE [p EXCEPT !.dev = Slip(@, "bank")]
      BY <2>5 DEF Select
    <3>2. Same(c, e)
      BY <2>4 DEF Same, Steady, IsDevice, Fields
    <3> HIDE DEF c, e
    <3>3. Keeps(c, p) /\ IsDevice(p.dev) /\ IsDevice(c)
      BY <2>4, <3>1, <3>2, TransactionKeeps DEF Keeps, Same, Steady, c
    <3>4. IsOutcome(o) /\ (o.dev = [p.dev EXCEPT !.last_bank = bank] \/ o.dev = Slip(p.dev, "bank"))
      BY <3>1, <3>3 DEF Keeps, IsOutcome
    <3>5. Same(p.dev, [p.dev EXCEPT !.last_bank = bank])
      BY <3>3 DEF Same, Steady, IsDevice, Fields
    <3>6. Same(p.dev, o.dev)
      BY <3>3, <3>4, <3>5, SlipKeeps
    <3>7. Same(c, o.dev)
      BY <3>3, <3>6, SameIsTransitive DEF Keeps
    <3> QED
      BY <2>4, <3>4, <3>7, SameIsTransitive DEF Keeps, c
  <2> QED
    BY <2>3, <2>4, <2>5
<1> QED
  BY <1>1, <1>2

LEMMA WriteKeeps ==
  ASSUME NEW d, IsDevice(d), NEW register, register # "MACON3", NEW value,
         NEW o \in enc28j60_register_write(d, register, value)
  PROVE  Keeps(d, o)
<1>1. \A c, p : IsDevice(c) /\ p \in enc28j60_do_register_write(c, register, value) => Keeps(c, p)
  <2> SUFFICES ASSUME NEW c, NEW p, IsDevice(c),
                      p \in enc28j60_do_register_write(c, register, value)
               PROVE  Keeps(c, p)
    OBVIOUS
  <2> DEFINE e == IF c.bank # BankOf[register] THEN [c EXCEPT !.lost = TRUE]
                  ELSE IF register \in DOMAIN c.registers
                       THEN [c EXCEPT !.registers[register] = value] ELSE c
  <2>1. Same(c, e)
    BY DEF Same, Steady, IsDevice, Fields
  <2> HIDE DEF e
  <2>2. p \in Transaction(c, e)
    BY DEF enc28j60_do_register_write, e
  <2> QED
    BY <2>1, <2>2, TransactionKeeps
<1>2. o \in enc28j60_switch_register_bank(d, BankOf[register]) \/
      \E a \in enc28j60_switch_register_bank(d, BankOf[register]) :
        o \in enc28j60_do_register_write(a.dev, register, value)
  BY DEF enc28j60_register_write, Then
<1> QED
  BY <1>1, <1>2, SwitchKeeps, KeepsDevice, KeepsChain

LEMMA ReadKeeps ==
  ASSUME NEW d, IsDevice(d), NEW register,
         NEW o \in enc28j60_register_read(d, register)
  PROVE  Keeps(d, o)
<1>1. \A c, p : IsDevice(c) /\ p \in enc28j60_do_register_read(c, register) => Keeps(c, p)
  <2> SUFFICES ASSUME NEW c, NEW p, IsDevice(c),
                      p \in enc28j60_do_register_read(c, register)
               PROVE  Keeps(c, p)
    OBVIOUS
  <2> DEFINE e == IF c.bank # BankOf[register] THEN [c EXCEPT !.lost = TRUE] ELSE c
  <2>1. Same(c, e)
    BY DEF Same, Steady, IsDevice, Fields
  <2> HIDE DEF e
  <2>2. p \in Transaction(c, e)
    BY DEF enc28j60_do_register_read, e
  <2> QED
    BY <2>1, <2>2, TransactionKeeps
<1>2. o \in enc28j60_switch_register_bank(d, BankOf[register]) \/
      \E a \in enc28j60_switch_register_bank(d, BankOf[register]) :
        o \in enc28j60_do_register_read(a.dev, register)
  BY DEF enc28j60_register_read, Then
<1> QED
  BY <1>1, <1>2, SwitchKeeps, KeepsDevice, KeepsChain

LEMMA MemoryKeeps ==
  ASSUME NEW d, IsDevice(d),
         NEW o \in enc28j60_do_memory_read(d) \cup enc28j60_do_memory_write(d)
  PROVE  Keeps(d, o)
<1> DEFINE e == [d EXCEPT !.registers.ERDPT = 0]
<1>1. Same(d, e) /\ Same(d, d)
  BY DEF Same, Steady, IsDevice, Fields
<1> HIDE DEF e
<1>2. o \in Transaction(d, e) \/ o \in Transaction(d, d)
  BY DEF enc28j60_do_memory_read, enc28j60_do_memory_write, e
<1> QED
  BY <1>1, <1>2, TransactionKeeps

LEMMA PairKeeps ==
  ASSUME NEW d, IsDevice(d), NEW register, register # "MACON3", NEW value,
         NEW o \in WritePair(d, register, value) \cup TouchPair(d, register)
  PROVE  Keeps(d, o)
<1>1. \E v, w :
        \/ o \in enc28j60_register_write(d, register, v)
        \/ \E a \in enc28j60_register_write(d, register, v) :
             o \in enc28j60_register_write(a.dev, register, w)
  BY DEF WritePair, TouchPair, Then
<1> QED
  BY <1>1, WriteKeeps, KeepsDevice, KeepsChain

(* The registers of the PHY. *)
LEMMA PhyReadKeeps ==
  ASSUME NEW d, IsDevice(d), NEW o \in emac_enc28j60_read_phy_reg(d)
  PROVE  Keeps(d, o)
<1> DEFINE R6(x) == Then(enc28j60_register_read(x, "MIRD"), LAMBDA y : enc28j60_register_read(y, "MIRD"))
           R5(x) == Then(enc28j60_register_write(x, "MICMD", 0), R6)
           R4(x) == Then(enc28j60_register_read(x, "MISTAT"), R5)
           R3(x) == Then(enc28j60_register_write(x, "MICMD", 1), R4)
           R2(x) == Then(enc28j60_register_write(x, "MIREGADR", 0), R3)
<1>1. o \in Then(enc28j60_register_read(d, "MISTAT"), R2)
  BY DEF emac_enc28j60_read_phy_reg, WaitNotBusy
<1> HIDE DEF R2, R3, R4, R5, R6
<1>2. \A x, p : IsDevice(x) /\ p \in R6(x) => Keeps(x, p)
  <2>1. \A x, p : p \in R6(x) =>
          p \in enc28j60_register_read(x, "MIRD") \/
          \E a \in enc28j60_register_read(x, "MIRD") : p \in enc28j60_register_read(a.dev, "MIRD")
    BY DEF Then, R6
  <2> QED
    BY <2>1, ReadKeeps, KeepsDevice, KeepsChain
<1>3. \A x, p : IsDevice(x) /\ p \in R5(x) => Keeps(x, p)
  <2>1. \A x, p : p \in R5(x) =>
          p \in enc28j60_register_write(x, "MICMD", 0) \/
          \E a \in enc28j60_register_write(x, "MICMD", 0) : p \in R6(a.dev)
    BY DEF Then, R5
  <2> QED
    BY <2>1, <1>2, WriteKeeps, KeepsDevice, KeepsChain
<1>4. \A x, p : IsDevice(x) /\ p \in R4(x) => Keeps(x, p)
  <2>1. \A x, p : p \in R4(x) =>
          p \in enc28j60_register_read(x, "MISTAT") \/
          \E a \in enc28j60_register_read(x, "MISTAT") : p \in R5(a.dev)
    BY DEF Then, R4
  <2> QED
    BY <2>1, <1>3, ReadKeeps, KeepsDevice, KeepsChain
<1>5. \A x, p : IsDevice(x) /\ p \in R3(x) => Keeps(x, p)
  <2>1. \A x, p : p \in R3(x) =>
          p \in enc28j60_register_write(x, "MICMD", 1) \/
          \E a \in enc28j60_register_write(x, "MICMD", 1) : p \in R4(a.dev)
    BY DEF Then, R3
  <2> QED
    BY <2>1, <1>4, WriteKeeps, KeepsDevice, KeepsChain
<1>6. \A x, p : IsDevice(x) /\ p \in R2(x) => Keeps(x, p)
  <2>1. \A x, p : p \in R2(x) =>
          p \in enc28j60_register_write(x, "MIREGADR", 0) \/
          \E a \in enc28j60_register_write(x, "MIREGADR", 0) : p \in R3(a.dev)
    BY DEF Then, R2
  <2> QED
    BY <2>1, <1>5, WriteKeeps, KeepsDevice, KeepsChain
<1>7. \/ o \in enc28j60_register_read(d, "MISTAT")
      \/ \E a \in enc28j60_register_read(d, "MISTAT") : o \in R2(a.dev)
  BY <1>1 DEF Then
<1> QED
  BY <1>6, <1>7, ReadKeeps, KeepsDevice, KeepsChain

-------------------------------------------------------------------------------
(* What sets the chip up leaves it without interrupts, receiver and link.   *)

Calm(o) == IsOutcome(o) /\ Untouched(o.dev)

LEMMA CalmKeeps ==
  ASSUME NEW d, Untouched(d), NEW o, Keeps(d, o)
  PROVE  Calm(o)
  BY DEF Calm, Untouched, Keeps, Same, Steady

LEMMA CalmDevice ==
  ASSUME NEW o, Calm(o)
  PROVE  Untouched(o.dev) /\ IsOutcome(o)
  BY DEF Calm

LEMMA CalmTransaction ==
  ASSUME NEW d, NEW e, Untouched(d), Untouched(e), NEW o \in Transaction(d, e)
  PROVE  Calm(o)
<1>1. CASE o = [dev |-> e, ok |-> TRUE]
  BY <1>1 DEF Calm, IsOutcome
<1>2. CASE o = [dev |-> Faulty(d), ok |-> FALSE]
  <2>1. Same(d, Faulty(d))
    BY FaultKeeps DEF Untouched
  <2> QED
    BY <1>2, <2>1 DEF Calm, IsOutcome, Untouched, Same, Steady
<1> QED
  BY <1>1, <1>2, TransactionOutcome

LEMMA CalmAccess ==
  ASSUME NEW d, Untouched(d), NEW register, NEW value,
         NEW o \in enc28j60_register_write(d, register, value) \cup enc28j60_register_read(d, register)
  PROVE  Calm(o)
<1>1. CASE o \in enc28j60_register_read(d, register)
  BY <1>1, ReadKeeps, CalmKeeps DEF Untouched
<1>2. CASE o \in enc28j60_register_write(d, register, value)
  <2>1. \A c, p : Untouched(c) /\ p \in enc28j60_do_register_write(c, register, value) => Calm(p)
    <3> SUFFICES ASSUME NEW c, NEW p, Untouched(c),
                        p \in enc28j60_do_register_write(c, register, value)
                 PROVE  Calm(p)
      OBVIOUS
    <3> DEFINE e == IF c.bank # BankOf[register] THEN [c EXCEPT !.lost = TRUE]
                    ELSE IF register \in DOMAIN c.registers
                         THEN [c EXCEPT !.registers[register] = value] ELSE c
    <3>1. Untouched(e)
      BY DEF Untouched, IsDevice, Fields
    <3> HIDE DEF e
    <3>2. p \in Transaction(c, e)
      BY DEF enc28j60_do_register_write, e
    <3> QED
      BY <3>1, <3>2, CalmTransaction
  <2>2. o \in enc28j60_switch_register_bank(d, BankOf[register]) \/
        \E a \in enc28j60_switch_register_bank(d, BankOf[register]) :
          o \in enc28j60_do_register_write(a.dev, register, value)
    BY <1>2 DEF enc28j60_register_write, Then
  <2>3. \A a \in enc28j60_switch_register_bank(d, BankOf[register]) : Calm(a)
    BY SwitchKeeps, CalmKeeps DEF Untouched
  <2> QED
    BY <2>1, <2>2, <2>3, CalmDevice
<1> QED
  BY <1>1, <1>2

LEMMA CalmPair ==
  ASSUME NEW d, Untouched(d), NEW register, register # "MACON3", NEW value,
         NEW o \in WritePair(d, register, value) \cup TouchPair(d, register)
  PROVE  Calm(o)
  BY PairKeeps, CalmKeeps DEF Untouched

LEMMA CalmPhyRead ==
  ASSUME NEW d, Untouched(d), NEW o \in emac_enc28j60_read_phy_reg(d)
  PROVE  Calm(o)
  BY PhyReadKeeps, CalmKeeps DEF Untouched

PhySet(d, phy) ==
  {IF o.ok THEN [o EXCEPT !.dev.phy = phy] ELSE o : o \in enc28j60_register_write(d, "MIWR", 0)}

LEMMA CalmPhySet ==
  ASSUME NEW d, Untouched(d), NEW phy, NEW o \in PhySet(d, phy)
  PROVE  Calm(o)
<1>1. PICK p \in enc28j60_register_write(d, "MIWR", 0) :
        o = IF p.ok THEN [p EXCEPT !.dev.phy = phy] ELSE p
  BY DEF PhySet
<1>2. Calm(p)
  BY CalmAccess
<1>3. IsOutcome(o) /\ (o.dev = [p.dev EXCEPT !.phy = phy] \/ o.dev = p.dev)
  BY <1>1, <1>2 DEF Calm, IsOutcome
<1>4. Untouched([p.dev EXCEPT !.phy = phy])
  BY <1>2 DEF Calm, Untouched, IsDevice, Fields
<1> QED
  BY <1>2, <1>3, <1>4 DEF Calm

LEMMA CalmPhyWrite ==
  ASSUME NEW d, Untouched(d), NEW phy, NEW o \in emac_enc28j60_write_phy_reg(d, phy)
  PROVE  Calm(o)
<1> DEFINE R4(x) == Then(PhySet(x, phy), LAMBDA y : enc28j60_register_read(y, "MISTAT"))
           R3(x) == Then(enc28j60_register_write(x, "MIWR", 0), R4)
           R2(x) == Then(enc28j60_register_write(x, "MIREGADR", 0), R3)
<1>1. o \in Then(enc28j60_register_read(d, "MISTAT"), R2)
  BY DEF emac_enc28j60_write_phy_reg, WaitNotBusy, PhySet
<1> HIDE DEF R2, R3, R4
<1>2. \A x, p : Untouched(x) /\ p \in R4(x) => Calm(p)
  <2>1. \A x, p : p \in R4(x) =>
          p \in PhySet(x, phy) \/
          \E a \in PhySet(x, phy) : p \in enc28j60_register_read(a.dev, "MISTAT")
    BY DEF Then, R4, PhySet
  <2> QED
    BY <2>1, CalmAccess, CalmPhySet, CalmDevice
<1>3. \A x, p : Untouched(x) /\ p \in R3(x) => Calm(p)
  <2>1. \A x, p : p \in R3(x) =>
          p \in enc28j60_register_write(x, "MIWR", 0) \/
          \E a \in enc28j60_register_write(x, "MIWR", 0) : p \in R4(a.dev)
    BY DEF Then, R3, PhySet
  <2> QED
    BY <2>1, <1>2, CalmAccess, CalmDevice
<1>4. \A x, p : Untouched(x) /\ p \in R2(x) => Calm(p)
  <2>1. \A x, p : p \in R2(x) =>
          p \in enc28j60_register_write(x, "MIREGADR", 0) \/
          \E a \in enc28j60_register_write(x, "MIREGADR", 0) : p \in R3(a.dev)
    BY DEF Then, R2, PhySet
  <2> QED
    BY <2>1, <1>3, CalmAccess, CalmDevice
<1>5. \/ o \in enc28j60_register_read(d, "MISTAT")
      \/ \E a \in enc28j60_register_read(d, "MISTAT") : o \in R2(a.dev)
  BY <1>1 DEF Then
<1> QED
  BY <1>4, <1>5, CalmAccess, CalmDevice

LEMMA CalmUpdatePhy ==
  ASSUME NEW d, Untouched(d), NEW phy, NEW o \in UpdatePhy(d, phy)
  PROVE  Calm(o)
<1>1. \/ o \in emac_enc28j60_read_phy_reg(d)
      \/ \E a \in emac_enc28j60_read_phy_reg(d) : o \in emac_enc28j60_write_phy_reg(a.dev, phy)
  BY DEF UpdatePhy, Then
<1> QED
  BY <1>1, CalmPhyRead, CalmPhyWrite, CalmDevice

(* Bringing the link down leaves it down. *)
LEMMA CalmDown ==
  ASSUME NEW d, Untouched(d)
  PROVE  Untouched([d EXCEPT !.link_status = "DOWN"])
  BY DEF Untouched, IsDevice, Fields

LEMMA CalmPowerOn ==
  ASSUME NEW d, Untouched(d), NEW o \in enc28j60_pwrctl_on(d)
  PROVE  Calm(o)
<1>1. \/ o \in UpdatePhy(d, [d.phy EXCEPT !.power = TRUE])
      \/ \E a \in UpdatePhy(d, [d.phy EXCEPT !.power = TRUE]) : o \in emac_enc28j60_read_phy_reg(a.dev)
  BY DEF enc28j60_pwrctl_on, Then
<1> QED
  BY <1>1, CalmUpdatePhy, CalmPhyRead, CalmDevice

LEMMA CalmPhyReset ==
  ASSUME NEW d, Untouched(d), NEW o \in enc28j60_reset(d)
  PROVE  Calm(o)
<1> DEFINE down == [d EXCEPT !.link_status = "DOWN"]
           phy == [power |-> TRUE, duplex |-> "half", loopback |-> TRUE]
<1>1. Untouched(down)
  BY CalmDown
<1>2. o \in emac_enc28j60_write_phy_reg(down, phy) \/
      \E a \in emac_enc28j60_write_phy_reg(down, phy) : o \in emac_enc28j60_read_phy_reg(a.dev)
  BY DEF enc28j60_reset, Then
<1> HIDE DEF down, phy
<1> QED
  BY <1>1, <1>2, CalmPhyWrite, CalmPhyRead, CalmDevice

LEMMA CalmSetDuplex ==
  ASSUME NEW d, Untouched(d), NEW duplex, NEW o \in enc28j60_set_duplex(d, duplex)
  PROVE  Calm(o)
<1> DEFINE down == [d EXCEPT !.link_status = "DOWN"]
           phy == [d.phy EXCEPT !.duplex = duplex]
<1>1. Untouched(down)
  BY CalmDown
<1>2. o \in UpdatePhy(down, phy)
  BY DEF enc28j60_set_duplex
<1> HIDE DEF down, phy
<1> QED
  BY <1>1, <1>2, CalmUpdatePhy

LEMMA CalmPhyInit ==
  ASSUME NEW d, Untouched(d), NEW o \in enc28j60_init(d)
  PROVE  Calm(o)
<1> DEFINE R4(x) == Then(emac_enc28j60_read_phy_reg(x), LAMBDA y : UpdatePhy(y, [y.phy EXCEPT !.loopback = FALSE]))
           R3(x) == Then(emac_enc28j60_read_phy_reg(x), R4)
           R2(x) == Then(enc28j60_reset(x), R3)
<1>1. o \in Then(enc28j60_pwrctl_on(d), R2)
  BY DEF enc28j60_init
<1> HIDE DEF R2, R3, R4
<1>2. \A x, p : Untouched(x) /\ p \in R4(x) => Calm(p)
  <2>1. \A x, p : p \in R4(x) =>
          p \in emac_enc28j60_read_phy_reg(x) \/
          \E a \in emac_enc28j60_read_phy_reg(x) :
            p \in UpdatePhy(a.dev, [a.dev.phy EXCEPT !.loopback = FALSE])
    BY DEF Then, R4
  <2> QED
    BY <2>1, CalmUpdatePhy, CalmPhyRead, CalmDevice
<1>3. \A x, p : Untouched(x) /\ p \in R3(x) => Calm(p)
  <2>1. \A x, p : p \in R3(x) =>
          p \in emac_enc28j60_read_phy_reg(x) \/
          \E a \in emac_enc28j60_read_phy_reg(x) : p \in R4(a.dev)
    BY DEF Then, R3
  <2> QED
    BY <2>1, <1>2, CalmPhyRead, CalmDevice
<1>4. \A x, p : Untouched(x) /\ p \in R2(x) => Calm(p)
  <2>1. \A x, p : p \in R2(x) =>
          p \in enc28j60_reset(x) \/
          \E a \in enc28j60_reset(x) : p \in R3(a.dev)
    BY DEF Then, R2
  <2> QED
    BY <2>1, <1>3, CalmPhyReset, CalmDevice
<1>5. o \in enc28j60_pwrctl_on(d) \/ \E a \in enc28j60_pwrctl_on(d) : o \in R2(a.dev)
  BY <1>1 DEF Then
<1> QED
  BY <1>4, <1>5, CalmPowerOn, CalmDevice

LEMMA CalmReset ==
  ASSUME NEW d, Untouched(d), NEW o \in enc28j60_do_reset(d)
  PROVE  Calm(o)
<1> DEFINE e == [d EXCEPT !.bank = 0, !.econ1 = {}, !.eie = {}, !.eir = {}, !.pktcnt = 0]
<1>1. Untouched(e)
  BY DEF Untouched, IsDevice, Fields
<1>2. o \in Transaction(d, e)
  BY DEF enc28j60_do_reset
<1> HIDE DEF e
<1> QED
  BY <1>1, <1>2, CalmTransaction

LEMMA CalmVerify ==
  ASSUME NEW d, Untouched(d), NEW o \in enc28j60_verify_id(d)
  PROVE  Calm(o)
<1> DEFINE Known == {IF p.ok THEN [p EXCEPT !.dev.revision = p.dev.revisionID] ELSE p
                      : p \in enc28j60_register_read(d, "EREVID")}
           Answer(r) == {[dev |-> r, ok |-> r.revision \in ENC28J60_REV_B1 .. ENC28J60_REV_B7]}
<1>1. o \in Known \/ \E a \in Known : o \in Answer(a.dev)
  BY DEF enc28j60_verify_id, Then
<1>2. \A a \in Known : Calm(a)
  <2> SUFFICES ASSUME NEW a \in Known PROVE Calm(a)
    OBVIOUS
  <2>1. PICK p \in enc28j60_register_read(d, "EREVID") :
          a = IF p.ok THEN [p EXCEPT !.dev.revision = p.dev.revisionID] ELSE p
    OBVIOUS
  <2>2. Calm(p)
    BY CalmAccess
  <2>3. /\ IsOutcome(a)
        /\ a.dev = [p.dev EXCEPT !.revision = p.dev.revisionID] \/ a.dev = p.dev
    BY <2>1, <2>2 DEF Calm, IsOutcome
  <2>4. Untouched([p.dev EXCEPT !.revision = p.dev.revisionID])
    BY <2>2 DEF Calm, Untouched, IsDevice, Fields
  <2> QED
    BY <2>2, <2>3, <2>4 DEF Calm
<1>3. \A a : Calm(a) => \A p \in Answer(a.dev) : Calm(p)
  BY DEF Calm, IsOutcome
<1> HIDE DEF Known, Answer
<1> QED
  BY <1>1, <1>2, <1>3

LEMMA CalmSetupDefault ==
  ASSUME NEW d, Untouched(d), NEW o \in enc28j60_setup_default(d)
  PROVE  Calm(o)
<1> DEFINE R9(x) == Then(enc28j60_register_write(x, "MABBIPG", 18), LAMBDA y : TouchPair(y, "MAIPG"))
           R8(x) == Then(enc28j60_register_write(x, "MACON4", 0), R9)
           R7(x) == Then(enc28j60_register_write(x, "MACON3", "half"), R8)
           R6(x) == Then(enc28j60_register_write(x, "MACON1", 0), R7)
           R5(x) == Then(enc28j60_register_write(x, "ERXFCON", 0), R6)
           R4(x) == Then(TouchPair(x, "ETXST"), R5)
           R3(x) == Then(WritePair(x, "ERXRDPT", enc28j60_next_ptr_align_odd(ENC28J60_BUF_RX_START)), R4)
           R2(x) == Then(TouchPair(x, "ERXND"), R3)
<1>1. o \in Then(TouchPair(d, "ERXST"), R2)
  BY DEF enc28j60_setup_default
<1> HIDE DEF R2, R3, R4, R5, R6, R7, R8, R9
<1>2. \A x, p : Untouched(x) /\ p \in R9(x) => Calm(p)
  <2>1. \A x, p : p \in R9(x) =>
          p \in enc28j60_register_write(x, "MABBIPG", 18) \/
          \E a \in enc28j60_register_write(x, "MABBIPG", 18) : p \in TouchPair(a.dev, "MAIPG")
    BY DEF Then, R9
  <2> QED
    BY <2>1, CalmPair, CalmAccess, CalmDevice
<1>3. \A x, p : Untouched(x) /\ p \in R8(x) => Calm(p)
  <2>1. \A x, p : p \in R8(x) =>
          p \in enc28j60_register_write(x, "MACON4", 0) \/
          \E a \in enc28j60_register_write(x, "MACON4", 0) : p \in R9(a.dev)
    BY DEF Then, R8
  <2> QED
    BY <2>1, <1>2, CalmAccess, CalmDevice
<1>4. \A x, p : Untouched(x) /\ p \in R7(x) => Calm(p)
  <2>1. \A x, p : p \in R7(x) =>
          p \in enc28j60_register_write(x, "MACON3", "half") \/
          \E a \in enc28j60_register_write(x, "MACON3", "half") : p \in R8(a.dev)
    BY DEF Then, R7
  <2> QED
    BY <2>1, <1>3, CalmAccess, CalmDevice
<1>5. \A x, p : Untouched(x) /\ p \in R6(x) => Calm(p)
  <2>1. \A x, p : p \in R6(x) =>
          p \in enc28j60_register_write(x, "MACON1", 0) \/
          \E a \in enc28j60_register_write(x, "MACON1", 0) : p \in R7(a.dev)
    BY DEF Then, R6
  <2> QED
    BY <2>1, <1>4, CalmAccess, CalmDevice
<1>6. \A x, p : Untouched(x) /\ p \in R5(x) => Calm(p)
  <2>1. \A x, p : p \in R5(x) =>
          p \in enc28j60_register_write(x, "ERXFCON", 0) \/
          \E a \in enc28j60_register_write(x, "ERXFCON", 0) : p \in R6(a.dev)
    BY DEF Then, R5
  <2> QED
    BY <2>1, <1>5, CalmAccess, CalmDevice
<1>7. \A x, p : Untouched(x) /\ p \in R4(x) => Calm(p)
  <2>1. \A x, p : p \in R4(x) =>
          p \in TouchPair(x, "ETXST") \/
          \E a \in TouchPair(x, "ETXST") : p \in R5(a.dev)
    BY DEF Then, R4
  <2> QED
    BY <2>1, <1>6, CalmPair, CalmDevice
<1>8. \A x, p : Untouched(x) /\ p \in R3(x) => Calm(p)
  <2>1. \A x, p : p \in R3(x) =>
          p \in WritePair(x, "ERXRDPT", enc28j60_next_ptr_align_odd(ENC28J60_BUF_RX_START)) \/
          \E a \in WritePair(x, "ERXRDPT", enc28j60_next_ptr_align_odd(ENC28J60_BUF_RX_START)) :
            p \in R4(a.dev)
    BY DEF Then, R3
  <2> QED
    BY <2>1, <1>7, CalmPair, CalmDevice
<1>9. \A x, p : Untouched(x) /\ p \in R2(x) => Calm(p)
  <2>1. \A x, p : p \in R2(x) =>
          p \in TouchPair(x, "ERXND") \/
          \E a \in TouchPair(x, "ERXND") : p \in R3(a.dev)
    BY DEF Then, R2
  <2> QED
    BY <2>1, <1>8, CalmPair, CalmDevice
<1>10. o \in TouchPair(d, "ERXST") \/ \E a \in TouchPair(d, "ERXST") : o \in R2(a.dev)
  BY <1>1 DEF Then
<1> QED
  BY <1>9, <1>10, CalmPair, CalmDevice

LEMMA CalmRows ==
  ASSUME NEW d, Untouched(d),
         NEW o \in enc28j60_clear_multicast_table(d) \cup enc28j60_set_mac_addr(d)
  PROVE  Calm(o)
  BY CalmPair DEF enc28j60_clear_multicast_table, enc28j60_set_mac_addr

LEMMA CalmMacInit ==
  ASSUME NEW d, Untouched(d), NEW o \in emac_enc28j60_init(d)
  PROVE  Calm(o)
<1> DEFINE R3(x) == Then(enc28j60_setup_default(x), enc28j60_clear_multicast_table)
           R2(x) == Then(enc28j60_verify_id(x), R3)
<1>1. o \in Then(enc28j60_do_reset(d), R2)
  BY DEF emac_enc28j60_init
<1> HIDE DEF R2, R3
<1>2. \A x, p : Untouched(x) /\ p \in R3(x) => Calm(p)
  <2>1. \A x, p : p \in R3(x) =>
          p \in enc28j60_setup_default(x) \/
          \E a \in enc28j60_setup_default(x) : p \in enc28j60_clear_multicast_table(a.dev)
    BY DEF Then, R3
  <2> QED
    BY <2>1, CalmRows, CalmSetupDefault, CalmDevice
<1>3. \A x, p : Untouched(x) /\ p \in R2(x) => Calm(p)
  <2>1. \A x, p : p \in R2(x) =>
          p \in enc28j60_verify_id(x) \/
          \E a \in enc28j60_verify_id(x) : p \in R3(a.dev)
    BY DEF Then, R2
  <2> QED
    BY <2>1, <1>2, CalmVerify, CalmDevice
<1>4. o \in enc28j60_do_reset(d) \/ \E a \in enc28j60_do_reset(d) : o \in R2(a.dev)
  BY <1>1 DEF Then
<1> QED
  BY <1>3, <1>4, CalmReset, CalmDevice

-------------------------------------------------------------------------------
(* The set-up keeps its invariant.                                          *)

LEMMA ObjectsStart == Init => ObjectsInv
<1> SUFFICES ASSUME Init PROVE ObjectsInv
  OBVIOUS
<1>1. /\ main = "off" /\ eth_cnt_g = 0 /\ heap = {} /\ spi_devices = {}
      /\ bus = "free" /\ isr_service = FALSE
      /\ config.number \in 1 .. MaxModules
      /\ config.internal => config.number > 1
  BY DEF Init, EthernetInitInit
<1>2. CountInv
  BY <1>1, ModulesAssumption DEF CountInv, Places, InHand
<1>3. InstancesInv
  <2>1. NoInstance \in Instances
    BY DEF NoInstance, Instances
  <2> QED
    BY <1>1, <2>1 DEF Init, EthernetInitInit, InstancesInv
<1>4. HeapInv
  BY <1>1 DEF HeapInv, Live, InHand
<1>5. BusInv
  BY <1>1 DEF BusInv
<1> QED
  BY <1>2, <1>3, <1>4, <1>5 DEF ObjectsInv

(* Instances that are counted, and the one in hand, are among the modules.  *)
LEMMA Counted ==
  ASSUME CountInv
  PROVE  /\ eth_cnt_g \in Nat /\ config.number \in Nat /\ MaxModules \in Nat
         /\ eth_cnt_g <= config.number /\ config.number <= MaxModules
         /\ \A i \in 1 .. eth_cnt_g : i \in 1 .. MaxModules /\ i # Current
         /\ main \in {"isr", "bus", "mac"} \cup InHand => Current \in 1 .. MaxModules
  BY ModulesAssumption DEF CountInv, Current

LEMMA PointedAre ==
  ASSUME InstancesInv, NEW i \in 1 .. MaxModules
  PROVE  /\ \A o \in Pointed(i) : o = <<"mac", i>> \/ o = <<"phy", i>>
         /\ \A kind : <<kind, i>> \in Pointed(i) <=> kind \in eth_instance_g[i].pointers
<1>1. eth_instance_g[i].pointers \subseteq {"mac", "phy"}
  BY DEF InstancesInv, Instances
<1> QED
  BY <1>1 DEF Pointed

(* Only the place in the program changes, and not whether an instance is in *)
(* hand.                                                                    *)
LEMMA MainMoves ==
  ASSUME ObjectsInv,
         UNCHANGED <<config, eth_cnt_g, eth_instance_g, heap, spi_devices>>,
         main # "aborted", main' \in Places \ {"off", "internal", "address"},
         main' \in InHand <=> main \in InHand,
         main' \in {"isr", "bus", "mac"} => eth_cnt_g < config.number,
         main' = "installed" => main = "address"
  PROVE  ObjectsInv'
<1>1. CountInv'
  BY DEF ObjectsInv, CountInv
<1>2. InstancesInv'
  BY DEF ObjectsInv, InstancesInv, Followed
<1>3. \A i : (Live(i)' <=> Live(i)) /\ Pointed(i)' = Pointed(i) /\ Current' = Current
  BY DEF Live, Pointed, Current
<1>4. \A o : Owned(o)' <=> Owned(o)
  BY <1>3 DEF Owned
<1>5. HeapInv'
  BY <1>3, <1>4 DEF ObjectsInv, HeapInv
<1>6. BusInv'
  BY <1>4 DEF ObjectsInv, BusInv
<1> QED
  BY <1>1, <1>2, <1>5, <1>6 DEF ObjectsInv

LEMMA InitAllSteps ==
  ASSUME ObjectsInv, ethernet_init_all
  PROVE  ObjectsInv'
<1>1. /\ main = "off" /\ eth_cnt_g = 0 /\ eth_cnt_g' = 0
      /\ main' = IF config.internal THEN "internal" ELSE "isr"
      /\ heap' = heap \cup {<<"handles", 0>>}
      /\ UNCHANGED <<config, eth_instance_g, spi_devices, bus>>
  BY DEF ethernet_init_all, ObjectsInv, CountInv
<1>2. CountInv'
  BY <1>1, Counted DEF ObjectsInv, CountInv, Places, InHand
<1>3. InstancesInv'
  BY <1>1 DEF ObjectsInv, InstancesInv
<1>4. \A i : ~Live(i) /\ ~Live(i)'
  BY <1>1 DEF Live, InHand
<1>5. HeapInv'
  BY <1>1, <1>4 DEF ObjectsInv, HeapInv, Owned
<1>6. BusInv'
  BY <1>1, <1>4 DEF ObjectsInv, BusInv, Owned
<1> QED
  BY <1>2, <1>3, <1>5, <1>6 DEF ObjectsInv

LEMMA PointersSet ==
  ASSUME InstancesInv, NEW c \in 1 .. MaxModules, NEW pointers \in SUBSET {"mac", "phy"},
         eth_instance_g' = [eth_instance_g EXCEPT ![c].pointers = pointers]
  PROVE  /\ eth_instance_g' \in [1 .. MaxModules -> Instances]
         /\ Pointed(c)' = {<<kind, c>> : kind \in pointers}
         /\ \A i \in 1 .. MaxModules : i # c =>
              Pointed(i)' = Pointed(i) /\ (Followed(i)' <=> Followed(i))
<1>1. eth_instance_g \in [1 .. MaxModules -> Instances]
  BY DEF InstancesInv
<1>2. [eth_instance_g[c] EXCEPT !.pointers = pointers] \in Instances
  BY <1>1 DEF Instances
<1>3. /\ eth_instance_g' \in [1 .. MaxModules -> Instances]
      /\ eth_instance_g'[c].pointers = pointers
      /\ \A i \in 1 .. MaxModules : i # c => eth_instance_g'[i] = eth_instance_g[i]
  BY <1>1, <1>2 DEF Instances
<1> QED
  BY <1>3 DEF Pointed, Followed

LEMMA InternalSteps ==
  ASSUME ObjectsInv, eth_init_internal
  PROVE  ObjectsInv'
<1>1. /\ main = "internal" /\ eth_cnt_g = 0 /\ config.number > 1
      /\ Current = 1 /\ 1 \in 1 .. MaxModules
      /\ UNCHANGED <<config, spi_devices, bus>>
      /\ \A i : ~Live(i)
  BY Counted DEF eth_init_internal, ObjectsInv, CountInv, Current, Live, InHand
<1>2. CASE /\ heap' = heap \cup ({"mac", "phy", "driver"} \X {Current})
           /\ eth_instance_g' = [eth_instance_g EXCEPT ![Current] =
                [state |-> "INITIALIZED", eth_handle |-> TRUE, pointers |-> {"mac", "phy"}]]
           /\ eth_cnt_g' = eth_cnt_g + 1
           /\ main' = "isr"
  <2>1. eth_cnt_g' = 1 /\ main' = "isr"
    BY <1>1, <1>2
  <2>2. CountInv'
    BY <1>1, <2>1, Counted DEF ObjectsInv, CountInv, Places, InHand
  <2>3. /\ eth_instance_g' \in [1 .. MaxModules -> Instances]
        /\ eth_instance_g'[1] =
             [state |-> "INITIALIZED", eth_handle |-> TRUE, pointers |-> {"mac", "phy"}]
    <3>1. [state |-> "INITIALIZED", eth_handle |-> TRUE, pointers |-> {"mac", "phy"}] \in Instances
      BY DEF Instances
    <3> QED
      BY <1>1, <1>2, <3>1 DEF ObjectsInv, InstancesInv
  <2>4. Followed(1)' /\ Pointed(1)' = {<<"mac", 1>>, <<"phy", 1>>}
    BY <2>3 DEF Followed, Pointed
  <2>5. InstancesInv'
    BY <2>1, <2>3, <2>4 DEF InstancesInv
  <2>6. \A i : Live(i)' <=> i = 1
    BY <2>1 DEF Live, InHand
  <2>7. heap' = heap \cup {<<"mac", 1>>, <<"phy", 1>>, <<"driver", 1>>}
    BY <1>1, <1>2
  <2>8. HeapInv'
    <3>1. \A o \in heap : o \in {"driver"} \X (1 .. MaxModules) \/ o = <<"handles", 0>>
      BY <1>1 DEF ObjectsInv, HeapInv, Owned
    <3>2. Owned(<<"mac", 1>>)' /\ Owned(<<"phy", 1>>)'
      BY <1>1, <2>4, <2>6 DEF Owned
    <3>3. \A o \in heap' : Owned(o)' \/ o \in {"driver"} \X (1 .. MaxModules) \/ o = <<"handles", 0>>
      BY <1>1, <2>7, <3>1, <3>2
    <3>4. \A i \in 1 .. MaxModules : Live(i)' => Pointed(i)' \subseteq heap'
      BY <2>4, <2>6, <2>7
    <3>5. \A i \in 1 .. eth_cnt_g' : <<"driver", i>> \in heap'
      BY <2>1, <2>7
    <3> QED
      BY <2>1, <3>3, <3>4, <3>5 DEF HeapInv
  <2>9. BusInv'
    BY <1>1, <2>1 DEF ObjectsInv, BusInv, Owned
  <2> QED
    BY <2>2, <2>5, <2>8, <2>9 DEF ObjectsInv
<1>3. CASE /\ \E created \in SUBSET {"mac", "phy"} :
                eth_instance_g' = [eth_instance_g EXCEPT ![Current].pointers = created]
           /\ main' = "deinit"
           /\ UNCHANGED <<heap, eth_cnt_g>>
  <2>1. CountInv'
    BY <1>1, <1>3, Counted DEF ObjectsInv, CountInv, Places, InHand
  <2>2. InstancesInv'
    <3>1. eth_instance_g' \in [1 .. MaxModules -> Instances]
      BY <1>1, <1>3, PointersSet DEF ObjectsInv
    <3> QED
      BY <1>1, <1>3, <3>1 DEF InstancesInv
  <2>3. \A i : ~Live(i)'
    BY <1>1, <1>3 DEF Live, InHand
  <2>4. HeapInv'
    BY <1>1, <1>3, <2>3 DEF ObjectsInv, HeapInv, Owned
  <2>5. BusInv'
    BY <1>1, <1>3, <2>3 DEF ObjectsInv, BusInv, Owned
  <2> QED
    BY <2>1, <2>2, <2>4, <2>5 DEF ObjectsInv
<1> QED
  BY <1>2, <1>3 DEF eth_init_internal

LEMMA NewMacSteps ==
  ASSUME ObjectsInv, esp_eth_mac_new_enc28j60
  PROVE  ObjectsInv'
<1>0. main = "mac" /\ Current \in 1 .. MaxModules
  BY Counted DEF ObjectsInv, CountInv, esp_eth_mac_new_enc28j60, NewMac
<1>c. PICK c \in 1 .. MaxModules : c = Current
  BY <1>0
<1>1. /\ main = "mac" /\ c \in 1 .. MaxModules /\ eth_cnt_g < config.number
      /\ UNCHANGED <<config, eth_cnt_g>> /\ Current' = c
      /\ \A i \in 1 .. eth_cnt_g : i \in 1 .. MaxModules /\ i # c
  BY <1>c, Counted DEF ObjectsInv, CountInv, esp_eth_mac_new_enc28j60, NewMac, Current
<1>2. PICK pointers \in SUBSET {"mac", "phy"} :
        /\ eth_instance_g' = [eth_instance_g EXCEPT ![c].pointers = pointers]
        /\ \/ /\ pointers = {"mac"} /\ main' = "revision"
              /\ heap' = heap \cup {<<"mac", c>>}
              /\ spi_devices' = spi_devices \cup {<<"mac", c>>}
           \/ /\ pointers = {} /\ main' = "unset"
              /\ heap' = heap
              /\ spi_devices' \in {spi_devices, spi_devices \cup {Orphan}}
  <2>1. CASE /\ heap' = heap \cup {<<"mac", Current>>}
             /\ spi_devices' = spi_devices \cup {<<"mac", Current>>}
             /\ eth_instance_g' = [eth_instance_g EXCEPT ![Current].pointers = {} \cup {"mac"}]
             /\ main' = "revision"
    <3>1. {} \cup {"mac"} = {"mac"}
      OBVIOUS
    <3> QED
      BY <1>c, <2>1, <3>1
  <2>2. CASE /\ spi_devices' \in {spi_devices, spi_devices \cup {Orphan}}
             /\ eth_instance_g' = [eth_instance_g EXCEPT ![Current].pointers = {}]
             /\ main' = "unset"
             /\ UNCHANGED heap
    BY <1>c, <2>2
  <2> QED
    BY <2>1, <2>2 DEF esp_eth_mac_new_enc28j60, NewMac
<1>3. /\ eth_instance_g' \in [1 .. MaxModules -> Instances]
      /\ Pointed(c)' = {<<kind, c>> : kind \in pointers}
      /\ \A i \in 1 .. MaxModules : i # c =>
           Pointed(i)' = Pointed(i) /\ (Followed(i)' <=> Followed(i))
  BY <1>1, <1>2, PointersSet DEF ObjectsInv
<1>4. CountInv'
  BY <1>1, <1>2 DEF ObjectsInv, CountInv, Places, InHand
<1>5. InstancesInv'
  BY <1>1, <1>3 DEF ObjectsInv, InstancesInv
<1>6. /\ \A i \in 1 .. MaxModules : Live(i) => i # c
      /\ \A i \in 1 .. MaxModules : Live(i)' <=> Live(i) \/ i = c
  BY <1>c, <1>1, <1>2 DEF Live, InHand
<1>7. \A o : Owned(o) => Owned(o)'
  BY <1>3, <1>6 DEF Owned
<1>8. pointers = {"mac"} => Owned(<<"mac", c>>)'
  BY <1>1, <1>3, <1>6 DEF Owned
<1>9. HeapInv'
  <2>1. \A i \in 1 .. MaxModules : Live(i)' => Pointed(i)' \subseteq heap'
    BY <1>2, <1>3, <1>6 DEF ObjectsInv, HeapInv
  <2>2. \A o \in heap' :
          Owned(o)' \/ o \in {"driver"} \X (1 .. MaxModules) \/ o = <<"handles", 0>>
    BY <1>1, <1>2, <1>7, <1>8 DEF ObjectsInv, HeapInv
  <2>3. \A i \in 1 .. eth_cnt_g' : <<"driver", i>> \in heap'
    BY <1>1, <1>2 DEF ObjectsInv, HeapInv
  <2> QED
    BY <1>2, <2>1, <2>2, <2>3 DEF HeapInv
<1>10. BusInv'
  BY <1>1, <1>2, <1>7, <1>8 DEF ObjectsInv, BusInv
<1> QED
  BY <1>4, <1>5, <1>9, <1>10 DEF ObjectsInv

LEMMA NewPhySteps ==
  ASSUME ObjectsInv, esp_eth_phy_new_enc28j60
  PROVE  ObjectsInv'
<1>0. main = "phy" /\ Current \in 1 .. MaxModules
  BY Counted DEF ObjectsInv, CountInv, esp_eth_phy_new_enc28j60, InHand
<1>c. PICK c \in 1 .. MaxModules : c = Current
  BY <1>0
<1>1. /\ main = "phy" /\ main' = "install"
      /\ UNCHANGED <<config, eth_cnt_g, spi_devices>> /\ Current' = c
      /\ c \in 1 .. MaxModules
      /\ \A i \in 1 .. eth_cnt_g : i \in 1 .. MaxModules /\ i # c
  BY <1>c, Counted DEF ObjectsInv, esp_eth_phy_new_enc28j60, Current, InHand
<1>2. CASE UNCHANGED <<heap, eth_instance_g>>
  BY <1>1, <1>2, MainMoves DEF Places, InHand
<1>3. CASE /\ heap' = heap \cup {<<"phy", Current>>}
           /\ eth_instance_g' = [eth_instance_g EXCEPT ![Current].pointers = @ \cup {"phy"}]
  <2> DEFINE pointers == eth_instance_g[c].pointers \cup {"phy"}
  <2>1. pointers \in SUBSET {"mac", "phy"}
    BY <1>1 DEF ObjectsInv, InstancesInv, Instances
  <2>2. eth_instance_g' = [eth_instance_g EXCEPT ![c].pointers = pointers]
    BY <1>c, <1>3
  <2>3. heap' = heap \cup {<<"phy", c>>}
    BY <1>c, <1>3
  <2>4. Pointed(c) = {<<kind, c>> : kind \in eth_instance_g[c].pointers}
    BY DEF Pointed
  <2>5. /\ eth_instance_g' \in [1 .. MaxModules -> Instances]
        /\ Pointed(c)' = {<<kind, c>> : kind \in pointers}
        /\ \A i \in 1 .. MaxModules : i # c =>
             Pointed(i)' = Pointed(i) /\ (Followed(i)' <=> Followed(i))
    <3> HIDE DEF pointers
    <3> QED
      BY <1>1, <2>1, <2>2, PointersSet DEF ObjectsInv
  <2>6. \A o : o \in Pointed(c)' <=> o \in Pointed(c) \/ o = <<"phy", c>>
    BY <2>4, <2>5
  <2>7. CountInv'
    BY <1>1 DEF ObjectsInv, CountInv, Places, InHand
  <2>8. InstancesInv'
    BY <1>1, <2>5 DEF ObjectsInv, InstancesInv
  <2>9. Live(c)' /\ Live(c) /\ \A i \in 1 .. MaxModules : Live(i)' <=> Live(i)
    BY <1>c, <1>1 DEF Live, InHand
  <2>10. (\A o : Owned(o) => Owned(o)') /\ Owned(<<"phy", c>>)'
    BY <1>1, <2>5, <2>6, <2>9 DEF Owned
  <2>11. HeapInv'
    <3>1. \A i \in 1 .. MaxModules : Live(i)' => Pointed(i)' \subseteq heap'
      BY <1>1, <2>3, <2>5, <2>6, <2>9 DEF ObjectsInv, HeapInv
    <3>2. \A o \in heap' :
            Owned(o)' \/ o \in {"driver"} \X (1 .. MaxModules) \/ o = <<"handles", 0>>
      BY <1>1, <2>3, <2>10 DEF ObjectsInv, HeapInv
    <3>3. \A i \in 1 .. eth_cnt_g' : <<"driver", i>> \in heap'
      BY <1>1, <2>3 DEF ObjectsInv, HeapInv
    <3> QED
      BY <1>1, <3>1, <3>2, <3>3 DEF HeapInv
  <2>12. BusInv'
    BY <1>1, <2>10 DEF ObjectsInv, BusInv
  <2> QED
    BY <2>7, <2>8, <2>11, <2>12 DEF ObjectsInv
<1> QED
  BY <1>2, <1>3 DEF esp_eth_phy_new_enc28j60

LEMMA InstallSteps ==
  ASSUME ObjectsInv, Install
  PROVE  ObjectsInv'
<1>1. /\ main = "install" /\ main' \in {"address", "undo"}
      /\ heap' = IF main' = "address" THEN heap \cup {<<"driver", Current>>} ELSE heap
      /\ UNCHANGED <<config, eth_cnt_g, eth_instance_g, spi_devices>>
  BY DEF Install
<1>2. Current' = Current /\ Current \in 1 .. MaxModules
  BY <1>1, Counted DEF Current, ObjectsInv, InHand
<1>3. CountInv'
  BY <1>1 DEF ObjectsInv, CountInv, Places, InHand
<1>4. InstancesInv'
  BY <1>1 DEF ObjectsInv, InstancesInv, Followed
<1>5. \A i : (Live(i)' <=> Live(i)) /\ Pointed(i)' = Pointed(i)
  BY <1>1 DEF Live, Pointed, Current, InHand
<1>6. \A o : Owned(o)' <=> Owned(o)
  BY <1>5 DEF Owned
<1>7. HeapInv'
  <2>1. \A i \in 1 .. MaxModules : Live(i)' => Pointed(i)' \subseteq heap'
    BY <1>1, <1>5 DEF ObjectsInv, HeapInv
  <2>2. \A o \in heap' :
          Owned(o)' \/ o \in {"driver"} \X (1 .. MaxModules) \/ o = <<"handles", 0>>
    BY <1>1, <1>2, <1>6 DEF ObjectsInv, HeapInv
  <2>3. \A i \in 1 .. eth_cnt_g' : <<"driver", i>> \in heap'
    BY <1>1 DEF ObjectsInv, HeapInv
  <2> QED
    BY <1>1, <1>2, <2>1, <2>2, <2>3 DEF HeapInv
<1>8. BusInv'
  BY <1>1, <1>6 DEF ObjectsInv, BusInv
<1> QED
  BY <1>3, <1>4, <1>7, <1>8 DEF ObjectsInv

(* The objects of the instance c go, and nothing of any other.              *)
LEMMA Deleting ==
  ASSUME ObjectsInv, NEW c \in 1 .. MaxModules, NEW driver \in SUBSET {<<"driver", c>>},
         heap' = heap \ (Pointed(c) \cup driver),
         spi_devices' = spi_devices \ {<<"mac", c>>},
         UNCHANGED <<config, eth_instance_g>>,
         main \in {"undo", "unset", "deinit"}, main' = "deinit",
         eth_cnt_g' \in 0 .. eth_cnt_g,
         \A i \in 1 .. MaxModules : Live(i)' <=> Live(i) /\ i # c
  PROVE  ObjectsInv'
<1>1. /\ eth_cnt_g \in Nat /\ eth_cnt_g' \in Nat /\ eth_cnt_g' <= eth_cnt_g
      /\ \A i \in 1 .. eth_cnt_g' : i \in 1 .. eth_cnt_g /\ i \in 1 .. MaxModules
  BY Counted DEF ObjectsInv
<1>2. \A i \in 1 .. eth_cnt_g' : Live(i)' /\ i # c
  BY <1>1 DEF Live
<1>3. CountInv'
  BY <1>1, Counted DEF ObjectsInv, CountInv, Places, InHand
<1>4. InstancesInv'
  BY <1>1 DEF ObjectsInv, InstancesInv, Followed
<1>5. \A i : Pointed(i)' = Pointed(i)
  BY DEF Pointed
<1>6. \A o : Owned(o) /\ o \notin Pointed(c) => Owned(o)'
  BY <1>5 DEF Owned
<1>7. HeapInv'
  <2>1. \A i \in 1 .. MaxModules : Live(i)' => Pointed(i)' \subseteq heap'
    <3> SUFFICES ASSUME NEW i \in 1 .. MaxModules, Live(i)', NEW o \in Pointed(i)
                 PROVE  o \in heap'
      BY <1>5
    <3>1. Live(i) /\ i # c /\ o \in heap
      BY DEF ObjectsInv, HeapInv
    <3>2. o = <<"mac", i>> \/ o = <<"phy", i>>
      BY PointedAre DEF ObjectsInv
    <3>3. o \notin Pointed(c)
      BY <3>1, <3>2, PointedAre DEF ObjectsInv
    <3> QED
      BY <3>1, <3>2, <3>3
  <2>2. \A i \in 1 .. eth_cnt_g' : <<"driver", i>> \in heap'
    <3> SUFFICES ASSUME NEW i \in 1 .. eth_cnt_g' PROVE <<"driver", i>> \in heap'
      OBVIOUS
    <3>1. <<"driver", i>> \in heap /\ i # c
      BY <1>1, <1>2 DEF ObjectsInv, HeapInv
    <3>2. <<"driver", i>> \notin Pointed(c)
      BY PointedAre DEF ObjectsInv
    <3> QED
      BY <3>1, <3>2
  <2>3. \A o \in heap' :
          Owned(o)' \/ o \in {"driver"} \X (1 .. MaxModules) \/ o = <<"handles", 0>>
    BY <1>6 DEF ObjectsInv, HeapInv
  <2> QED
    BY <2>1, <2>2, <2>3 DEF HeapInv
<1>8. BusInv'
  <2>1. \A o \in spi_devices' : Owned(o)' \/ o = Orphan
    <3> SUFFICES ASSUME NEW o \in spi_devices', o # Orphan PROVE Owned(o)'
      OBVIOUS
    <3>1. o \in spi_devices /\ o # <<"mac", c>> /\ Owned(o) /\ o \in {"mac"} \X (1 .. MaxModules)
      BY DEF ObjectsInv, BusInv
    <3>2. o \notin Pointed(c)
      BY <3>1, PointedAre DEF ObjectsInv
    <3> QED
      BY <1>6, <3>1, <3>2
  <2> QED
    BY <2>1 DEF ObjectsInv, BusInv
<1> QED
  BY <1>3, <1>4, <1>7, <1>8 DEF ObjectsInv

LEMMA UndoSteps ==
  ASSUME ObjectsInv, UndoInstance \/ UndoWithoutHandle
  PROVE  ObjectsInv'
<1>1. /\ main \in {"undo", "unset"} /\ main \in InHand
      /\ UNCHANGED <<config, eth_cnt_g, eth_instance_g>>
      /\ Current \in 1 .. MaxModules /\ eth_cnt_g \in Nat
      /\ \A i \in 1 .. eth_cnt_g : i # Current
  BY Counted DEF ObjectsInv, UndoInstance, UndoWithoutHandle, InHand
<1>2. CASE main' = "aborted" /\ UNCHANGED <<heap, spi_devices>>
  <2>1. CountInv'
    BY <1>1, <1>2 DEF ObjectsInv, CountInv, Places, InHand
  <2>2. InstancesInv'
    BY <1>1 DEF ObjectsInv, InstancesInv, Followed
  <2>3. \A i : Pointed(i)' = Pointed(i) /\ (Live(i)' => Live(i))
    BY <1>1, <1>2 DEF Pointed, Live, InHand
  <2>4. HeapInv'
    BY <1>1, <1>2, <2>3 DEF ObjectsInv, HeapInv
  <2>5. BusInv'
    BY <1>1, <1>2 DEF ObjectsInv, BusInv
  <2> QED
    BY <2>1, <2>2, <2>4, <2>5 DEF ObjectsInv
<1>3. CASE /\ main' = "deinit" /\ spi_devices' = spi_devices \ {<<"mac", Current>>}
           /\ \E driver \in SUBSET {<<"driver", Current>>} :
                heap' = heap \ (Pointed(Current) \cup driver)
  <2>1. \A i \in 1 .. MaxModules : Live(i)' <=> Live(i) /\ i # Current
    BY <1>1, <1>3 DEF Live, InHand, Current
  <2>2. eth_cnt_g' \in 0 .. eth_cnt_g
    BY <1>1
  <2> QED
    BY <1>1, <1>3, <2>1, <2>2, Deleting
<1>4. CASE UndoInstance
  <2>1. PICK uninstalled \in BOOLEAN : DeleteObjects(Current, uninstalled)
    BY <1>4 DEF UndoInstance
  <2> DEFINE driver == IF uninstalled THEN {<<"driver", Current>>} ELSE {}
  <2>2. driver \in SUBSET {<<"driver", Current>>}
    OBVIOUS
  <2>3. heap' = heap \ (Pointed(Current) \cup driver)
    BY <2>1 DEF DeleteObjects
  <2>4. main' = "deinit" /\ spi_devices' = spi_devices \ {<<"mac", Current>>}
    BY <1>4, <2>1 DEF UndoInstance, DeleteObjects, emac_enc28j60_del
  <2> QED
    BY <1>3, <2>2, <2>3, <2>4
<1>5. CASE UndoWithoutHandle /\ main' # "aborted"
  <2>1. /\ main' = "deinit" /\ spi_devices' = spi_devices \ {<<"mac", Current>>}
        /\ heap' = heap \ (Pointed(Current) \cup {})
    BY <1>5 DEF UndoWithoutHandle, emac_enc28j60_del
  <2>2. {} \in SUBSET {<<"driver", Current>>}
    OBVIOUS
  <2> QED
    BY <1>3, <2>1, <2>2
<1>6. UndoWithoutHandle /\ main' = "aborted" => UNCHANGED <<heap, spi_devices>>
  BY DEF UndoWithoutHandle
<1> QED
  BY <1>2, <1>4, <1>5, <1>6

LEMMA KeepSteps ==
  ASSUME ObjectsInv, KeepInstance
  PROVE  ObjectsInv'
<1> DEFINE c == Current
<1>1. /\ main = "installed" /\ eth_cnt_g' = eth_cnt_g + 1 /\ eth_cnt_g \in Nat
      /\ config.number \in Nat /\ eth_cnt_g < config.number
      /\ c = eth_cnt_g + 1 /\ c \in 1 .. MaxModules
      /\ main' = IF eth_cnt_g' < config.number THEN "mac" ELSE "duplex"
      /\ UNCHANGED <<config, heap, spi_devices>>
      /\ eth_instance_g' = [eth_instance_g EXCEPT ![c] =
           [eth_instance_g[c] EXCEPT !.state = "INITIALIZED", !.eth_handle = TRUE]]
  <2>1. eth_instance_g \in [1 .. MaxModules -> Instances]
    BY DEF ObjectsInv, InstancesInv
  <2>2. Current \in 1 .. MaxModules /\ eth_cnt_g \in Nat /\ eth_cnt_g < config.number
        /\ config.number \in Nat /\ main = "installed"
    BY Counted DEF KeepInstance, ObjectsInv, CountInv, InHand
  <2>3. eth_instance_g' = [eth_instance_g EXCEPT ![c] =
           [eth_instance_g[c] EXCEPT !.state = "INITIALIZED", !.eth_handle = TRUE]]
    BY <2>1, <2>2 DEF KeepInstance
  <2> QED
    BY <2>2, <2>3 DEF KeepInstance, Current
<1> HIDE DEF c
<1>2. CountInv'
  BY <1>1 DEF ObjectsInv, CountInv, Places, InHand
<1>3. /\ eth_instance_g' \in [1 .. MaxModules -> Instances]
      /\ eth_instance_g'[c].state = "INITIALIZED" /\ eth_instance_g'[c].eth_handle = TRUE
      /\ eth_instance_g'[c].pointers = eth_instance_g[c].pointers
      /\ \A i \in 1 .. MaxModules : i # c => eth_instance_g'[i] = eth_instance_g[i]
  <2>1. eth_instance_g \in [1 .. MaxModules -> Instances] /\ eth_instance_g[c] \in Instances
    BY <1>1 DEF ObjectsInv, InstancesInv
  <2> DEFINE kept == [eth_instance_g[c] EXCEPT !.state = "INITIALIZED", !.eth_handle = TRUE]
  <2>2. /\ kept \in Instances /\ kept.state = "INITIALIZED" /\ kept.eth_handle = TRUE
        /\ kept.pointers = eth_instance_g[c].pointers
    BY <2>1 DEF Instances
  <2> HIDE DEF kept
  <2> QED
    BY <1>1, <2>1, <2>2 DEF kept
<1>4. \A i \in 1 .. MaxModules : Pointed(i)' = Pointed(i)
  BY <1>3 DEF Pointed
<1>5. \A i \in 1 .. eth_cnt_g' : i \in 1 .. MaxModules /\ (i = c \/ i \in 1 .. eth_cnt_g)
  BY <1>1, Counted DEF ObjectsInv
<1>6. InstancesInv'
  <2>1. \A i \in 1 .. eth_cnt_g : i # c
    BY <1>1
  <2> QED
    BY <1>3, <1>5, <2>1 DEF ObjectsInv, InstancesInv, Followed
<1>7. \A i \in 1 .. MaxModules : Live(i)' <=> Live(i)
  <2>1. \A i \in 1 .. MaxModules : i \in 1 .. eth_cnt_g' <=> i = c \/ i \in 1 .. eth_cnt_g
    BY <1>1
  <2> QED
    BY <1>1, <2>1 DEF Live, InHand, c
<1>8. \A o : Owned(o)' <=> Owned(o)
  BY <1>4, <1>7 DEF Owned
<1>9. HeapInv'
  <2>1. \A i \in 1 .. MaxModules : Live(i)' => Pointed(i)' \subseteq heap'
    BY <1>1, <1>4, <1>7 DEF ObjectsInv, HeapInv
  <2>2. \A i \in 1 .. eth_cnt_g' : <<"driver", i>> \in heap'
    BY <1>1, <1>5 DEF ObjectsInv, HeapInv, c
  <2>3. \A o \in heap' :
          Owned(o)' \/ o \in {"driver"} \X (1 .. MaxModules) \/ o = <<"handles", 0>>
    BY <1>1, <1>8 DEF ObjectsInv, HeapInv
  <2> QED
    BY <1>1, <2>1, <2>2, <2>3 DEF HeapInv
<1>10. BusInv'
  BY <1>1, <1>8 DEF ObjectsInv, BusInv
<1> QED
  BY <1>2, <1>6, <1>9, <1>10 DEF ObjectsInv

LEMMA DeinitSteps ==
  ASSUME ObjectsInv, DeinitInstance
  PROVE  ObjectsInv'
<1> DEFINE c == eth_cnt_g
<1>1. /\ main = "deinit" /\ main' = "deinit" /\ c \in Nat /\ c > 0
      /\ eth_cnt_g' = c - 1 /\ eth_cnt_g' \in 0 .. eth_cnt_g
      /\ c \in 1 .. MaxModules /\ Followed(c)
      /\ UNCHANGED <<config, eth_instance_g>>
  <2>1. eth_cnt_g \in Nat /\ eth_cnt_g > 0 /\ eth_cnt_g \in 1 .. eth_cnt_g
    BY Counted DEF ObjectsInv, DeinitInstance
  <2> QED
    BY <2>1, Counted DEF DeinitInstance, ObjectsInv, InstancesInv
<1>2. PICK uninstalled \in BOOLEAN : DeleteObjects(c, uninstalled)
  BY <1>1 DEF DeinitInstance
<1> DEFINE driver == IF uninstalled THEN {<<"driver", c>>} ELSE {}
<1>3. driver \in SUBSET {<<"driver", c>>}
  OBVIOUS
<1>4. /\ heap' = heap \ (Pointed(c) \cup driver)
      /\ spi_devices' = spi_devices \ {<<"mac", c>>}
  BY <1>2 DEF DeleteObjects, emac_enc28j60_del
<1>5. \A i \in 1 .. MaxModules : Live(i)' <=> Live(i) /\ i # c
  <2>1. \A i \in 1 .. MaxModules : i \in 1 .. eth_cnt_g' <=> i \in 1 .. eth_cnt_g /\ i # c
    BY <1>1
  <2> QED
    BY <1>1, <2>1 DEF Live, InHand
<1> HIDE DEF c, driver
<1> QED
  BY <1>1, <1>3, <1>4, <1>5, Deleting

LEMMA FreeBusSteps ==
  ASSUME ObjectsInv, FreeBus
  PROVE  ObjectsInv'
<1>1. /\ main = "deinit" /\ main' = "off" /\ eth_cnt_g = 0 /\ eth_cnt_g' = 0
      /\ bus' = (IF spi_devices = {} THEN "free" ELSE bus) /\ isr_service' = FALSE
      /\ heap' = heap \ {<<"handles", 0>>}
      /\ UNCHANGED <<config, eth_instance_g, spi_devices>>
  BY DEF FreeBus
<1>2. CountInv'
  BY <1>1, Counted DEF ObjectsInv, CountInv, Places, InHand
<1>3. InstancesInv'
  BY <1>1 DEF ObjectsInv, InstancesInv
<1>4. \A i : ~Live(i) /\ ~Live(i)'
  BY <1>1 DEF Live, InHand
<1>5. HeapInv'
  BY <1>1, <1>4 DEF ObjectsInv, HeapInv, Owned
<1>6. \A o \in spi_devices : o = Orphan
  BY <1>1, <1>4 DEF ObjectsInv, BusInv, Owned
<1>7. BusInv'
  BY <1>1, <1>6 DEF ObjectsInv, BusInv
<1> QED
  BY <1>2, <1>3, <1>5, <1>7 DEF ObjectsInv

LEMMA ObjectsSteps ==
  ASSUME ObjectsInv, [Next]_vars
  PROVE  ObjectsInv'
<1>1. CASE UNCHANGED initVars
  <2>1. /\ UNCHANGED <<main, config, eth_cnt_g, eth_instance_g, heap, spi_devices, bus, isr_service>>
    BY <1>1 DEF initVars
  <2>2. \A i : (Live(i)' <=> Live(i)) /\ Pointed(i)' = Pointed(i) /\ (Followed(i)' <=> Followed(i))
    BY <2>1 DEF Live, Pointed, Current, Followed
  <2>3. \A o : Owned(o)' <=> Owned(o)
    BY <2>2 DEF Owned
  <2>4. CountInv' /\ InstancesInv'
    BY <2>1, <2>2 DEF ObjectsInv, CountInv, InstancesInv
  <2>5. HeapInv'
    BY <2>1, <2>2, <2>3 DEF ObjectsInv, HeapInv, Current
  <2>6. BusInv'
    BY <2>1, <2>3 DEF ObjectsInv, BusInv
  <2> QED
    BY <2>4, <2>5, <2>6 DEF ObjectsInv
<1>2. CASE ethernet_init_all
  BY <1>2, InitAllSteps
<1>3. CASE eth_init_internal
  BY <1>3, InternalSteps
<1>4. CASE esp_eth_mac_new_enc28j60 \/ esp_eth_phy_new_enc28j60
  BY <1>4, NewMacSteps, NewPhySteps
<1>5. CASE Install
  BY <1>5, InstallSteps
<1>6. CASE UndoInstance \/ UndoWithoutHandle
  BY <1>6, UndoSteps
<1>7. CASE KeepInstance
  BY <1>7, KeepSteps
<1>8. CASE DeinitInstance
  BY <1>8, DeinitSteps
<1>9. CASE FreeBus
  BY <1>9, FreeBusSteps
<1>10. ASSUME UNCHANGED <<config, eth_cnt_g, eth_instance_g, heap, spi_devices>>,
              \/ main \in {"off", "isr", "bus"} /\ main' = "deinit"
              \/ main = "isr" /\ main' = "bus"
              \/ main = "bus" /\ main' = "mac"
              \/ main = "revision" /\ main' \in {"phy", "unset"}
              \/ main = "address" /\ main' \in {"installed", "undo"}
              \/ main = "duplex" /\ main' \in {"ready", "aborted"}
              \/ main = "ready" /\ main' = "running"
              \/ main = "running" /\ main' \in {"stopped", "aborted"}
              \/ main \in {"stopped", "ready"} /\ main' = "deinit"
       PROVE  ObjectsInv'
  <2>1. /\ main # "aborted" /\ main' \in Places \ {"off", "internal", "address"}
        /\ main' \in InHand <=> main \in InHand
        /\ main' = "installed" => main = "address"
    BY <1>10 DEF Places, InHand
  <2>2. main' \in {"isr", "bus", "mac"} => eth_cnt_g < config.number
    BY <1>10 DEF ObjectsInv, CountInv
  <2> QED
    BY <1>10, <2>1, <2>2, MainMoves
<1>11. CASE AllocationFails
  BY <1>10, <1>11 DEF AllocationFails, ToError
<1>12. CASE InstallIsrService
  BY <1>10, <1>12 DEF InstallIsrService, ToError
<1>13. CASE InitializeBus
  BY <1>10, <1>13 DEF InitializeBus, ToError
<1>14. CASE CheckRevision
  BY <1>10, <1>14 DEF CheckRevision
<1>15. CASE SetAddress
  BY <1>10, <1>15 DEF SetAddress
<1>16. CASE SetFullDuplex
  BY <1>10, <1>16 DEF SetFullDuplex
<1>17. CASE Start
  BY <1>10, <1>17 DEF Start
<1>18. CASE Stop
  BY <1>10, <1>18 DEF Stop
<1>19. CASE ethernet_deinit_all
  BY <1>10, <1>19 DEF ethernet_deinit_all
<1>20. CASE Task \/ Sender \/ Link \/ Wire
  BY <1>1, <1>20 DEF Task, Sender, Link, Wire
<1>21. CASE UNCHANGED vars
  BY <1>1, <1>21 DEF vars, initVars
<1> QED
  BY <1>2, <1>3, <1>4, <1>5, <1>6, <1>7, <1>8, <1>9, <1>11, <1>12, <1>13, <1>14, <1>15,
     <1>16, <1>17, <1>18, <1>19, <1>20, <1>21 DEF Next, InitStep

(* What ethernet_deinit_all and the error path follow is there.             *)
LEMMA ObjectsImply == ObjectsInv => ObjectsAccounted
<1> SUFFICES ASSUME ObjectsInv PROVE ObjectsAccounted
  OBVIOUS
<1>1. main \in {"undo", "unset"} => Pointed(Current) \subseteq heap
  <2> SUFFICES ASSUME main \in {"undo", "unset"} PROVE Pointed(Current) \subseteq heap
    OBVIOUS
  <2>1. main \in InHand /\ Current \in 1 .. MaxModules
    BY Counted DEF ObjectsInv, InHand
  <2> QED
    BY <2>1 DEF ObjectsInv, HeapInv, Live
<1>2. \A i \in 1 .. eth_cnt_g : Pointed(i) \cup {<<"driver", i>>} \subseteq heap
  <2>1. \A i \in 1 .. eth_cnt_g : i \in 1 .. MaxModules /\ Live(i)
    BY Counted DEF ObjectsInv, Live
  <2> QED
    BY <2>1 DEF ObjectsInv, HeapInv
<1>3. main = "off" =>
        /\ eth_cnt_g = 0 /\ ~isr_service
        /\ heap \subseteq {"driver"} \X (1 .. MaxModules)
        /\ bus = "free" \/ Orphan \in spi_devices
  <2> SUFFICES ASSUME main = "off"
               PROVE  /\ eth_cnt_g = 0 /\ ~isr_service
                      /\ heap \subseteq {"driver"} \X (1 .. MaxModules)
                      /\ bus = "free" \/ Orphan \in spi_devices
    OBVIOUS
  <2>1. eth_cnt_g = 0 /\ ~isr_service /\ (bus = "free" \/ Orphan \in spi_devices)
    BY DEF ObjectsInv, CountInv, BusInv
  <2>2. \A o : ~Owned(o)
    BY <2>1 DEF Owned, Live, InHand
  <2> QED
    BY <2>1, <2>2 DEF ObjectsInv, HeapInv
<1> QED
  BY <1>1, <1>2, <1>3 DEF ObjectsAccounted

-------------------------------------------------------------------------------
(* The accesses of the receive loop.                                        *)

LEMMA BecomesKeeps ==
  ASSUME NEW d, IsDevice(d), Becomes(d)
  PROVE  Same(d, dev')
  BY DEF Becomes, Same, Steady, IsDevice, Fields

LEMMA LostKeeps ==
  ASSUME NEW d, IsDevice(d), NEW o \in Done([d EXCEPT !.lost = TRUE])
  PROVE  Keeps(d, o)
<1> DEFINE e == [d EXCEPT !.lost = TRUE]
<1>1. Same(d, e)
  BY DEF Same, Steady, IsDevice, Fields
<1> HIDE DEF e
<1>2. o \in Done(e)
  BY DEF e
<1> QED
  BY <1>1, <1>2, DoneKeeps

LEMMA PointKeeps ==
  ASSUME NEW d, IsDevice(d), NEW o \in AllocateAndPoint(d)
  PROVE  Keeps(d, o)
<1>1. \/ o \in Transaction(d, d)
      \/ \E a \in Transaction(d, d) : \E address : o \in WritePair(a.dev, "ERDPT", address)
  BY DEF AllocateAndPoint, Then
<1>2. Same(d, d)
  BY SameIsReflexive
<1> QED
  BY <1>1, <1>2, TransactionKeeps, PairKeeps, KeepsDevice, KeepsChain

LEMMA HeaderKeeps ==
  ASSUME NEW d, IsDevice(d), NEW found, NEW o \in HeaderThenPointer(d, found)
  PROVE  Keeps(d, o)
<1>1. \/ o \in enc28j60_do_memory_read(d)
      \/ \E a \in enc28j60_do_memory_read(d) :
           \/ \E address : o \in WritePair(a.dev, "ERDPT", address)
           \/ o \in Done([a.dev EXCEPT !.lost = TRUE])
  BY DEF HeaderThenPointer, Then
<1> QED
  BY <1>1, MemoryKeeps, PairKeeps, LostKeeps, KeepsDevice, KeepsChain

LEMMA TakeDownKeeps ==
  ASSUME NEW d, IsDevice(d), NEW o \in TakeDown(d)
  PROVE  Keeps(d, o)
<1> DEFINE e == [d EXCEPT !.pktcnt = IF @ > 0 THEN @ - 1 ELSE 0]
<1>1. Same(d, e)
  BY DEF Same, Steady, IsDevice, Fields
<1>2. PICK p \in Transaction(d, e) : o = IF p.ok THEN p ELSE [p EXCEPT !.dev = Slip(@, "count")]
  BY DEF TakeDown
<1> HIDE DEF e
<1>3. Keeps(d, p) /\ IsDevice(p.dev)
  BY <1>1, <1>2, TransactionKeeps, KeepsDevice
<1>4. IsOutcome(o) /\ (o.dev = p.dev \/ o.dev = Slip(p.dev, "count"))
  BY <1>2, <1>3 DEF Keeps, IsOutcome
<1>5. Same(p.dev, o.dev)
  BY <1>3, <1>4, SlipKeeps, SameIsReflexive
<1> QED
  BY <1>3, <1>4, <1>5, SameIsTransitive DEF Keeps

LEMMA FreeKeeps ==
  ASSUME NEW d, IsDevice(d), NEW packet, NEW o \in FreeBufferSpace(d, packet)
  PROVE  Keeps(d, o)
<1> DEFINE moved(w) == [w EXCEPT !.next_packet_ptr = PacketStart[packet + 1], !.freed = packet]
           address == enc28j60_next_ptr_align_odd(PacketStart[packet + 1])
<1>1. o \in WritePair(d, "ERXRDPT", address) \/
      \E a \in WritePair(d, "ERXRDPT", address) : o \in TakeDown(moved(a.dev))
  BY DEF FreeBufferSpace, Then
<1>2. \A w : IsDevice(w) => Same(w, moved(w)) /\ IsDevice(moved(w))
  BY DEF Same, Steady, IsDevice, Fields
<1> HIDE DEF moved, address
<1>3. CASE o \in WritePair(d, "ERXRDPT", address)
  BY <1>3, PairKeeps
<1>4. ASSUME NEW a \in WritePair(d, "ERXRDPT", address), o \in TakeDown(moved(a.dev))
      PROVE  Keeps(d, o)
  <2>1. Keeps(d, a) /\ IsDevice(a.dev)
    BY PairKeeps, KeepsDevice
  <2>2. Same(a.dev, moved(a.dev)) /\ Keeps(moved(a.dev), o)
    BY <1>2, <1>4, <2>1, TakeDownKeeps
  <2>3. Keeps(a.dev, o)
    BY <2>2, KeepsOn
  <2> QED
    BY <2>1, <2>3, KeepsChain
<1> QED
  BY <1>1, <1>3, <1>4

LEMMA ContentKeeps ==
  ASSUME NEW d, IsDevice(d), NEW packet, NEW o \in ContentThenFree(d, packet)
  PROVE  Keeps(d, o)
<1>1. \/ o \in enc28j60_do_memory_read(d)
      \/ \E a \in enc28j60_do_memory_read(d) :
           o \in FreeBufferSpace(a.dev, packet) \/ o \in Done([a.dev EXCEPT !.lost = TRUE])
  BY DEF ContentThenFree, Then
<1> QED
  BY <1>1, MemoryKeeps, FreeKeeps, LostKeeps, KeepsDevice, KeepsChain

LEMMA CountKeeps ==
  ASSUME NEW d, IsDevice(d), NEW o \in ReadCount(d)
  PROVE  Keeps(d, o)
<1> DEFINE remain == d.pktcnt > 0
<1>1. PICK c \in enc28j60_register_read(d, "EPKTCNT") :
        o = IF c.ok THEN [c EXCEPT !.dev.packets_remain = remain]
            ELSE IF d.packets_remain THEN [c EXCEPT !.dev = Slip(@, "count")] ELSE c
  BY DEF ReadCount
<1> HIDE DEF remain
<1>2. Keeps(d, c) /\ IsDevice(c.dev)
  BY ReadKeeps, KeepsDevice
<1>3. /\ IsOutcome(o)
      /\ \/ o.dev = c.dev \/ o.dev = Slip(c.dev, "count")
         \/ o.dev = [c.dev EXCEPT !.packets_remain = remain]
  BY <1>1, <1>2 DEF Keeps, IsOutcome
<1>4. Same(c.dev, [c.dev EXCEPT !.packets_remain = remain])
  BY <1>2 DEF Same, Steady, IsDevice, Fields
<1>5. Same(c.dev, o.dev)
  BY <1>2, <1>3, <1>4, SlipKeeps, SameIsReflexive
<1> QED
  BY <1>2, <1>3, <1>5, SameIsTransitive DEF Keeps

LEMMA MasksKeep ==
  ASSUME NEW d, IsDevice(d), NEW unknown, NEW o \in ReadMasks(d, unknown)
  PROVE  Keeps(d, o)
<1> DEFINE masked == Then(Transaction(d, d), LAMBDA e : Transaction(e, e))
<1>1. \A p \in masked :
        p \in Transaction(d, d) \/ \E a \in Transaction(d, d) : p \in Transaction(a.dev, a.dev)
  BY DEF Then
<1>2. o \in masked \/ \E a \in masked : o \in enc28j60_register_read(a.dev, "EPKTCNT")
  <2>1. o \in masked \/ o \in Then(masked, LAMBDA e : enc28j60_register_read(e, "EPKTCNT"))
    BY DEF ReadMasks
  <2> HIDE DEF masked
  <2> QED
    BY <2>1 DEF Then
<1> HIDE DEF masked
<1>3. \A p \in masked : Keeps(d, p)
  <2>1. \A x : IsDevice(x) => Same(x, x)
    BY SameIsReflexive
  <2> QED
    BY <1>1, <2>1, TransactionKeeps, KeepsDevice, KeepsChain
<1> QED
  BY <1>2, <1>3, ReadKeeps, KeepsDevice, KeepsChain

-------------------------------------------------------------------------------
(* As long as the driver does not run, nothing happens to it.               *)

LEMMA QuietSuffices ==
  ASSUME Untouched(dev'), tx_ready_sem' = 1, task' = IdleTask, sender' = IdleSender, link' = IdleLink
  PROVE  TrafficInv'
<1>1. /\ IsDevice(dev') /\ dev'.econ1 = {} /\ dev'.eie = {} /\ dev'.eir = {}
      /\ dev'.link_status = "DOWN"
  BY DEF Untouched
<1>2. /\ DOMAIN task' = {"pc", "status", "packet"} /\ task'.pc = "wait"
      /\ DOMAIN link' = {"pc", "seen"} /\ link'.pc = "idle" /\ link'.seen = "DOWN"
      /\ sender'.pc = "idle"
  BY DEF IdleTask, IdleSender, IdleLink
<1>3. QuietInv'
  BY DEF QuietInv
<1>4. ThreadsInv'
  BY <1>1, <1>2 DEF ThreadsInv, TaskInv, Serving
<1>5. TransmitInv'
  BY <1>1, <1>2 DEF TransmitInv, FrameInv, NoFrame, ErrorDue, Serving
<1>6. LinkInv'
  BY <1>1, <1>2 DEF LinkInv
<1> QED
  BY <1>1, <1>3, <1>4, <1>5, <1>6 DEF TrafficInv

LEMMA NewDeviceUntouched ==
  ASSUME NEW revision, NEW faults
  PROVE  Untouched(NewDevice(revision, faults))
  BY DEF Untouched, NewDevice, IsDevice, Fields

LEMMA QuietStep ==
  ASSUME TrafficInv, main \in Idle, UNCHANGED threads, dev' = dev \/ Untouched(dev')
  PROVE  TrafficInv'
<1>1. Untouched(dev) /\ tx_ready_sem = 1 /\ task = IdleTask /\ sender = IdleSender /\ link = IdleLink
  BY DEF TrafficInv, QuietInv
<1>2. Untouched(dev')
  BY <1>1
<1> QED
  BY <1>1, <1>2, QuietSuffices DEF threads

LEMMA FailsQuietly ==
  ASSUME TrafficInv, FailsHere
  PROVE  /\ Same(dev, dev')
         /\ main \in Idle => Untouched(dev')
<1>1. dev' = Faulty(dev)
  BY DEF FailsHere, Faulty
<1>2. Same(dev, dev')
  BY <1>1, FaultKeeps DEF TrafficInv
<1> QED
  BY <1>2 DEF TrafficInv, QuietInv, Untouched, Same, Steady

(* The set-up, up to the time the program starts the driver.                *)
LEMMA SetUpStep ==
  ASSUME TrafficInv, InitStep, main \in Idle
  PROVE  TrafficInv'
<1>1. CASE \/ ethernet_init_all \/ AllocationFails \/ eth_init_internal \/ InstallIsrService
           \/ InitializeBus \/ CheckRevision \/ esp_eth_phy_new_enc28j60
           \/ UndoInstance \/ UndoWithoutHandle \/ KeepInstance
  <2>1. UNCHANGED threads /\ (dev' = dev \/ FailsHere)
    BY <1>1 DEF ethernet_init_all, AllocationFails, eth_init_internal, InstallIsrService, InitializeBus,
                CheckRevision, esp_eth_phy_new_enc28j60, UndoInstance, UndoWithoutHandle, KeepInstance
  <2> QED
    BY <2>1, FailsQuietly, QuietStep
<1>2. CASE esp_eth_mac_new_enc28j60
  <2>1. UNCHANGED threads /\ (dev' = Fresh \/ FailsHere)
    BY <1>2 DEF esp_eth_mac_new_enc28j60, NewMac
  <2> QED
    BY <2>1, FailsQuietly, NewDeviceUntouched, QuietStep DEF Fresh
<1>3. CASE Install
  <2>1. UNCHANGED threads
    BY <1>3 DEF Install
  <2>2. PICK o \in IF "phy" \in eth_instance_g[Current].pointers THEN Then(emac_enc28j60_init(dev), enc28j60_init)
                   ELSE {[dev |-> dev, ok |-> FALSE]} : dev' = o.dev
    BY <1>3 DEF Install
  <2>3. Untouched(dev)
    BY DEF TrafficInv, QuietInv
  <2>4. \/ o = [dev |-> dev, ok |-> FALSE]
        \/ o \in emac_enc28j60_init(dev)
        \/ \E a \in emac_enc28j60_init(dev) : o \in enc28j60_init(a.dev)
    BY <2>2 DEF Then
  <2>5. o = [dev |-> dev, ok |-> FALSE] \/ Calm(o)
    BY <2>3, <2>4, CalmMacInit, CalmPhyInit, CalmDevice
  <2>6. dev' = dev \/ Untouched(dev')
    BY <2>2, <2>5 DEF Calm
  <2> QED
    BY <2>1, <2>6, QuietStep
<1>4. CASE SetAddress
  <2>1. UNCHANGED threads
    BY <1>4 DEF SetAddress
  <2>2. PICK o \in enc28j60_set_mac_addr(dev) : dev' = o.dev
    BY <1>4 DEF SetAddress
  <2>3. Calm(o)
    BY <2>2, CalmRows DEF TrafficInv, QuietInv
  <2> QED
    BY <2>1, <2>2, <2>3, QuietStep DEF Calm
<1>5. CASE SetFullDuplex
  <2>1. UNCHANGED threads
    BY <1>5 DEF SetFullDuplex
  <2>2. PICK o \in enc28j60_set_duplex(dev, "full") : dev' = o.dev
    BY <1>5 DEF SetFullDuplex
  <2>3. Calm(o)
    BY <2>2, CalmSetDuplex DEF TrafficInv, QuietInv
  <2> QED
    BY <2>1, <2>2, <2>3, QuietStep DEF Calm
<1>6. CASE DeinitInstance \/ FreeBus
  BY <1>6 DEF DeinitInstance, FreeBus, Idle
<1> QED
  BY <1>1, <1>2, <1>3, <1>4, <1>5, <1>6 DEF InitStep

(* A step that changes none of the fields, and none of the threads.         *)
LEMMA SameStep ==
  ASSUME TrafficInv, ~dev.lost, main' \notin Idle, Same(dev, dev'), UNCHANGED threads
  PROVE  TrafficInv'
<1>1. QuietInv'
  BY DEF QuietInv
<1>2. ThreadsInv'
  BY DEF TrafficInv, ThreadsInv, TaskInv, Same, Steady, threads
<1>3. TransmitInv'
  BY DEF TrafficInv, TransmitInv, Astray, FrameInv, NoFrame, ErrorDue, Same, Steady, threads
<1>4. LinkInv'
  BY DEF TrafficInv, LinkInv, Receives, InDuplex, Same, Steady, threads
<1> QED
  BY <1>1, <1>2, <1>3, <1>4 DEF TrafficInv, Same, Steady

LEMMA DeinitStep ==
  ASSUME TrafficInv, ~dev.lost, DeinitInstance \/ FreeBus
  PROVE  TrafficInv'
<1>1. CASE DeinitInstance
  <2>1. UNCHANGED threads /\ main' \notin Idle /\ (dev' = dev \/ FailsHere)
    BY <1>1 DEF DeinitInstance, Idle
  <2>2. Same(dev, dev')
    BY <2>1, FailsQuietly, SameIsReflexive DEF TrafficInv
  <2> QED
    BY <2>1, <2>2, SameStep
<1>2. CASE FreeBus
  BY <1>2, NewDeviceUntouched, QuietSuffices DEF FreeBus, Fresh
<1> QED
  BY <1>1, <1>2

-------------------------------------------------------------------------------
(* The task, while the driver runs.                                         *)

(* What is left to show of a step that keeps link and PHY as they are.      *)
LEMMA RunningStep ==
  ASSUME TrafficInv, ~dev.lost, main' \notin Idle, Steady(dev, dev'), link' = link,
         "RXEN" \in dev.econ1 => "RXEN" \in dev'.econ1,
         "PKTIE" \in dev.eie => "PKTIE" \in dev'.eie,
         "TXERIE" \in dev.eie => "TXERIE" \in dev'.eie,
         TaskInv', sender'.pc \in {"idle", "fill", "send"}, tx_ready_sem' \in {0, 1},
         FrameInv => FrameInv' \/ Astray'
  PROVE  TrafficInv'
<1>1. QuietInv'
  BY DEF QuietInv
<1>2. ThreadsInv'
  BY DEF TrafficInv, ThreadsInv, Steady
<1>3. TransmitInv'
  BY DEF TrafficInv, TransmitInv, Astray, Steady
<1>4. LinkInv'
  BY DEF TrafficInv, LinkInv, Receives, InDuplex, Steady
<1> QED
  BY <1>1, <1>2, <1>3, <1>4 DEF TrafficInv, Steady

(* An outcome that only touches the interrupts' common mask.                *)
LEMMA BecomesSteady ==
  ASSUME NEW d, NEW e, Steady(d, e), Becomes(e)
  PROVE  /\ Steady(d, dev')
         /\ dev'.econ1 = e.econ1 /\ dev'.eie = e.eie /\ dev'.eir = e.eir
  BY DEF Becomes, Steady, IsDevice, Fields

LEMMA EitherOutcome ==
  ASSUME NEW d, NEW e, IsDevice(d), NEW o \in Transaction(d, e)
  PROVE  (o.ok = TRUE /\ o.dev = e) \/ (o.ok = FALSE /\ Same(d, o.dev))
<1>1. CASE o = [dev |-> e, ok |-> TRUE]
  BY <1>1
<1>2. CASE o = [dev |-> Faulty(d), ok |-> FALSE]
  BY <1>2, FaultKeeps
<1> QED
  BY <1>1, <1>2, TransactionOutcome

(* The bits that are set and cleared.                                       *)
LEMMA MaskSet ==
  ASSUME NEW d, IsDevice(d), NEW bits, NEW o \in enc28j60_do_bitwise_set(d, "eie", bits)
  PROVE  \/ /\ o.ok = TRUE /\ Steady(d, o.dev) /\ o.dev.eie = d.eie \cup bits
            /\ o.dev.econ1 = d.econ1 /\ o.dev.eir = d.eir
         \/ o.ok = FALSE /\ Same(d, o.dev)
<1> DEFINE e == [d EXCEPT !.eie = d.eie \cup bits]
<1>1. Steady(d, e) /\ e.eie = d.eie \cup bits /\ e.econ1 = d.econ1 /\ e.eir = d.eir
  BY DEF Steady, IsDevice, Fields
<1>2. o \in Transaction(d, e)
  BY DEF enc28j60_do_bitwise_set
<1> HIDE DEF e
<1> QED
  BY <1>1, <1>2, EitherOutcome

LEMMA MaskCleared ==
  ASSUME NEW d, IsDevice(d), NEW bits, NEW o \in enc28j60_do_bitwise_clr(d, "eie", bits)
  PROVE  \/ /\ o.ok = TRUE /\ Steady(d, o.dev) /\ o.dev.eie = d.eie \ bits
            /\ o.dev.econ1 = d.econ1 /\ o.dev.eir = d.eir
         \/ o.ok = FALSE /\ Same(d, o.dev)
<1> DEFINE e == [d EXCEPT !.eie = d.eie \ bits]
<1>1. Steady(d, e) /\ e.eie = d.eie \ bits /\ e.econ1 = d.econ1 /\ e.eir = d.eir
  BY DEF Steady, IsDevice, Fields
<1>2. o \in Transaction(d, e)
  BY DEF enc28j60_do_bitwise_clr
<1> HIDE DEF e
<1> QED
  BY <1>1, <1>2, EitherOutcome

LEMMA FlagsCleared ==
  ASSUME NEW d, IsDevice(d), NEW bits, NEW o \in enc28j60_do_bitwise_clr(d, "eir", bits)
  PROVE  \/ /\ o.ok = TRUE /\ Steady(d, o.dev) /\ o.dev.eir = d.eir \ bits
            /\ o.dev.econ1 = d.econ1 /\ o.dev.eie = d.eie
         \/ o.ok = FALSE /\ Same(d, o.dev)
<1> DEFINE e == [d EXCEPT !.eir = d.eir \ bits]
<1>1. Steady(d, e) /\ e.eir = d.eir \ bits /\ e.econ1 = d.econ1 /\ e.eie = d.eie
  BY DEF Steady, IsDevice, Fields
<1>2. o \in Transaction(d, e)
  BY DEF enc28j60_do_bitwise_clr
<1> HIDE DEF e
<1> QED
  BY <1>1, <1>2, EitherOutcome

LEMMA ControlSet ==
  ASSUME NEW d, IsDevice(d), NEW bits, NEW o \in enc28j60_do_bitwise_set(d, "econ1", bits)
  PROVE  \/ /\ o.ok = TRUE /\ Steady(d, o.dev) /\ o.dev.econ1 = d.econ1 \cup bits
            /\ o.dev.eie = d.eie /\ o.dev.eir = d.eir
         \/ o.ok = FALSE /\ Same(d, o.dev)
<1> DEFINE e == [d EXCEPT !.econ1 = d.econ1 \cup bits]
<1>1. Steady(d, e) /\ e.econ1 = d.econ1 \cup bits /\ e.eie = d.eie /\ e.eir = d.eir
  BY DEF Steady, IsDevice, Fields
<1>2. o \in Transaction(d, e)
  BY DEF enc28j60_do_bitwise_set
<1> HIDE DEF e
<1> QED
  BY <1>1, <1>2, EitherOutcome

LEMMA ControlCleared ==
  ASSUME NEW d, IsDevice(d), NEW bits, NEW o \in enc28j60_do_bitwise_clr(d, "econ1", bits)
  PROVE  \/ /\ o.ok = TRUE /\ Steady(d, o.dev) /\ o.dev.econ1 = d.econ1 \ bits
            /\ o.dev.eie = d.eie /\ o.dev.eir = d.eir
         \/ o.ok = FALSE /\ Same(d, o.dev)
<1> DEFINE e == [d EXCEPT !.econ1 = d.econ1 \ bits]
<1>1. Steady(d, e) /\ e.econ1 = d.econ1 \ bits /\ e.eie = d.eie /\ e.eir = d.eir
  BY DEF Steady, IsDevice, Fields
<1>2. o \in Transaction(d, e)
  BY DEF enc28j60_do_bitwise_clr
<1> HIDE DEF e
<1> QED
  BY <1>1, <1>2, EitherOutcome

LEMMA WakeStep ==
  ASSUME TrafficInv, ~dev.lost, main' \notin Idle, link' = link, Wake
  PROVE  TrafficInv'
<1> DEFINE awake == [dev EXCEPT !.notified = FALSE]
<1>1. PICK o \in enc28j60_do_bitwise_clr(awake, "eie", {"INTIE"}) :
        /\ Becomes(o.dev)
        /\ task' = [task EXCEPT !.pc = IF o.ok THEN "status" ELSE "wait"]
        /\ UNCHANGED <<tx_ready_sem, sender>>
  BY DEF Wake, TaskStep, Goto
<1>2. Same(dev, awake) /\ IsDevice(awake) /\ task.pc = "wait"
  BY DEF TrafficInv, Same, Steady, IsDevice, Fields, Wake
<1> HIDE DEF awake
<1>3. \/ /\ Steady(awake, o.dev) /\ o.dev.eie = awake.eie \ {"INTIE"}
         /\ o.dev.econ1 = awake.econ1 /\ o.dev.eir = awake.eir
      \/ Same(awake, o.dev)
  BY <1>1, <1>2, MaskCleared
<1>4. /\ Steady(dev, o.dev)
      /\ o.dev.econ1 = dev.econ1 /\ o.dev.eir = dev.eir
      /\ o.dev.eie = dev.eie \/ o.dev.eie = dev.eie \ {"INTIE"}
  BY <1>2, <1>3 DEF Same, Steady
<1>5. /\ Steady(dev, dev') /\ dev'.econ1 = dev.econ1 /\ dev'.eir = dev.eir
      /\ dev'.eie = dev.eie \/ dev'.eie = dev.eie \ {"INTIE"}
  BY <1>1, <1>4, BecomesSteady
<1>6. TaskInv' /\ task'.pc \in {"status", "wait"}
  BY <1>1 DEF TrafficInv, ThreadsInv, TaskInv
<1>7. FrameInv => FrameInv'
  BY <1>1, <1>5, <1>6 DEF FrameInv, NoFrame, ErrorDue, Steady, Serving
<1> QED
  BY <1>1, <1>5, <1>6, <1>7, RunningStep DEF TrafficInv, ThreadsInv

(* Where the status it has read sends the task.                             *)
LEMMA DispatchGoes ==
  ASSUME NEW status
  PROVE  /\ Dispatch(status) \in {"malloc", "txerr", "txif", "end"}
         /\ Dispatch(status) = "malloc" => "PKTIF" \in status
         /\ Dispatch(status) = "txerr" => "TXERIF" \in status
         /\ Dispatch(status) = "txif" => "TXIF" \in status /\ "TXERIF" \notin status
  BY DEF Dispatch

(* A source is found when its flag stands and its mask allows it.           *)
LEMMA FoundSources ==
  ASSUME NEW flags \in {Sources(dev), Sources(dev) \ {"PKTIF"}}
  PROVE  LET found == FromFlagsAndCount(flags \cap Enabled(dev))
         IN  /\ "TXIF" \in found => "TXIF" \in dev.eir
             /\ "TXERIF" \in found <=> ErrorDue
<1> DEFINE status == flags \cap Enabled(dev)
<1>1. "TXIF" \in status => "TXIF" \in dev.eir
  BY DEF Sources
<1>2. "TXERIF" \in Enabled(dev) <=> "TXERIE" \in dev.eie
  BY DEF Enabled
<1>3. "TXERIF" \in status <=> ErrorDue
  BY <1>2 DEF Sources, ErrorDue
<1>4. FromFlagsAndCount(status) = status \/ (status = {} /\ FromFlagsAndCount(status) = {"PKTIF"})
  BY DEF FromFlagsAndCount
<1> QED
  BY <1>1, <1>3, <1>4

LEMMA ReadStatusStep ==
  ASSUME TrafficInv, ~dev.lost, main' \notin Idle, link' = link, ReadStatus
  PROVE  TrafficInv'
<1>1. PICK flags \in {Sources(dev), Sources(dev) \ {"PKTIF"}} :
        \E o \in ReadMasks(dev, flags \cap Enabled(dev) = {}) :
          /\ Becomes(o.dev)
          /\ task' = [task EXCEPT !.pc = IF o.ok THEN Dispatch(FromFlagsAndCount(flags \cap Enabled(dev)))
                                            ELSE "end",
                                  !.status = FromFlagsAndCount(flags \cap Enabled(dev))]
  BY DEF ReadStatus
<1> DEFINE found == FromFlagsAndCount(flags \cap Enabled(dev))
           unknown == flags \cap Enabled(dev) = {}
<1>2. PICK o \in ReadMasks(dev, unknown) :
        /\ Becomes(o.dev)
        /\ task' = [task EXCEPT !.pc = IF o.ok THEN Dispatch(found) ELSE "end", !.status = found]
  BY <1>1
<1>3. ("TXIF" \in found => "TXIF" \in dev.eir) /\ ("TXERIF" \in found <=> ErrorDue)
  BY FoundSources
<1> HIDE DEF found, unknown
<1>4. Keeps(dev, o) /\ IsDevice(o.dev)
  BY <1>2, MasksKeep, KeepsDevice DEF TrafficInv
<1>5. Same(dev, dev')
  BY <1>2, <1>4, BecomesKeeps, SameIsTransitive DEF Keeps
<1>6. /\ {"pc", "status"} \subseteq DOMAIN task' /\ task'.status = found
      /\ task'.pc = Dispatch(found) \/ task'.pc = "end"
  BY <1>2 DEF TrafficInv, ThreadsInv, TaskInv
<1>7. TaskInv'
  BY <1>6, DispatchGoes DEF TaskInv, Serving
<1>8. UNCHANGED <<tx_ready_sem, sender>>
  BY DEF ReadStatus
<1>9. ASSUME FrameInv PROVE FrameInv'
  <2>1. task'.pc = "txif" => "TXERIF" \notin found
    BY <1>6, DispatchGoes
  <2> QED
    BY <1>3, <1>5, <1>6, <1>8, <1>9, <2>1 DEF FrameInv, NoFrame, ErrorDue, Same, Steady
<1> QED
  BY <1>5, <1>7, <1>8, <1>9, RunningStep DEF TrafficInv, ThreadsInv, Same

(* The receive loop keeps the chip's flags and the status the task has read. *)
LEMMA ServingStep ==
  ASSUME TrafficInv, ~dev.lost, main' \notin Idle, link' = link, UNCHANGED <<tx_ready_sem, sender>>,
         Same(dev, dev'), task.pc \in Serving \ {"txif", "txerr"},
         {"pc", "status"} \subseteq DOMAIN task', task'.status = task.status,
         task'.pc \in {"malloc", "header", "content", "count"} \/ task'.pc = Dispatch(task.status \ {"PKTIF"})
  PROVE  TrafficInv'
<1>1. /\ task'.pc \in {"malloc", "header", "content", "count", "txerr", "txif", "end"}
      /\ task'.pc = "txerr" => "TXERIF" \in task.status
      /\ task'.pc = "txif" => "TXIF" \in task.status /\ "TXERIF" \notin task.status
  BY DispatchGoes
<1>2. TaskInv'
  BY <1>1 DEF TaskInv, Serving
<1>3. FrameInv => FrameInv'
  BY <1>1 DEF FrameInv, NoFrame, ErrorDue, Same, Steady, Serving
<1> QED
  BY <1>2, <1>3, RunningStep DEF TrafficInv, ThreadsInv, Same

LEMMA AfterPacketGoes ==
  ASSUME NEW d
  PROVE  AfterPacket(d) = "malloc" \/ AfterPacket(d) = Dispatch(task.status \ {"PKTIF"})
  BY DEF AfterPacket

LEMMA ReceiveStep ==
  ASSUME TrafficInv, ~dev.lost, main' \notin Idle, link' = link,
         PointAtHeader \/ ReadHeader \/ FreePacket \/ CountPackets
  PROVE  TrafficInv'
<1> SUFFICES /\ \E o : Keeps(dev, o) /\ Becomes(o.dev)
             /\ task.pc \in Serving \ {"txif", "txerr"} /\ UNCHANGED <<tx_ready_sem, sender>>
             /\ {"pc", "status"} \subseteq DOMAIN task' /\ task'.status = task.status
             /\ \/ task'.pc \in {"malloc", "header", "content", "count"}
                \/ task'.pc = Dispatch(task.status \ {"PKTIF"})
  <2>1. \A o : Keeps(dev, o) /\ Becomes(o.dev) => Same(dev, dev')
    BY KeepsDevice, BecomesKeeps, SameIsTransitive DEF Keeps
  <2> QED
    BY <2>1, ServingStep
<1>0. IsDevice(dev) /\ {"pc", "status"} \subseteq DOMAIN task
  BY DEF TrafficInv, ThreadsInv, TaskInv
<1>1. CASE PointAtHeader
  <2>1. PICK o \in AllocateAndPoint(dev) :
          /\ Becomes(o.dev)
          /\ task' = [task EXCEPT !.pc = IF o.ok THEN "header" ELSE AfterPacket(dev)]
          /\ task.pc = "malloc" /\ UNCHANGED <<tx_ready_sem, sender>>
    BY <1>1 DEF PointAtHeader, TaskStep, Goto
  <2>2. Keeps(dev, o)
    BY <1>0, PointKeeps
  <2>3. /\ {"pc", "status"} \subseteq DOMAIN task' /\ task'.status = task.status
        /\ task'.pc = "header" \/ task'.pc = AfterPacket(dev)
    BY <1>0, <2>1
  <2> QED
    BY <2>1, <2>2, <2>3, AfterPacketGoes DEF Serving
<1>2. CASE ReadHeader
  <2>1. PICK found, packet, o :
          /\ o \in HeaderThenPointer(dev, found) /\ Becomes(o.dev)
          /\ task' = [task EXCEPT !.pc = IF o.ok THEN "content" ELSE AfterPacket(o.dev), !.packet = packet]
          /\ task.pc = "header" /\ UNCHANGED <<tx_ready_sem, sender>>
    BY <1>2 DEF ReadHeader
  <2>2. Keeps(dev, o)
    BY <1>0, <2>1, HeaderKeeps
  <2>3. /\ {"pc", "status"} \subseteq DOMAIN task' /\ task'.status = task.status
        /\ task'.pc = "content" \/ task'.pc = AfterPacket(o.dev)
    BY <1>0, <2>1
  <2> QED
    BY <2>1, <2>2, <2>3, AfterPacketGoes DEF Serving
<1>3. CASE FreePacket
  <2>1. PICK o \in ContentThenFree(dev, task.packet) :
          /\ Becomes(o.dev)
          /\ task' = [task EXCEPT !.pc = IF o.ok THEN "count" ELSE AfterPacket(dev)]
          /\ task.pc = "content" /\ UNCHANGED <<tx_ready_sem, sender>>
    BY <1>3 DEF FreePacket, TaskStep, Goto
  <2>2. Keeps(dev, o)
    BY <1>0, ContentKeeps
  <2>3. /\ {"pc", "status"} \subseteq DOMAIN task' /\ task'.status = task.status
        /\ task'.pc = "count" \/ task'.pc = AfterPacket(dev)
    BY <1>0, <2>1
  <2> QED
    BY <2>1, <2>2, <2>3, AfterPacketGoes DEF Serving
<1>4. CASE CountPackets
  <2>1. PICK o \in ReadCount(dev) :
          /\ Becomes(o.dev)
          /\ task' = [task EXCEPT !.pc = AfterPacket(o.dev), !.packet = 0]
          /\ task.pc = "count" /\ UNCHANGED <<tx_ready_sem, sender>>
    BY <1>4 DEF CountPackets
  <2>2. Keeps(dev, o)
    BY <1>0, CountKeeps
  <2>3. /\ {"pc", "status"} \subseteq DOMAIN task' /\ task'.status = task.status
        /\ task'.pc = AfterPacket(o.dev)
    BY <1>0, <2>1
  <2> QED
    BY <2>1, <2>2, <2>3, AfterPacketGoes DEF Serving
<1> QED
  BY <1>1, <1>2, <1>3, <1>4

(* What the reset of the transmitter, up to the status vector, leaves.      *)
CheckedOutcome(d, o) ==
  /\ Steady(d, o.dev) /\ o.dev.eie = d.eie /\ o.dev.eir \subseteq d.eir
  /\ "RXEN" \in d.econ1 <=> "RXEN" \in o.dev.econ1
  /\ "TXRTS" \in o.dev.econ1 => "TXRTS" \in d.econ1
  /\ o.ok => "TXERIF" \notin o.dev.eir

LEMMA ResetOutcome ==
  ASSUME NEW d, IsDevice(d), NEW o \in ResetTransmitter(d)
  PROVE  CheckedOutcome(d, o)
<1> DEFINE quiet(x) == [x EXCEPT !.econ1 = @ \ {"TXRTS"}]
           Clear(x) == enc28j60_do_bitwise_clr(x, "eir", {"TXERIF"})
           Release(x) == enc28j60_do_bitwise_clr(quiet(x), "econ1", {"TXRST"})
           Rest(x) == Then(Release(x), Clear)
<1>1. \/ o \in enc28j60_do_bitwise_set(d, "econ1", {"TXRST"}) /\ ~o.ok
      \/ \E a \in enc28j60_do_bitwise_set(d, "econ1", {"TXRST"}) : a.ok /\ o \in Rest(a.dev)
  <2>1. o \in Then(enc28j60_do_bitwise_set(d, "econ1", {"TXRST"}), Rest)
    BY DEF ResetTransmitter
  <2> HIDE DEF Rest
  <2> QED
    BY <2>1 DEF Then
<1>2. \A x, p : p \in Rest(x) =>
        \/ p \in Release(x) /\ ~p.ok
        \/ \E b \in Release(x) : b.ok /\ p \in Clear(b.dev)
  <2> HIDE DEF Release, Clear
  <2> QED
    BY DEF Then, Rest
<1> HIDE DEF Rest
<1>3. \A x : IsDevice(x) =>
        Steady(x, quiet(x)) /\ quiet(x).econ1 = x.econ1 \ {"TXRTS"}
          /\ quiet(x).eie = x.eie /\ quiet(x).eir = x.eir
  BY DEF Steady, IsDevice, Fields
<1> HIDE DEF quiet
<1>4. ASSUME NEW a \in enc28j60_do_bitwise_set(d, "econ1", {"TXRST"}), a.ok, o \in Rest(a.dev)
      PROVE  CheckedOutcome(d, o)
  <2>1. /\ Steady(d, a.dev) /\ a.dev.econ1 = d.econ1 \cup {"TXRST"}
        /\ a.dev.eie = d.eie /\ a.dev.eir = d.eir
    BY <1>4, ControlSet
  <2> DEFINE c == quiet(a.dev)
  <2>2. /\ Steady(d, c) /\ c.econ1 = (d.econ1 \cup {"TXRST"}) \ {"TXRTS"}
        /\ c.eie = d.eie /\ c.eir = d.eir /\ IsDevice(c)
    BY <1>3, <2>1 DEF Steady
  <2>3. Release(a.dev) = enc28j60_do_bitwise_clr(c, "econ1", {"TXRST"})
    OBVIOUS
  <2> HIDE DEF c, Release
  <2>4. \A b \in Release(a.dev) :
          /\ Steady(d, b.dev) /\ b.dev.eie = d.eie /\ b.dev.eir = d.eir
          /\ b.dev.econ1 = c.econ1 \/ b.dev.econ1 = c.econ1 \ {"TXRST"}
    <3> SUFFICES ASSUME NEW b \in enc28j60_do_bitwise_clr(c, "econ1", {"TXRST"})
                 PROVE  /\ Steady(d, b.dev) /\ b.dev.eie = d.eie /\ b.dev.eir = d.eir
                        /\ b.dev.econ1 = c.econ1 \/ b.dev.econ1 = c.econ1 \ {"TXRST"}
      BY <2>3
    <3>1. \/ /\ Steady(c, b.dev) /\ b.dev.econ1 = c.econ1 \ {"TXRST"}
             /\ b.dev.eie = c.eie /\ b.dev.eir = c.eir
          \/ Same(c, b.dev)
      BY <2>2, ControlCleared
    <3> QED
      BY <2>2, <3>1 DEF Same, Steady
  <2>5. CASE o \in Release(a.dev) /\ ~o.ok
    BY <2>2, <2>4, <2>5 DEF CheckedOutcome
  <2>6. ASSUME NEW b \in Release(a.dev), b.ok, o \in Clear(b.dev)
        PROVE  CheckedOutcome(d, o)
    <3>1. \/ /\ o.ok = TRUE /\ Steady(b.dev, o.dev) /\ o.dev.eir = b.dev.eir \ {"TXERIF"}
             /\ o.dev.econ1 = b.dev.econ1 /\ o.dev.eie = b.dev.eie
          \/ o.ok = FALSE /\ Same(b.dev, o.dev)
      BY <2>4, <2>6, FlagsCleared DEF Steady
    <3>2. /\ Steady(d, o.dev) /\ o.dev.eie = d.eie
          /\ o.dev.econ1 = b.dev.econ1
          /\ o.dev.eir = d.eir \/ o.dev.eir = d.eir \ {"TXERIF"}
          /\ o.ok => o.dev.eir = d.eir \ {"TXERIF"}
      BY <2>4, <3>1 DEF Same, Steady
    <3> QED
      BY <2>2, <2>4, <3>2 DEF CheckedOutcome
  <2> QED
    BY <1>2, <1>4, <2>5, <2>6
<1>5. CASE o \in enc28j60_do_bitwise_set(d, "econ1", {"TXRST"}) /\ ~o.ok
  BY <1>5, ControlSet DEF CheckedOutcome, Same
<1> QED
  BY <1>1, <1>4, <1>5

(* An outcome that keeps the chip's flags after one that has checked them.  *)
LEMMA CheckedOn ==
  ASSUME NEW d, NEW a, CheckedOutcome(d, a), a.ok, NEW o, Keeps(a.dev, o)
  PROVE  CheckedOutcome(d, o)
  BY DEF CheckedOutcome, Keeps, Same, Steady

(* What the whole of the error's handling leaves: a frame is sent anew only *)
(* with its flags cleared.                                                  *)
HandledOutcome(d, late, o) ==
  /\ Steady(d, o.dev) /\ o.dev.eir \subseteq d.eir
  /\ "PKTIE" \in d.eie <=> "PKTIE" \in o.dev.eie
  /\ "TXERIE" \in d.eie <=> "TXERIE" \in o.dev.eie
  /\ "RXEN" \in d.econ1 <=> "RXEN" \in o.dev.econ1
  /\ "TXRTS" \in o.dev.econ1 =>
       \/ "TXRTS" \in d.econ1
       \/ late /\ o.ok /\ "TXIF" \notin o.dev.eir
  /\ o.ok => "TXERIF" \notin o.dev.eir

LEMMA RetransmitOutcome ==
  ASSUME NEW d, NEW a, IsDevice(d), CheckedOutcome(d, a), a.ok, NEW o \in Retransmit(a.dev)
  PROVE  HandledOutcome(d, TRUE, o)
<1> DEFINE e == a.dev
           Again(x) == enc28j60_do_bitwise_set(x, "econ1", {"TXRTS"})
           Rest(x) == Then(enc28j60_do_bitwise_set(x, "eie", {"INTIE"}), Again)
<1>1. \/ o \in enc28j60_do_bitwise_clr(e, "eir", {"TXIF"}) /\ ~o.ok
      \/ \E b \in enc28j60_do_bitwise_clr(e, "eir", {"TXIF"}) : b.ok /\ o \in Rest(b.dev)
  <2>1. o \in Then(enc28j60_do_bitwise_clr(e, "eir", {"TXIF"}), Rest)
    BY DEF Retransmit
  <2> HIDE DEF Rest, e
  <2> QED
    BY <2>1 DEF Then
<1>2. \A x, p : p \in Rest(x) =>
        \/ p \in enc28j60_do_bitwise_set(x, "eie", {"INTIE"}) /\ ~p.ok
        \/ \E c \in enc28j60_do_bitwise_set(x, "eie", {"INTIE"}) : c.ok /\ p \in Again(c.dev)
  <2> HIDE DEF Again
  <2> QED
    BY DEF Then, Rest
<1> HIDE DEF Rest
<1>3. /\ Steady(d, e) /\ IsDevice(e) /\ e.eie = d.eie /\ e.eir \subseteq d.eir
      /\ "RXEN" \in d.econ1 <=> "RXEN" \in e.econ1
      /\ "TXRTS" \in e.econ1 => "TXRTS" \in d.econ1
      /\ "TXERIF" \notin e.eir
  BY DEF CheckedOutcome, Steady
<1> HIDE DEF e
<1>4. CASE o \in enc28j60_do_bitwise_clr(e, "eir", {"TXIF"}) /\ ~o.ok
  <2>1. o.ok = FALSE /\ Same(e, o.dev)
    BY <1>3, <1>4, FlagsCleared
  <2>2. Steady(d, o.dev)
    BY <1>3, <2>1 DEF Same, Steady
  <2> QED
    BY <1>3, <2>1, <2>2 DEF HandledOutcome, Same
<1>5. ASSUME NEW b \in enc28j60_do_bitwise_clr(e, "eir", {"TXIF"}), b.ok, o \in Rest(b.dev)
      PROVE  HandledOutcome(d, TRUE, o)
  <2>1. /\ Steady(e, b.dev) /\ b.dev.eir = e.eir \ {"TXIF"}
        /\ b.dev.econ1 = e.econ1 /\ b.dev.eie = e.eie /\ IsDevice(b.dev)
    BY <1>3, <1>5, FlagsCleared DEF Steady
  <2>2. CASE o \in enc28j60_do_bitwise_set(b.dev, "eie", {"INTIE"}) /\ ~o.ok
    <3>1. o.ok = FALSE /\ Same(b.dev, o.dev)
      BY <2>1, <2>2, MaskSet
    <3>2. Steady(d, o.dev)
      BY <1>3, <2>1, <3>1 DEF Same, Steady
    <3> QED
      BY <1>3, <2>1, <3>1, <3>2 DEF HandledOutcome, Same
  <2>3. ASSUME NEW c \in enc28j60_do_bitwise_set(b.dev, "eie", {"INTIE"}), c.ok, o \in Again(c.dev)
        PROVE  HandledOutcome(d, TRUE, o)
    <3>1. /\ Steady(b.dev, c.dev) /\ c.dev.eie = b.dev.eie \cup {"INTIE"}
          /\ c.dev.econ1 = b.dev.econ1 /\ c.dev.eir = b.dev.eir /\ IsDevice(c.dev)
      BY <2>1, <2>3, MaskSet DEF Steady
    <3>2. \/ /\ o.ok = TRUE /\ Steady(c.dev, o.dev) /\ o.dev.econ1 = c.dev.econ1 \cup {"TXRTS"}
             /\ o.dev.eie = c.dev.eie /\ o.dev.eir = c.dev.eir
          \/ o.ok = FALSE /\ Same(c.dev, o.dev)
      BY <2>3, <3>1, ControlSet
    <3>3. Steady(d, o.dev)
      BY <1>3, <2>1, <3>1, <3>2 DEF Same, Steady
    <3>4. /\ o.dev.eie = d.eie \cup {"INTIE"} /\ o.dev.eir = e.eir \ {"TXIF"}
          /\ \/ o.ok = TRUE /\ o.dev.econ1 = e.econ1 \cup {"TXRTS"}
             \/ o.ok = FALSE /\ o.dev.econ1 = e.econ1
      BY <1>3, <2>1, <3>1, <3>2 DEF Same
    <3> QED
      BY <1>3, <3>3, <3>4 DEF HandledOutcome
  <2> QED
    BY <1>2, <1>5, <2>2, <2>3
<1> QED
  BY <1>1, <1>4, <1>5

LEMMA CheckedIsHandled ==
  ASSUME NEW d, NEW late, NEW o, CheckedOutcome(d, o)
  PROVE  HandledOutcome(d, late, o)
  BY DEF CheckedOutcome, HandledOutcome

LEMMA ErrorOutcome ==
  ASSUME NEW d, IsDevice(d), NEW late \in BOOLEAN, NEW o \in HandleError(d, late)
  PROVE  HandledOutcome(d, late, o)
<1> DEFINE checked == IF LateStatus(d) THEN Then(ResetTransmitter(d), emac_enc28j60_get_tsv)
                         ELSE ResetTransmitter(d)
<1>1. \A p \in checked : CheckedOutcome(d, p)
  <2> SUFFICES ASSUME NEW p \in checked PROVE CheckedOutcome(d, p)
    OBVIOUS
  <2>1. \/ p \in ResetTransmitter(d)
        \/ \E a \in ResetTransmitter(d) : a.ok /\ p \in emac_enc28j60_get_tsv(a.dev)
    BY DEF Then
  <2>2. ASSUME NEW a \in ResetTransmitter(d), a.ok, p \in emac_enc28j60_get_tsv(a.dev)
        PROVE  CheckedOutcome(d, p)
    <3>1. CheckedOutcome(d, a) /\ IsDevice(a.dev)
      BY ResetOutcome DEF CheckedOutcome, Steady
    <3>2. \/ p \in WritePair(a.dev, "ERDPT", a.dev.registers["ERDPT"])
          \/ \E b \in WritePair(a.dev, "ERDPT", a.dev.registers["ERDPT"]) : p \in enc28j60_do_memory_read(b.dev)
      BY <2>2 DEF emac_enc28j60_get_tsv, Then
    <3>3. Keeps(a.dev, p)
      BY <3>1, <3>2, PairKeeps, MemoryKeeps, KeepsDevice, KeepsChain
    <3> QED
      BY <2>2, <3>1, <3>3, CheckedOn
  <2> QED
    BY <2>1, <2>2, ResetOutcome
<1>2. CASE late = FALSE
  <2>1. o \in checked
    BY <1>2 DEF HandleError
  <2> QED
    BY <1>1, <2>1, CheckedIsHandled
<1>3. CASE late = TRUE
  <2>1. o \in Then(checked, Retransmit)
    BY <1>3 DEF HandleError
  <2> HIDE DEF checked
  <2>2. o \in checked \/ \E a \in checked : a.ok /\ o \in Retransmit(a.dev)
    BY <2>1 DEF Then
  <2>3. HandledOutcome(d, TRUE, o)
    BY <1>1, <2>2, CheckedIsHandled, RetransmitOutcome
  <2> QED
    BY <1>3, <2>3
<1> QED
  BY <1>2, <1>3

LEMMA TransmitErrorStep ==
  ASSUME TrafficInv, ~dev.lost, main' \notin Idle, link' = link, TransmitError
  PROVE  TrafficInv'
<1> DEFINE late == LateStatus(dev) /\ dev.lateCollision
           done == IF late THEN AfterRetransmit ELSE Dispatch(task.status \ {"PKTIF", "TXERIF"})
<1>1. PICK o \in HandleError(dev, late) :
        /\ Becomes(o.dev)
        /\ task' = [task EXCEPT !.pc = IF o.ok THEN done ELSE "end"]
        /\ task.pc = "txerr" /\ UNCHANGED <<tx_ready_sem, sender>>
  BY DEF TransmitError, TaskStep, Goto
<1>2. done = IF late THEN "wait" ELSE Dispatch(task.status \ {"PKTIF", "TXERIF"})
  BY DEF AfterRetransmit
<1>3. late \in BOOLEAN
  BY DEF LateStatus
<1> HIDE DEF late, done
<1>4. HandledOutcome(dev, late, o)
  BY <1>1, <1>3, ErrorOutcome DEF TrafficInv
<1>5. /\ Steady(dev, dev')
      /\ dev'.econ1 = o.dev.econ1 /\ dev'.eie = o.dev.eie /\ dev'.eir = o.dev.eir
  BY <1>1, <1>4, BecomesSteady DEF HandledOutcome
<1>6. /\ {"pc", "status"} \subseteq DOMAIN task' /\ task'.status = task.status
      /\ task'.pc = IF o.ok THEN done ELSE "end"
  BY <1>1 DEF TrafficInv, ThreadsInv, TaskInv
<1>7. /\ task'.pc \in {"wait", "txif", "end"}
      /\ task'.pc = "txif" => o.ok /\ ~late /\ "TXIF" \in task.status
  <2>1. /\ Dispatch(task.status \ {"PKTIF", "TXERIF"}) \in {"txif", "end"}
        /\ Dispatch(task.status \ {"PKTIF", "TXERIF"}) = "txif" => "TXIF" \in task.status
    BY DispatchGoes
  <2> QED
    BY <1>2, <1>6, <2>1
<1>8. TaskInv'
  BY <1>6, <1>7 DEF TaskInv, Serving
<1>9. ASSUME FrameInv PROVE FrameInv'
  <2>1. ~NoFrame /\ ~NoFrame'
    BY <1>1, <1>9 DEF FrameInv, NoFrame, TrafficInv, ThreadsInv, TaskInv, Serving
  <2>2. /\ "TXRTS" \in dev'.econ1 => "TXRTS" \in dev.econ1 \/ (o.ok /\ late /\ "TXIF" \notin dev'.eir)
        /\ o.ok => "TXERIF" \notin dev'.eir
        /\ dev'.eir \subseteq dev.eir
        /\ ErrorDue' => ErrorDue
        /\ dev'.link_status = dev.link_status
    BY <1>4, <1>5 DEF HandledOutcome, ErrorDue, Steady
  <2>3. "TXRTS" \in dev'.econ1 => "TXIF" \notin dev'.eir /\ ~ErrorDue'
    BY <1>9, <2>2 DEF FrameInv, ErrorDue
  <2>4. task'.pc = "txif" => "TXRTS" \notin dev'.econ1 /\ ~ErrorDue'
    BY <1>1, <1>7, <1>9, <2>2 DEF FrameInv, ErrorDue, Serving
  <2> QED
    BY <1>1, <1>6, <1>7, <1>9, <2>1, <2>2, <2>3, <2>4 DEF FrameInv, Serving
<1> QED
  BY <1>1, <1>4, <1>5, <1>8, <1>9, RunningStep DEF HandledOutcome, TrafficInv, ThreadsInv

LEMMA ClearedOutcome ==
  ASSUME NEW d, IsDevice(d), NEW o \in ClearTransmitted(d)
  PROVE  /\ Steady(d, o.dev) /\ o.dev.econ1 = d.econ1
         /\ o.dev.eie = d.eie \/ o.dev.eie = d.eie \ {"TXIE"}
         /\ o.dev.eir = d.eir \/ o.dev.eir = d.eir \ {"TXIF"}
         /\ o.ok => o.dev.eir = d.eir \ {"TXIF"}
<1>1. \/ o \in enc28j60_do_bitwise_clr(d, "eir", {"TXIF"}) /\ ~o.ok
      \/ \E a \in enc28j60_do_bitwise_clr(d, "eir", {"TXIF"}) :
           a.ok /\ o \in enc28j60_do_bitwise_clr(a.dev, "eie", {"TXIE"})
  BY DEF ClearTransmitted, Then
<1>2. CASE o \in enc28j60_do_bitwise_clr(d, "eir", {"TXIF"}) /\ ~o.ok
  BY <1>2, FlagsCleared DEF Same
<1>3. ASSUME NEW a \in enc28j60_do_bitwise_clr(d, "eir", {"TXIF"}), a.ok,
             o \in enc28j60_do_bitwise_clr(a.dev, "eie", {"TXIE"})
      PROVE  /\ Steady(d, o.dev) /\ o.dev.econ1 = d.econ1
             /\ o.dev.eie = d.eie \/ o.dev.eie = d.eie \ {"TXIE"}
             /\ o.dev.eir = d.eir \ {"TXIF"}
  <2>1. /\ Steady(d, a.dev) /\ a.dev.eir = d.eir \ {"TXIF"}
        /\ a.dev.econ1 = d.econ1 /\ a.dev.eie = d.eie /\ IsDevice(a.dev)
    BY <1>3, FlagsCleared DEF Steady
  <2>2. \/ /\ Steady(a.dev, o.dev) /\ o.dev.eie = a.dev.eie \ {"TXIE"}
           /\ o.dev.econ1 = a.dev.econ1 /\ o.dev.eir = a.dev.eir
        \/ Same(a.dev, o.dev)
    BY <1>3, <2>1, MaskCleared
  <2> QED
    BY <2>1, <2>2 DEF Same, Steady
<1> QED
  BY <1>1, <1>2, <1>3

LEMMA TransmitReadyStep ==
  ASSUME TrafficInv, ~dev.lost, main' \notin Idle, link' = link, TransmitReady
  PROVE  TrafficInv'
<1>1. PICK o \in ClearTransmitted(dev) :
        /\ Becomes(o.dev)
        /\ tx_ready_sem' = IF o.ok THEN 1 ELSE tx_ready_sem
        /\ task.pc = "txif" /\ task' = [task EXCEPT !.pc = "end"] /\ sender' = sender
  BY DEF TransmitReady, Goto
<1>2. /\ Steady(dev, o.dev) /\ o.dev.econ1 = dev.econ1
      /\ o.dev.eie = dev.eie \/ o.dev.eie = dev.eie \ {"TXIE"}
      /\ o.dev.eir = dev.eir \/ o.dev.eir = dev.eir \ {"TXIF"}
      /\ o.ok => o.dev.eir = dev.eir \ {"TXIF"}
  BY ClearedOutcome DEF TrafficInv
<1>3. /\ Steady(dev, dev')
      /\ dev'.econ1 = o.dev.econ1 /\ dev'.eie = o.dev.eie /\ dev'.eir = o.dev.eir
  BY <1>1, <1>2, BecomesSteady
<1>4. /\ {"pc", "status"} \subseteq DOMAIN task' /\ task'.pc = "end"
      /\ "TXIF" \in task.status
  BY <1>1 DEF TrafficInv, ThreadsInv, TaskInv
<1>5. TaskInv' /\ tx_ready_sem' \in {0, 1}
  BY <1>1, <1>4 DEF TaskInv, TrafficInv, ThreadsInv
<1>6. ASSUME FrameInv PROVE FrameInv'
  <2>1. ~NoFrame /\ "TXRTS" \notin dev.econ1 /\ ~ErrorDue
    BY <1>1, <1>4, <1>6 DEF FrameInv, Serving
  <2>2. "TXRTS" \notin dev'.econ1 /\ ~ErrorDue'
    BY <1>2, <1>3, <2>1 DEF ErrorDue
  <2>3. sender'.pc = "idle" /\ (NoFrame' => "TXIF" \notin dev'.eir)
    BY <1>1, <1>2, <1>3, <2>1 DEF NoFrame, TrafficInv, ThreadsInv
  <2>4. dev'.link_status = dev.link_status /\ (tx_ready_sem = 1 => tx_ready_sem' = 1)
    BY <1>1, <1>3 DEF Steady
  <2>5. "TXERIF" \in dev'.eir => "TXERIF" \in dev.eir
    BY <1>2, <1>3
  <2> QED
    BY <1>4, <1>6, <2>2, <2>3, <2>4, <2>5 DEF FrameInv, Serving
<1> QED
  BY <1>1, <1>2, <1>3, <1>5, <1>6, RunningStep DEF TrafficInv, ThreadsInv

LEMMA RestoreStep ==
  ASSUME TrafficInv, ~dev.lost, main' \notin Idle, link' = link, RestoreInterrupts
  PROVE  TrafficInv'
<1>1. PICK o \in enc28j60_do_bitwise_set(dev, "eie", {"INTIE"}) :
        Becomes(IF o.ok THEN o.dev ELSE Slip(o.dev, "INTIE"))
  BY DEF RestoreInterrupts
<1>2. task' = IdleTask /\ UNCHANGED <<tx_ready_sem, sender>>
  BY DEF RestoreInterrupts
<1>3. \/ /\ o.ok = TRUE /\ Steady(dev, o.dev) /\ o.dev.eie = dev.eie \cup {"INTIE"}
         /\ o.dev.econ1 = dev.econ1 /\ o.dev.eir = dev.eir
      \/ o.ok = FALSE /\ Same(dev, o.dev)
  BY MaskSet DEF TrafficInv
<1> DEFINE e == IF o.ok THEN o.dev ELSE Slip(o.dev, "INTIE")
<1>4. /\ Steady(dev, e) /\ e.econ1 = dev.econ1 /\ e.eir = dev.eir
      /\ e.eie = dev.eie \/ e.eie = dev.eie \cup {"INTIE"}
  <2>1. CASE o.ok = TRUE
    BY <1>3, <2>1
  <2>2. CASE o.ok = FALSE
    <3>1. e = Slip(o.dev, "INTIE") /\ Same(dev, o.dev) /\ IsDevice(o.dev)
      BY <1>3, <2>2 DEF Same, Steady
    <3>2. Same(o.dev, e)
      BY <3>1, SlipKeeps
    <3> QED
      BY <3>1, <3>2, SameIsTransitive DEF Same
  <2> QED
    BY <1>3, <2>1, <2>2
<1> HIDE DEF e
<1>5. /\ Steady(dev, dev') /\ dev'.econ1 = dev.econ1 /\ dev'.eir = dev.eir
      /\ dev'.eie = dev.eie \/ dev'.eie = dev.eie \cup {"INTIE"}
  <2>1. Becomes(e)
    BY <1>1 DEF e
  <2> QED
    BY <1>4, <2>1, BecomesSteady
<1>6. TaskInv' /\ task'.pc = "wait"
  BY <1>2 DEF TaskInv, IdleTask
<1>7. FrameInv => FrameInv'
  BY <1>2, <1>5, <1>6 DEF FrameInv, NoFrame, ErrorDue, Steady, Serving
<1> QED
  BY <1>2, <1>5, <1>6, <1>7, RunningStep DEF TrafficInv, ThreadsInv

LEMMA TaskSteps ==
  ASSUME TrafficInv, ~dev.lost, main' \notin Idle, link' = link, emac_enc28j60_task
  PROVE  TrafficInv'
  BY WakeStep, ReadStatusStep, ReceiveStep, TransmitErrorStep, TransmitReadyStep, RestoreStep
     DEF emac_enc28j60_task

-------------------------------------------------------------------------------
(* The caller of transmit, and the chip.                                    *)

(* The flags the transmitter sets are not there for it to see.              *)
LEMMA TakeStep ==
  ASSUME TrafficInv, ~dev.lost, main' \notin Idle, link' = link, TakeSemaphore \/ TakeExpires
  PROVE  TrafficInv'
<1>1. CASE TakeSemaphore
  <2>1. PICK o \in Transaction(dev, dev) :
          /\ Becomes(o.dev) /\ task' = task
          /\ sender' = [pc |-> IF o.ok THEN IF "TXRTS" \in dev.econ1 THEN "idle" ELSE "fill" ELSE "idle",
                        frame |-> sender.frame + 1]
    BY <1>1 DEF TakeSemaphore, CheckTransmitter, SenderStep
  <2>2. tx_ready_sem = 1 /\ tx_ready_sem' = 0 /\ dev.link_status = "UP"
    BY <1>1 DEF TakeSemaphore, Called
  <2>3. Keeps(dev, o)
    BY SameIsReflexive, TransactionKeeps DEF TrafficInv
  <2>4. Same(dev, dev')
    BY <2>1, <2>3, KeepsDevice, BecomesKeeps, SameIsTransitive DEF Keeps
  <2>5. sender'.pc \in {"idle", "fill"}
    BY <2>1
  <2>6. TaskInv'
    BY <2>1 DEF TaskInv, TrafficInv, ThreadsInv
  <2>7. ASSUME FrameInv PROVE FrameInv'
    <3>1. "TXRTS" \notin dev'.econ1 /\ "TXIF" \notin dev'.eir /\ ~ErrorDue'
      BY <2>2, <2>4, <2>7 DEF FrameInv, NoFrame, ErrorDue, Same
    <3>2. /\ task'.pc \in Serving => "TXIF" \notin task'.status
          /\ task'.pc \in Serving \ {"txif"} => "TXERIF" \notin task'.status
      BY <2>1, <2>2, <2>7 DEF FrameInv, NoFrame
    <3> QED
      BY <2>2, <2>4, <2>7, <3>1, <3>2 DEF FrameInv, Same, Steady
  <2> QED
    BY <2>2, <2>4, <2>5, <2>6, <2>7, RunningStep DEF Same
<1>2. CASE TakeExpires
  <2> DEFINE d == Slip(dev, "expired")
  <2>1. PICK o \in Transaction(d, d) :
          /\ Becomes(o.dev) /\ task' = task
          /\ sender' = [pc |-> IF o.ok THEN IF "TXRTS" \in d.econ1 THEN "idle" ELSE "fill" ELSE "idle",
                        frame |-> sender.frame + 1]
    BY <1>2 DEF TakeExpires, CheckTransmitter, SenderStep
  <2>2. Same(dev, d) /\ IsDevice(d) /\ "expired" \in d.slips
    BY SlipKeeps DEF TrafficInv, Same, Steady, Slip, IsDevice, Fields
  <2> HIDE DEF d
  <2>3. Keeps(d, o)
    BY <2>2, SameIsReflexive, TransactionKeeps
  <2>4. Same(d, dev')
    BY <2>1, <2>3, KeepsDevice, BecomesKeeps, SameIsTransitive DEF Keeps
  <2>5. Same(dev, dev') /\ Astray'
    BY <2>2, <2>4, SameIsTransitive DEF Same, Steady, Astray
  <2>6. sender'.pc \in {"idle", "fill"}
    BY <2>1
  <2>7. TaskInv' /\ tx_ready_sem' \in {0, 1}
    BY <1>2, <2>1 DEF TaskInv, TrafficInv, ThreadsInv, TakeExpires
  <2> QED
    BY <2>5, <2>6, <2>7, RunningStep DEF Same
<1> QED
  BY <1>1, <1>2

(* The frame is written behind the last one, and its flag taken down.       *)
WrittenOutcome(d, o) ==
  /\ Steady(d, o.dev) /\ o.dev.econ1 = d.econ1
  /\ o.dev.eie = d.eie \/ o.dev.eie = d.eie \cup {"TXIE"}
  /\ o.dev.eir = d.eir \/ o.dev.eir = d.eir \ {"TXIF"}

LEMMA KeptIsWritten ==
  ASSUME NEW d, NEW o, Keeps(d, o)
  PROVE  WrittenOutcome(d, o)
  BY DEF Keeps, Same, WrittenOutcome

LEMMA WriteFrameOutcome ==
  ASSUME NEW d, IsDevice(d), NEW o \in WriteFrame(d)
  PROVE  WrittenOutcome(d, o)
<1> DEFINE R6(x) == enc28j60_do_bitwise_set(x, "eie", {"TXIE"})
           R5(x) == Then(enc28j60_do_bitwise_clr(x, "eir", {"TXIF"}), R6)
           R4(x) == Then(enc28j60_do_memory_write(x), R5)
           R3(x) == Then(enc28j60_do_memory_write(x), R4)
           R2(x) == Then(TouchPair(x, "ETXND"), R3)
<1>1. o \in Then(TouchPair(d, "EWRPT"), R2)
  BY DEF WriteFrame
<1> HIDE DEF R2, R3, R4, R5, R6
<1>2. \A x, p : IsDevice(x) /\ p \in R6(x) => WrittenOutcome(x, p)
  BY MaskSet DEF R6, WrittenOutcome, Same
<1>3. \A x, p : IsDevice(x) /\ p \in R5(x) => WrittenOutcome(x, p)
  <2>1. \A x, p : p \in R5(x) =>
          \/ p \in enc28j60_do_bitwise_clr(x, "eir", {"TXIF"}) /\ ~p.ok
          \/ \E a \in enc28j60_do_bitwise_clr(x, "eir", {"TXIF"}) : a.ok /\ p \in R6(a.dev)
    BY DEF Then, R5
  <2> SUFFICES ASSUME NEW x, NEW p, IsDevice(x), p \in R5(x)
               PROVE  WrittenOutcome(x, p)
    OBVIOUS
  <2>2. CASE p \in enc28j60_do_bitwise_clr(x, "eir", {"TXIF"}) /\ ~p.ok
    BY <2>2, FlagsCleared DEF Same, WrittenOutcome
  <2>3. ASSUME NEW a \in enc28j60_do_bitwise_clr(x, "eir", {"TXIF"}), a.ok, p \in R6(a.dev)
        PROVE  WrittenOutcome(x, p)
    <3>1. /\ Steady(x, a.dev) /\ a.dev.eir = x.eir \ {"TXIF"} /\ IsDevice(a.dev)
          /\ a.dev.econ1 = x.econ1 /\ a.dev.eie = x.eie
      BY <2>3, FlagsCleared DEF Steady
    <3>2. \/ /\ Steady(a.dev, p.dev) /\ p.dev.eie = a.dev.eie \cup {"TXIE"}
             /\ p.dev.econ1 = a.dev.econ1 /\ p.dev.eir = a.dev.eir
          \/ Same(a.dev, p.dev)
      BY <2>3, <3>1, MaskSet DEF R6
    <3> QED
      BY <3>1, <3>2 DEF WrittenOutcome, Same, Steady
  <2> QED
    BY <2>1, <2>2, <2>3
<1>4. \A x, a, p : Keeps(x, a) /\ WrittenOutcome(a.dev, p) => WrittenOutcome(x, p)
  BY DEF Keeps, Same, Steady, WrittenOutcome
<1>5. \A x, p : IsDevice(x) /\ p \in R4(x) => WrittenOutcome(x, p)
  <2>1. \A x, p : p \in R4(x) =>
          \/ p \in enc28j60_do_memory_write(x)
          \/ \E a \in enc28j60_do_memory_write(x) : p \in R5(a.dev)
    BY DEF Then, R4
  <2> QED
    BY <1>3, <1>4, <2>1, MemoryKeeps, KeepsDevice, KeptIsWritten
<1>6. \A x, p : IsDevice(x) /\ p \in R3(x) => WrittenOutcome(x, p)
  <2>1. \A x, p : p \in R3(x) =>
          \/ p \in enc28j60_do_memory_write(x)
          \/ \E a \in enc28j60_do_memory_write(x) : p \in R4(a.dev)
    BY DEF Then, R3
  <2> QED
    BY <1>4, <1>5, <2>1, MemoryKeeps, KeepsDevice, KeptIsWritten
<1>7. \A x, p : IsDevice(x) /\ p \in R2(x) => WrittenOutcome(x, p)
  <2>1. \A x, p : p \in R2(x) =>
          \/ p \in TouchPair(x, "ETXND")
          \/ \E a \in TouchPair(x, "ETXND") : p \in R3(a.dev)
    BY DEF Then, R2
  <2>2. \A x, a : IsDevice(x) /\ a \in TouchPair(x, "ETXND") => Keeps(x, a) /\ IsDevice(a.dev)
    BY PairKeeps, KeepsDevice
  <2> QED
    BY <1>4, <1>6, <2>1, <2>2, KeptIsWritten
<1>8. o \in TouchPair(d, "EWRPT") \/ \E a \in TouchPair(d, "EWRPT") : o \in R2(a.dev)
  BY <1>1 DEF Then
<1> QED
  BY <1>4, <1>7, <1>8, PairKeeps, KeepsDevice, KeptIsWritten

LEMMA FillStep ==
  ASSUME TrafficInv, ~dev.lost, main' \notin Idle, link' = link, FillBuffer
  PROVE  TrafficInv'
<1>1. PICK o \in WriteFrame(dev) :
        /\ Becomes(o.dev) /\ task' = task
        /\ sender' = [pc |-> IF o.ok THEN "send" ELSE "idle", frame |-> sender.frame]
  BY DEF FillBuffer, SenderStep
<1>2. sender.pc = "fill" /\ tx_ready_sem' = tx_ready_sem
  BY DEF FillBuffer
<1>3. WrittenOutcome(dev, o)
  BY WriteFrameOutcome DEF TrafficInv
<1>4. /\ Steady(dev, dev')
      /\ dev'.econ1 = o.dev.econ1 /\ dev'.eie = o.dev.eie /\ dev'.eir = o.dev.eir
  BY <1>1, <1>3, BecomesSteady DEF WrittenOutcome
<1>5. sender'.pc \in {"idle", "send"} /\ TaskInv'
  BY <1>1 DEF TaskInv, TrafficInv, ThreadsInv
<1>6. ASSUME FrameInv PROVE FrameInv'
  <2>1. NoFrame /\ tx_ready_sem # 1 /\ tx_ready_sem' # 1
    BY <1>2, <1>6 DEF FrameInv, NoFrame
  <2>2. /\ "TXRTS" \notin dev'.econ1 /\ "TXIF" \notin dev'.eir /\ ~ErrorDue'
        /\ "TXERIF" \in dev'.eir => "TXERIF" \in dev.eir
    BY <1>3, <1>4, <1>6, <2>1 DEF WrittenOutcome, FrameInv, ErrorDue
  <2>3. /\ task'.pc \in Serving => "TXIF" \notin task'.status
        /\ task'.pc \in Serving \ {"txif"} => "TXERIF" \notin task'.status
    BY <1>1, <1>6, <2>1 DEF FrameInv
  <2>4. dev'.link_status = dev.link_status
    BY <1>4 DEF Steady
  <2> QED
    BY <1>2, <1>6, <2>1, <2>2, <2>3, <2>4 DEF FrameInv
<1> QED
  BY <1>2, <1>3, <1>4, <1>5, <1>6, RunningStep DEF WrittenOutcome, TrafficInv, ThreadsInv

LEMMA SendStep ==
  ASSUME TrafficInv, ~dev.lost, main' \notin Idle, link' = link, Send
  PROVE  TrafficInv'
<1>1. PICK o \in enc28j60_do_bitwise_set(dev, "econ1", {"TXRTS"}) :
        /\ Becomes(o.dev) /\ task' = task
        /\ sender' = [pc |-> IF o.ok THEN "idle" ELSE "idle", frame |-> sender.frame]
  BY DEF Send, SenderStep
<1>2. sender.pc = "send" /\ tx_ready_sem' = tx_ready_sem
  BY DEF Send
<1>3. /\ Steady(dev, o.dev) /\ o.dev.eie = dev.eie /\ o.dev.eir = dev.eir
      /\ o.dev.econ1 = dev.econ1 \/ o.dev.econ1 = dev.econ1 \cup {"TXRTS"}
  BY ControlSet DEF TrafficInv, Same
<1>4. /\ Steady(dev, dev') /\ dev'.eie = dev.eie /\ dev'.eir = dev.eir
      /\ dev'.econ1 = dev.econ1 \/ dev'.econ1 = dev.econ1 \cup {"TXRTS"}
  BY <1>1, <1>3, BecomesSteady
<1>5. sender'.pc = "idle" /\ TaskInv'
  BY <1>1 DEF TaskInv, TrafficInv, ThreadsInv
<1>6. ASSUME FrameInv PROVE FrameInv'
  <2>1. NoFrame /\ tx_ready_sem # 1 /\ tx_ready_sem' # 1
    BY <1>2, <1>6 DEF FrameInv, NoFrame
  <2>2. /\ ~NoFrame' /\ "TXIF" \notin dev'.eir /\ ~ErrorDue'
        /\ "TXERIF" \in dev'.eir => "TXERIF" \in dev.eir
    BY <1>4, <1>5, <1>6, <2>1 DEF NoFrame, FrameInv, ErrorDue
  <2>3. /\ task'.pc \in Serving => "TXIF" \notin task'.status
        /\ task'.pc \in Serving \ {"txif"} => "TXERIF" \notin task'.status
    BY <1>1, <1>6, <2>1 DEF FrameInv
  <2>4. dev'.link_status = dev.link_status
    BY <1>4 DEF Steady
  <2> QED
    BY <1>2, <1>5, <1>6, <2>1, <2>2, <2>3, <2>4 DEF FrameInv
<1> QED
  BY <1>2, <1>4, <1>5, <1>6, RunningStep DEF TrafficInv, ThreadsInv

LEMMA SenderSteps ==
  ASSUME TrafficInv, ~dev.lost, main' \notin Idle, link' = link, emac_enc28j60_transmit
  PROVE  TrafficInv'
  BY TakeStep, FillStep, SendStep DEF emac_enc28j60_transmit

LEMMA ChipSteps ==
  ASSUME TrafficInv, ~dev.lost, main' \notin Idle, link' = link, Chip
  PROVE  TrafficInv'
<1>0. IsDevice(dev)
  BY DEF TrafficInv
<1>1. CASE PacketArrives
  <2> DEFINE d == [dev EXCEPT !.arrived = @ + 1, !.pktcnt = @ + 1]
  <2>1. Same(dev, d) /\ IsDevice(d)
    BY <1>0 DEF Same, Steady, IsDevice, Fields
  <2>2. Becomes(d)
    BY <1>1 DEF PacketArrives
  <2> HIDE DEF d
  <2>3. Same(dev, dev')
    BY <2>1, <2>2, BecomesKeeps, SameIsTransitive
  <2>4. UNCHANGED threads
    BY <1>1 DEF PacketArrives, threads
  <2> QED
    BY <2>3, <2>4, SameStep
<1>2. CASE FrameSent \/ FrameCollides
  <2>1. PICK flags \in {{"TXIF"}, {"TXIF", "TXERIF"}}, late \in BOOLEAN, faults \in {dev.faults, dev.faults + 1} :
          Becomes([dev EXCEPT !.econ1 = @ \ {"TXRTS"}, !.eir = @ \cup flags,
                              !.lateCollision = late, !.faults = faults])
    <3>1. CASE FrameCollides
      BY <3>1 DEF FrameCollides
    <3>2. CASE FrameSent
      <4>1. [dev EXCEPT !.econ1 = @ \ {"TXRTS"}, !.eir = @ \cup {"TXIF"}, !.lateCollision = FALSE]
              = [dev EXCEPT !.econ1 = @ \ {"TXRTS"}, !.eir = @ \cup {"TXIF"},
                            !.lateCollision = FALSE, !.faults = dev.faults]
        OBVIOUS
      <4> QED
        BY <3>2, <4>1 DEF FrameSent
    <3> QED
      BY <1>2, <3>1, <3>2
  <2> DEFINE d == [dev EXCEPT !.econ1 = @ \ {"TXRTS"}, !.eir = @ \cup flags,
                              !.lateCollision = late, !.faults = faults]
  <2>2. /\ Steady(dev, d) /\ d.econ1 = dev.econ1 \ {"TXRTS"}
        /\ d.eie = dev.eie /\ d.eir = dev.eir \cup flags
    BY <1>0 DEF Steady, IsDevice, Fields
  <2> HIDE DEF d
  <2>3. /\ Steady(dev, dev') /\ dev'.econ1 = dev.econ1 \ {"TXRTS"}
        /\ dev'.eie = dev.eie /\ dev'.eir = dev.eir \cup flags
    <3>1. Becomes(d)
      BY <2>1 DEF d
    <3> QED
      BY <2>2, <3>1, BecomesSteady
  <2>4. "TXRTS" \in dev.econ1 /\ UNCHANGED <<tx_ready_sem, task, sender>>
    BY <1>2 DEF FrameSent, FrameCollides
  <2>5. TaskInv'
    BY <2>4 DEF TrafficInv, ThreadsInv, TaskInv
  <2>6. ASSUME FrameInv PROVE FrameInv'
    <3>1. ~NoFrame /\ ~NoFrame' /\ ~ErrorDue /\ tx_ready_sem # 1
      BY <2>4, <2>6 DEF FrameInv, NoFrame
    <3>2. "TXRTS" \notin dev'.econ1 /\ dev'.link_status = dev.link_status
      BY <2>3 DEF Steady
    <3>3. link.pc # "enable" /\ dev.link_status # "DOWN"
      BY <2>6, <3>1 DEF FrameInv, TrafficInv, ThreadsInv
    <3>4. task'.pc \in Serving => "TXIF" \notin task'.status
      BY <2>4, <2>6 DEF FrameInv
    <3> QED
      BY <2>4, <3>1, <3>2, <3>3, <3>4 DEF FrameInv
  <2> QED
    BY <2>3, <2>4, <2>5, <2>6, RunningStep DEF TrafficInv, ThreadsInv
<1> QED
  BY <1>1, <1>2 DEF Chip

-------------------------------------------------------------------------------
(* The check of the link, and the stop.                                     *)

(* What is left to show of a step of the link.                              *)
LEMMA LinkStep ==
  ASSUME TrafficInv, main' \notin Idle, UNCHANGED <<tx_ready_sem, task, sender>>,
         IsDevice(dev'), dev.slips \subseteq dev'.slips, dev'.link_status \in {"UP", "DOWN"},
         {"pc", "seen"} \subseteq DOMAIN link',
         link'.pc \in {"idle", "duplex", "enable", "pointer", "stop"}, link'.seen \in {"UP", "DOWN"},
         link'.pc \in {"duplex", "enable", "pointer"} => dev'.link_status = "DOWN",
         link'.pc = "stop" => link'.seen = "DOWN",
         "TXRTS" \in dev.econ1 <=> "TXRTS" \in dev'.econ1, "TXIF" \in dev'.eir => "TXIF" \in dev.eir,
         ErrorDue' => ErrorDue \/ (link.pc = "enable" /\ "TXERIF" \in dev.eir),
         dev'.link_status = "DOWN" => dev.link_status = "DOWN" \/ tx_ready_sem = 1 \/ Astray',
         link'.pc = "enable" => "TXERIF" \notin dev'.eir,
         LinkInv'
  PROVE  TrafficInv'
<1>1. QuietInv'
  BY DEF QuietInv
<1>2. ThreadsInv'
  BY DEF TrafficInv, ThreadsInv, TaskInv
<1>3. TransmitInv'
  <2>1. CASE Astray
    BY <2>1 DEF Astray, TransmitInv
  <2>2. ASSUME FrameInv, ~Astray' PROVE FrameInv'
    <3>1. ErrorDue' => ErrorDue
      BY <2>2 DEF FrameInv
    <3> QED
      BY <2>2, <3>1 DEF FrameInv, NoFrame
  <2> QED
    BY <2>1, <2>2 DEF TrafficInv, TransmitInv
<1> QED
  BY <1>1, <1>2, <1>3 DEF TrafficInv

LEMMA ReadLinkStep ==
  ASSUME TrafficInv, ~dev.lost, main' \notin Idle, UNCHANGED <<tx_ready_sem, task, sender>>, ReadLink
  PROVE  TrafficInv'
<1>1. PICK read \in emac_enc28j60_read_phy_reg(dev), cable \in BOOLEAN,
             seen \in {"UP", "DOWN"}, changed \in BOOLEAN :
        /\ seen = IF cable THEN "UP" ELSE "DOWN"
        /\ changed = (read.ok /\ seen # [read.dev EXCEPT !.cable = cable].link_status)
        /\ Becomes([read.dev EXCEPT !.cable = cable])
        /\ link' = [pc |-> IF ~changed THEN "idle"
                           ELSE IF seen = "UP" THEN "duplex" ELSE "stop",
                    seen |-> seen]
  BY DEF ReadLink, KeptLater
<1>2. Keeps(dev, read) /\ IsDevice(read.dev)
  BY PhyReadKeeps, KeepsDevice DEF TrafficInv
<1> DEFINE d == [read.dev EXCEPT !.cable = cable]
<1>3. Same(read.dev, d) /\ IsDevice(d) /\ d.link_status = read.dev.link_status
  BY <1>2 DEF Same, Steady, IsDevice, Fields
<1> HIDE DEF d
<1>4. Same(dev, dev')
  <2>1. Becomes(d)
    BY <1>1 DEF d
  <2> QED
    BY <1>2, <1>3, <2>1, BecomesKeeps, SameIsTransitive DEF Keeps
<1>5. /\ link.pc = "idle" /\ {"pc", "seen"} \subseteq DOMAIN link'
      /\ link'.pc \in {"idle", "duplex", "stop"} /\ link'.seen \in {"UP", "DOWN"}
      /\ link'.pc = "stop" => link'.seen = "DOWN"
  BY <1>1 DEF ReadLink
<1>6. link'.pc = "duplex" => dev'.link_status = "DOWN"
  <2>1. link'.pc = "duplex" => changed /\ seen = "UP"
    BY <1>1
  <2>2. changed /\ seen = "UP" => d.link_status # "UP"
    BY <1>1 DEF d
  <2>3. d.link_status = dev.link_status /\ dev'.link_status = dev.link_status
    BY <1>2, <1>3, <1>4 DEF Keeps, Same, Steady
  <2> QED
    BY <2>1, <2>2, <2>3 DEF TrafficInv, ThreadsInv
<1>7. LinkInv'
  BY <1>4, <1>5 DEF TrafficInv, LinkInv, Receives, InDuplex, Same, Steady
<1>8. ErrorDue' => ErrorDue \/ (link.pc = "enable" /\ "TXERIF" \in dev.eir)
  BY <1>4 DEF ErrorDue, Same
<1>9. /\ IsDevice(dev') /\ dev.slips \subseteq dev'.slips
      /\ dev'.link_status \in {"UP", "DOWN"} /\ dev'.link_status = dev.link_status
      /\ dev'.econ1 = dev.econ1 /\ dev'.eir = dev.eir
  BY <1>4 DEF Same, Steady, TrafficInv, ThreadsInv
<1>10. link'.pc \in {"duplex", "enable", "pointer"} => dev'.link_status = "DOWN"
  BY <1>5, <1>6
<1>11. /\ "TXRTS" \in dev.econ1 <=> "TXRTS" \in dev'.econ1
       /\ "TXIF" \in dev'.eir => "TXIF" \in dev.eir
       /\ dev'.link_status = "DOWN" => dev.link_status = "DOWN"
       /\ link'.pc \in {"idle", "duplex", "enable", "pointer", "stop"}
       /\ link'.pc = "enable" => "TXERIF" \notin dev'.eir
  BY <1>5, <1>9
<1> QED
  BY <1>5, <1>7, <1>8, <1>9, <1>10, <1>11, LinkStep

(* The duplex mode of the MAC is what was written, and the flags are down;  *)
(* or a garbage access has lost the register.                               *)
LEMMA DuplexWritten ==
  ASSUME NEW d, IsDevice(d), NEW duplex, NEW o \in enc28j60_register_write(d, "MACON3", duplex), o.ok
  PROVE  o.dev.lost = TRUE \/ o.dev.registers.MACON3 = duplex
<1>1. \/ o \in enc28j60_switch_register_bank(d, BankOf["MACON3"]) /\ ~o.ok
      \/ \E a \in enc28j60_switch_register_bank(d, BankOf["MACON3"]) :
           a.ok /\ o \in enc28j60_do_register_write(a.dev, "MACON3", duplex)
  BY DEF enc28j60_register_write, Then
<1>2. PICK a \in enc28j60_switch_register_bank(d, BankOf["MACON3"]) :
        o \in enc28j60_do_register_write(a.dev, "MACON3", duplex)
  BY <1>1
<1> DEFINE c == a.dev
           e == IF c.bank # BankOf["MACON3"] THEN [c EXCEPT !.lost = TRUE]
                ELSE IF "MACON3" \in DOMAIN c.registers
                     THEN [c EXCEPT !.registers["MACON3"] = duplex] ELSE c
<1>3. IsDevice(c)
  BY SwitchKeeps, KeepsDevice
<1>4. o \in Transaction(c, e)
  BY <1>2 DEF enc28j60_do_register_write
<1>5. e.lost = TRUE \/ e.registers.MACON3 = duplex
  BY <1>3 DEF IsDevice, Fields
<1> HIDE DEF c, e
<1>6. o.dev = e
  BY <1>3, <1>4, EitherOutcome
<1> QED
  BY <1>5, <1>6

(* A write of the mode changes nothing else the proofs are about.           *)
ButMode(d, e) ==
  /\ IsDevice(e)
  /\ d.slips \subseteq e.slips /\ (d.lost = TRUE => e.lost = TRUE)
  /\ e.link_status = d.link_status /\ e.phy = d.phy
  /\ e.econ1 = d.econ1 /\ e.eie = d.eie /\ e.eir = d.eir

LEMMA ButModeOn ==
  ASSUME NEW d, NEW e, NEW f, Same(d, e), ButMode(e, f)
  PROVE  ButMode(d, f)
  BY DEF ButMode, Same, Steady

LEMMA ModeWrite ==
  ASSUME NEW d, IsDevice(d), NEW duplex, NEW o \in enc28j60_register_write(d, "MACON3", duplex)
  PROVE  ButMode(d, o.dev)
<1>1. \/ o \in enc28j60_switch_register_bank(d, BankOf["MACON3"])
      \/ \E a \in enc28j60_switch_register_bank(d, BankOf["MACON3"]) :
           o \in enc28j60_do_register_write(a.dev, "MACON3", duplex)
  BY DEF enc28j60_register_write, Then
<1>2. CASE o \in enc28j60_switch_register_bank(d, BankOf["MACON3"])
  <2>1. Keeps(d, o)
    BY <1>2, SwitchKeeps
  <2> QED
    BY <2>1 DEF Keeps, Same, Steady, ButMode
<1>3. ASSUME NEW a \in enc28j60_switch_register_bank(d, BankOf["MACON3"]),
             o \in enc28j60_do_register_write(a.dev, "MACON3", duplex)
      PROVE  ButMode(d, o.dev)
  <2> DEFINE c == a.dev
             e == IF c.bank # BankOf["MACON3"] THEN [c EXCEPT !.lost = TRUE]
                  ELSE IF "MACON3" \in DOMAIN c.registers
                       THEN [c EXCEPT !.registers["MACON3"] = duplex] ELSE c
  <2>1. Keeps(d, a) /\ IsDevice(c)
    BY SwitchKeeps, KeepsDevice
  <2>2. o \in Transaction(c, e)
    BY <1>3 DEF enc28j60_do_register_write
  <2>3. ButMode(c, e)
    BY <2>1 DEF ButMode, IsDevice, Fields
  <2> HIDE DEF e
  <2>4. o.dev = e \/ Same(c, o.dev)
    BY <2>1, <2>2, EitherOutcome
  <2>5. ButMode(c, o.dev)
    BY <2>3, <2>4 DEF ButMode, Same, Steady
  <2> QED
    BY <2>1, <2>5, ButModeOn DEF Keeps
<1> QED
  BY <1>1, <1>2, <1>3

LEMMA DuplexOutcome ==
  ASSUME NEW d, IsDevice(d), NEW duplex, NEW o \in emac_enc28j60_set_duplex(d, duplex)
  PROVE  /\ ButMode(d, o.dev)
         /\ o.ok => o.dev.lost = TRUE \/ o.dev.registers.MACON3 = duplex
<1> DEFINE gap == IF duplex = "half" THEN 18 ELSE 21
           R3(x) == enc28j60_register_write(x, "MACON3", duplex)
           R2(x) == Then(enc28j60_register_write(x, "MABBIPG", gap), R3)
<1>1. o \in Then(enc28j60_register_read(d, "MACON3"), R2)
  BY DEF emac_enc28j60_set_duplex
<1> HIDE DEF R2, R3, gap
<1>2. \/ o \in enc28j60_register_read(d, "MACON3") /\ ~o.ok
      \/ \E a \in enc28j60_register_read(d, "MACON3") : o \in R2(a.dev)
  BY <1>1 DEF Then
<1>3. \A x : o \in R2(x) =>
        \/ o \in enc28j60_register_write(x, "MABBIPG", gap) /\ ~o.ok
        \/ \E b \in enc28j60_register_write(x, "MABBIPG", gap) : o \in R3(b.dev)
  BY DEF Then, R2
<1>4. \A x, p : Keeps(x, p) => ButMode(x, p.dev) /\ IsDevice(p.dev)
  BY DEF Keeps, Same, Steady, ButMode
<1>5. CASE o \in enc28j60_register_read(d, "MACON3") /\ ~o.ok
  BY <1>4, <1>5, ReadKeeps
<1>6. ASSUME NEW a \in enc28j60_register_read(d, "MACON3"), o \in R2(a.dev)
      PROVE  /\ ButMode(d, o.dev)
             /\ o.ok => o.dev.lost = TRUE \/ o.dev.registers.MACON3 = duplex
  <2>1. Keeps(d, a) /\ IsDevice(a.dev)
    BY ReadKeeps, KeepsDevice
  <2>2. CASE o \in enc28j60_register_write(a.dev, "MABBIPG", gap) /\ ~o.ok
    <3>1. Keeps(a.dev, o)
      BY <2>1, <2>2, WriteKeeps
    <3> QED
      BY <1>4, <2>1, <2>2, <3>1, KeepsChain
  <2>3. ASSUME NEW b \in enc28j60_register_write(a.dev, "MABBIPG", gap), o \in R3(b.dev)
        PROVE  /\ ButMode(d, o.dev)
               /\ o.ok => o.dev.lost = TRUE \/ o.dev.registers.MACON3 = duplex
    <3>1. Keeps(a.dev, b)
      BY <2>1, WriteKeeps
    <3>2. Keeps(d, b) /\ IsDevice(b.dev)
      BY <2>1, <3>1, KeepsChain, KeepsDevice
    <3>3. o \in enc28j60_register_write(b.dev, "MACON3", duplex)
      BY <2>3 DEF R3
    <3>4. ButMode(b.dev, o.dev)
      BY <3>2, <3>3, ModeWrite
    <3>5. o.ok => o.dev.lost = TRUE \/ o.dev.registers.MACON3 = duplex
      BY <3>2, <3>3, DuplexWritten
    <3> QED
      BY <3>2, <3>4, <3>5, ButModeOn DEF Keeps
  <2> QED
    BY <1>3, <1>6, <2>2, <2>3
<1> QED
  BY <1>2, <1>5, <1>6

(* Control and masks stay, and after a success the mode is the PHY's and    *)
(* the flags are down.                                                      *)
LEMMA StartOutcome ==
  ASSUME NEW d, IsDevice(d), NEW o \in DuplexAndFlags(d)
  PROVE  /\ IsDevice(o.dev) /\ d.slips \subseteq o.dev.slips /\ o.dev.link_status = d.link_status
         /\ o.dev.econ1 = d.econ1 /\ o.dev.eie = d.eie /\ o.dev.eir \subseteq d.eir
         /\ o.ok => /\ "TXERIF" \notin o.dev.eir
                    /\ o.dev.lost = TRUE \/ o.dev.registers.MACON3 = o.dev.phy.duplex
<1> DEFINE duplex == d.phy.duplex
<1>1. \/ o \in emac_enc28j60_set_duplex(d, duplex) /\ ~o.ok
      \/ \E a \in emac_enc28j60_set_duplex(d, duplex) :
           a.ok /\ o \in enc28j60_do_bitwise_clr(a.dev, "eir", {"TXIF", "TXERIF"})
  BY DEF DuplexAndFlags, Then
<1> HIDE DEF duplex
<1>2. CASE o \in emac_enc28j60_set_duplex(d, duplex) /\ ~o.ok
  <2>1. ButMode(d, o.dev)
    BY <1>2, DuplexOutcome
  <2> QED
    BY <1>2, <2>1 DEF ButMode
<1>3. ASSUME NEW a \in emac_enc28j60_set_duplex(d, duplex), a.ok,
             o \in enc28j60_do_bitwise_clr(a.dev, "eir", {"TXIF", "TXERIF"})
      PROVE  /\ IsDevice(o.dev) /\ d.slips \subseteq o.dev.slips /\ o.dev.link_status = d.link_status
             /\ o.dev.econ1 = d.econ1 /\ o.dev.eie = d.eie /\ o.dev.eir \subseteq d.eir
             /\ o.ok => /\ "TXERIF" \notin o.dev.eir
                        /\ o.dev.lost = TRUE \/ o.dev.registers.MACON3 = o.dev.phy.duplex
  <2>1. /\ ButMode(d, a.dev)
        /\ a.dev.lost = TRUE \/ a.dev.registers.MACON3 = duplex
    BY <1>3, DuplexOutcome
  <2> IsDevice(a.dev)
    BY <2>1 DEF ButMode
  <2>2. \/ /\ o.ok = TRUE /\ Steady(a.dev, o.dev) /\ o.dev.eir = a.dev.eir \ {"TXIF", "TXERIF"}
           /\ o.dev.econ1 = a.dev.econ1 /\ o.dev.eie = a.dev.eie
        \/ o.ok = FALSE /\ Same(a.dev, o.dev)
    BY <1>3, <2>1, FlagsCleared
  <2>3. Steady(a.dev, o.dev)
    BY <2>2 DEF Same
  <2>4. o.dev.lost = TRUE \/ o.dev.registers.MACON3 = o.dev.phy.duplex
    BY <2>1, <2>3 DEF Steady, ButMode, duplex
  <2>5. /\ IsDevice(o.dev) /\ d.slips \subseteq o.dev.slips /\ o.dev.link_status = d.link_status
    BY <2>1, <2>3 DEF Steady, ButMode
  <2>6. /\ o.dev.econ1 = d.econ1 /\ o.dev.eie = d.eie /\ o.dev.eir \subseteq d.eir
        /\ o.ok => "TXERIF" \notin o.dev.eir
    BY <2>1, <2>2 DEF Same, ButMode
  <2> QED
    BY <2>4, <2>5, <2>6
<1> QED
  BY <1>1, <1>2, <1>3

(* What a device becomes when the interrupt pin may have risen.             *)
LEMMA BecomesAll ==
  ASSUME NEW e, IsDevice(e), Becomes(e)
  PROVE  /\ IsDevice(dev') /\ dev'.econ1 = e.econ1 /\ dev'.eie = e.eie /\ dev'.eir = e.eir
         /\ dev'.slips = e.slips /\ dev'.lost = e.lost /\ dev'.link_status = e.link_status
         /\ dev'.phy = e.phy /\ dev'.registers.MACON3 = e.registers.MACON3
  BY DEF Becomes, IsDevice, Fields

LEMMA ClearFlagsStep ==
  ASSUME TrafficInv, ~dev.lost, main' \notin Idle, UNCHANGED <<tx_ready_sem, task, sender>>, ClearFlags
  PROVE  TrafficInv'
<1>1. PICK o \in DuplexAndFlags(dev) :
        /\ Becomes(o.dev) /\ link.pc = "duplex"
        /\ link' = IF o.ok THEN [link EXCEPT !.pc = "enable"] ELSE IdleLink
  BY DEF ClearFlags, LinkTurn
<1>2. /\ IsDevice(o.dev) /\ dev.slips \subseteq o.dev.slips /\ o.dev.link_status = dev.link_status
      /\ o.dev.econ1 = dev.econ1 /\ o.dev.eie = dev.eie /\ o.dev.eir \subseteq dev.eir
      /\ o.ok => /\ "TXERIF" \notin o.dev.eir
                 /\ o.dev.lost = TRUE \/ o.dev.registers.MACON3 = o.dev.phy.duplex
  BY StartOutcome DEF TrafficInv
<1>3. /\ IsDevice(dev') /\ dev.slips \subseteq dev'.slips /\ dev'.link_status = dev.link_status
      /\ dev'.econ1 = dev.econ1 /\ dev'.eie = dev.eie /\ dev'.eir \subseteq dev.eir
      /\ o.ok => /\ "TXERIF" \notin dev'.eir
                 /\ dev'.lost = TRUE \/ dev'.registers.MACON3 = dev'.phy.duplex
  BY <1>1, <1>2, BecomesAll
<1>4. /\ {"pc", "seen"} \subseteq DOMAIN link' /\ link'.pc \in {"idle", "enable"} /\ link'.seen \in {"UP", "DOWN"}
      /\ link'.pc = "enable" => o.ok
      /\ dev.link_status = "DOWN"
  BY <1>1 DEF TrafficInv, ThreadsInv, IdleLink
<1>5. LinkInv'
  BY <1>3, <1>4 DEF LinkInv, InDuplex
<1>6. ErrorDue' => ErrorDue \/ (link.pc = "enable" /\ "TXERIF" \in dev.eir)
  BY <1>3 DEF ErrorDue
<1>7. /\ "TXRTS" \in dev.econ1 <=> "TXRTS" \in dev'.econ1
      /\ "TXIF" \in dev'.eir => "TXIF" \in dev.eir
      /\ dev'.link_status = "DOWN"
      /\ link'.pc \in {"idle", "duplex", "enable", "pointer", "stop"}
      /\ link'.pc = "enable" => "TXERIF" \notin dev'.eir
      /\ link'.pc # "stop"
  BY <1>3, <1>4
<1> QED
  BY <1>3, <1>4, <1>5, <1>6, <1>7, LinkStep

LEMMA EnableStep ==
  ASSUME TrafficInv, ~dev.lost, main' \notin Idle, UNCHANGED <<tx_ready_sem, task, sender>>, EnableReceiver
  PROVE  TrafficInv'
<1>1. PICK o \in Enable(dev) :
        /\ Becomes(o.dev) /\ link.pc = "enable"
        /\ link' = IF o.ok THEN [link EXCEPT !.pc = "pointer"] ELSE IdleLink
  BY DEF EnableReceiver, LinkTurn
<1> DEFINE masks == {"PKTIE", "INTIE", "TXERIE"}
<1>2. \/ o \in enc28j60_do_bitwise_set(dev, "eie", masks) /\ ~o.ok
      \/ \E a \in enc28j60_do_bitwise_set(dev, "eie", masks) :
           a.ok /\ o \in enc28j60_do_bitwise_set(a.dev, "econ1", {"RXEN"})
  BY DEF Enable, Then
<1> HIDE DEF masks
<1>3. /\ Steady(dev, o.dev) /\ o.dev.eir = dev.eir
      /\ "TXRTS" \in dev.econ1 <=> "TXRTS" \in o.dev.econ1
      /\ o.ok => "RXEN" \in o.dev.econ1 /\ o.dev.eie = dev.eie \cup masks
  <2>1. CASE o \in enc28j60_do_bitwise_set(dev, "eie", masks) /\ ~o.ok
    BY <2>1, MaskSet DEF Same, TrafficInv
  <2>2. ASSUME NEW a \in enc28j60_do_bitwise_set(dev, "eie", masks), a.ok,
               o \in enc28j60_do_bitwise_set(a.dev, "econ1", {"RXEN"})
        PROVE  /\ Steady(dev, o.dev) /\ o.dev.eir = dev.eir
               /\ "TXRTS" \in dev.econ1 <=> "TXRTS" \in o.dev.econ1
               /\ o.ok => "RXEN" \in o.dev.econ1 /\ o.dev.eie = dev.eie \cup masks
    <3>1. /\ Steady(dev, a.dev) /\ a.dev.eie = dev.eie \cup masks
          /\ a.dev.econ1 = dev.econ1 /\ a.dev.eir = dev.eir /\ IsDevice(a.dev)
      BY <2>2, MaskSet DEF Steady, TrafficInv
    <3>2. \/ /\ o.ok = TRUE /\ Steady(a.dev, o.dev) /\ o.dev.econ1 = a.dev.econ1 \cup {"RXEN"}
             /\ o.dev.eie = a.dev.eie /\ o.dev.eir = a.dev.eir
          \/ o.ok = FALSE /\ Same(a.dev, o.dev)
      BY <2>2, <3>1, ControlSet
    <3>3. Steady(dev, o.dev)
      BY <3>1, <3>2 DEF Same, Steady
    <3> QED
      BY <3>1, <3>2, <3>3 DEF Same
  <2> QED
    BY <1>2, <2>1, <2>2
<1>4. /\ Steady(dev, dev') /\ dev'.eir = dev.eir
      /\ "TXRTS" \in dev.econ1 <=> "TXRTS" \in dev'.econ1
      /\ o.ok => "RXEN" \in dev'.econ1 /\ {"PKTIE", "TXERIE"} \subseteq dev'.eie
  BY <1>1, <1>3, BecomesSteady DEF masks
<1>5. /\ {"pc", "seen"} \subseteq DOMAIN link' /\ link'.pc \in {"idle", "pointer"} /\ link'.seen \in {"UP", "DOWN"}
      /\ link'.pc = "pointer" => o.ok
      /\ dev.link_status = "DOWN"
  BY <1>1 DEF TrafficInv, ThreadsInv, IdleLink
<1>6. /\ IsDevice(dev') /\ dev.slips \subseteq dev'.slips /\ dev'.link_status = "DOWN"
      /\ dev'.registers.MACON3 = dev.registers.MACON3 /\ dev'.phy = dev.phy
  BY <1>4, <1>5 DEF Steady
<1>7. LinkInv'
  BY <1>1, <1>4, <1>5, <1>6 DEF TrafficInv, LinkInv, InDuplex, Receives
<1>8. ErrorDue' => link.pc = "enable" /\ "TXERIF" \in dev.eir
  BY <1>1, <1>4 DEF ErrorDue
<1> QED
  BY <1>4, <1>5, <1>6, <1>7, <1>8, LinkStep

(* What is noted of an outcome is only the state of the link.               *)
Note(p, seen) == IF p.ok THEN [p EXCEPT !.dev.link_status = seen] ELSE p

LEMMA NotedOutcome ==
  ASSUME NEW p, IsOutcome(p), IsDevice(p.dev), NEW seen, NEW o, o = Note(p, seen)
  PROVE  /\ IsDevice(o.dev) /\ o.ok = p.ok
         /\ o.dev.econ1 = p.dev.econ1 /\ o.dev.eie = p.dev.eie /\ o.dev.eir = p.dev.eir
         /\ o.dev.slips = p.dev.slips /\ o.dev.lost = p.dev.lost
         /\ o.dev.phy = p.dev.phy /\ o.dev.registers.MACON3 = p.dev.registers.MACON3
         /\ o.dev.link_status = IF p.ok THEN seen ELSE p.dev.link_status
  BY DEF Note, IsOutcome, IsDevice, Fields

LEMMA ResetReadPointerStep ==
  ASSUME TrafficInv, ~dev.lost, main' \notin Idle, UNCHANGED <<tx_ready_sem, task, sender>>, ResetReadPointer
  PROVE  TrafficInv'
<1>1. PICK p \in WritePair(UnderRead(dev), "ERDPT", 0) : \E o :
        /\ o = Note(p, link.seen)
        /\ Becomes(o.dev) /\ link.pc = "pointer"
        /\ link' = IF o.ok THEN [link EXCEPT !.pc = "idle"] ELSE IdleLink
  BY DEF ResetReadPointer, LastTurn, LinkTurn, Noted, Note
<1>2. PICK o :
        /\ o = Note(p, link.seen)
        /\ Becomes(o.dev) /\ link.pc = "pointer"
        /\ link' = IF o.ok THEN [link EXCEPT !.pc = "idle"] ELSE IdleLink
  BY <1>1
<1>3. Same(dev, UnderRead(dev)) /\ IsDevice(UnderRead(dev))
  <2>1. IsDevice(dev)
    BY DEF TrafficInv
  <2>2. Same(dev, dev) /\ Same(dev, Slip(dev, "ERDPT"))
    BY <2>1, SameIsReflexive, SlipKeeps
  <2>3. Same(dev, UnderRead(dev))
    BY <2>2 DEF UnderRead
  <2> QED
    BY <2>3 DEF Same, Steady
<1>4. Keeps(UnderRead(dev), p)
  BY <1>3, PairKeeps
<1>5. IsOutcome(p) /\ Same(dev, p.dev) /\ IsDevice(p.dev)
  BY <1>3, <1>4, SameIsTransitive, KeepsDevice DEF Keeps
<1>6. /\ IsDevice(o.dev)
      /\ o.dev.econ1 = dev.econ1 /\ o.dev.eie = dev.eie /\ o.dev.eir = dev.eir
      /\ dev.slips \subseteq o.dev.slips /\ o.dev.phy = dev.phy
      /\ o.dev.registers.MACON3 = dev.registers.MACON3
      /\ o.dev.link_status \in {link.seen, dev.link_status}
  <2>1. /\ IsDevice(o.dev) /\ o.ok = p.ok
        /\ o.dev.econ1 = p.dev.econ1 /\ o.dev.eie = p.dev.eie /\ o.dev.eir = p.dev.eir
        /\ o.dev.slips = p.dev.slips /\ o.dev.lost = p.dev.lost
        /\ o.dev.phy = p.dev.phy /\ o.dev.registers.MACON3 = p.dev.registers.MACON3
        /\ o.dev.link_status = IF p.ok THEN link.seen ELSE p.dev.link_status
    BY <1>2, <1>5, NotedOutcome
  <2> QED
    BY <1>5, <2>1 DEF Same, Steady
<1>7. /\ IsDevice(dev')
      /\ dev'.econ1 = dev.econ1 /\ dev'.eie = dev.eie /\ dev'.eir = dev.eir
      /\ dev.slips \subseteq dev'.slips /\ dev'.phy = dev.phy
      /\ dev'.registers.MACON3 = dev.registers.MACON3
      /\ dev'.link_status \in {link.seen, dev.link_status}
  BY <1>2, <1>6, BecomesAll
<1>8. /\ {"pc", "seen"} \subseteq DOMAIN link' /\ link'.pc = "idle" /\ link'.seen \in {"UP", "DOWN"}
      /\ dev.link_status = "DOWN" /\ dev'.link_status \in {"UP", "DOWN"}
  BY <1>2, <1>7 DEF TrafficInv, ThreadsInv, IdleLink
<1>9. LinkInv'
  BY <1>2, <1>7, <1>8 DEF TrafficInv, LinkInv, InDuplex, Receives
<1>10. ErrorDue' => ErrorDue \/ (link.pc = "enable" /\ "TXERIF" \in dev.eir)
  BY <1>7 DEF ErrorDue
<1>11. /\ "TXRTS" \in dev.econ1 <=> "TXRTS" \in dev'.econ1
       /\ "TXIF" \in dev'.eir => "TXIF" \in dev.eir
       /\ dev'.link_status = "DOWN" => dev.link_status = "DOWN"
       /\ link'.pc \in {"idle", "duplex", "enable", "pointer", "stop"}
       /\ link'.pc = "enable" => "TXERIF" \notin dev'.eir
  BY <1>7, <1>8
<1> QED
  BY <1>7, <1>8, <1>9, <1>10, <1>11, LinkStep

(* Half a stop is remembered, and no flag falls.                            *)
StopOutcome(d, o) ==
  /\ IsOutcome(o) /\ IsDevice(o.dev)
  /\ d.slips \subseteq o.dev.slips /\ o.dev.link_status = d.link_status
  /\ o.dev.eir = d.eir /\ o.dev.eie \subseteq d.eie
  /\ "TXRTS" \in d.econ1 <=> "TXRTS" \in o.dev.econ1
  /\ o.ok \/ "stop" \in o.dev.slips \/ Same(d, o.dev)

LEMMA SameIsStopped ==
  ASSUME NEW d, NEW o, Keeps(d, o)
  PROVE  StopOutcome(d, o)
  BY DEF Keeps, Same, Steady, StopOutcome

LEMMA StopMacOutcome ==
  ASSUME NEW d, IsDevice(d), NEW o \in StopMac(d)
  PROVE  StopOutcome(d, o)
<1> DEFINE masks == {"PKTIE", "INTIE", "TXIE", "TXERIE"}
           Off(x) == {IF p.ok THEN p ELSE [p EXCEPT !.dev = Slip(@, "stop")]
                        : p \in enc28j60_do_bitwise_clr(x, "econ1", {"RXEN"})}
<1>1. o \in Then(enc28j60_do_bitwise_clr(d, "eie", masks), Off)
  BY DEF StopMac
<1> HIDE DEF masks, Off
<1>2. \/ o \in enc28j60_do_bitwise_clr(d, "eie", masks) /\ ~o.ok
      \/ \E a \in enc28j60_do_bitwise_clr(d, "eie", masks) : a.ok /\ o \in Off(a.dev)
  BY <1>1 DEF Then
<1>3. \A x, bits, p : p \in enc28j60_do_bitwise_clr(x, "eie", bits) \cup enc28j60_do_bitwise_clr(x, "econ1", bits)
        => IsOutcome(p)
  BY TransactionOutcome DEF enc28j60_do_bitwise_clr, IsOutcome
<1>4. CASE o \in enc28j60_do_bitwise_clr(d, "eie", masks) /\ ~o.ok
  <2>1. Same(d, o.dev)
    BY <1>4, MaskCleared
  <2> QED
    BY <1>3, <1>4, <2>1, SameIsStopped DEF Keeps
<1>5. ASSUME NEW a \in enc28j60_do_bitwise_clr(d, "eie", masks), a.ok, o \in Off(a.dev)
      PROVE  StopOutcome(d, o)
  <2>1. /\ Steady(d, a.dev) /\ a.dev.eie = d.eie \ masks
        /\ a.dev.econ1 = d.econ1 /\ a.dev.eir = d.eir /\ IsDevice(a.dev)
    BY <1>5, MaskCleared DEF Steady
  <2>2. PICK p \in enc28j60_do_bitwise_clr(a.dev, "econ1", {"RXEN"}) :
          o = IF p.ok THEN p ELSE [p EXCEPT !.dev = Slip(@, "stop")]
    BY <1>5 DEF Off
  <2>3. \/ /\ p.ok = TRUE /\ Steady(a.dev, p.dev) /\ p.dev.econ1 = a.dev.econ1 \ {"RXEN"}
           /\ p.dev.eie = a.dev.eie /\ p.dev.eir = a.dev.eir
        \/ p.ok = FALSE /\ Same(a.dev, p.dev)
    BY <2>1, ControlCleared
  <2>4. IsOutcome(p) /\ IsDevice(p.dev)
    BY <1>3, <2>3 DEF Same, Steady
  <2>5. CASE p.ok = TRUE
    BY <2>1, <2>2, <2>3, <2>4, <2>5 DEF Steady, StopOutcome
  <2>6. CASE p.ok = FALSE
    <3>1. o.dev = Slip(p.dev, "stop") /\ IsOutcome(o)
      BY <2>2, <2>4, <2>6 DEF IsOutcome
    <3>2. Same(p.dev, o.dev) /\ "stop" \in o.dev.slips
      <4>1. Same(p.dev, o.dev)
        BY <2>4, <3>1, SlipKeeps
      <4>2. "stop" \in o.dev.slips
        BY <2>4, <3>1 DEF Slip, IsDevice, Fields
      <4> QED
        BY <4>1, <4>2
    <3>3. Same(a.dev, o.dev)
      BY <2>3, <2>6, <3>2, SameIsTransitive
    <3> QED
      BY <2>1, <3>1, <3>2, <3>3 DEF Same, Steady, StopOutcome
  <2> QED
    BY <2>3, <2>5, <2>6
<1> QED
  BY <1>2, <1>4, <1>5

(* A stop that meets a frame is remembered.                                 *)
LEMMA WithFrameKeeps ==
  ASSUME TrafficInv
  PROVE  /\ Same(dev, WithFrame(dev)) /\ IsDevice(WithFrame(dev))
         /\ tx_ready_sem = 1 \/ "frame" \in WithFrame(dev).slips
<1>1. IsDevice(dev) /\ tx_ready_sem \in {0, 1}
  BY DEF TrafficInv, ThreadsInv
<1>2. CASE tx_ready_sem = 0
  <2>1. WithFrame(dev) = Slip(dev, "frame")
    BY <1>2 DEF WithFrame
  <2>2. Same(dev, WithFrame(dev))
    BY <1>1, <2>1, SlipKeeps
  <2>3. "frame" \in WithFrame(dev).slips
    BY <1>1, <2>1 DEF Slip, IsDevice, Fields
  <2> QED
    BY <2>2, <2>3 DEF Same, Steady
<1>3. CASE tx_ready_sem = 1
  <2>1. WithFrame(dev) = dev
    BY <1>3 DEF WithFrame
  <2> QED
    BY <1>1, <1>3, <2>1, SameIsReflexive
<1> QED
  BY <1>1, <1>2, <1>3

LEMMA LinkLostStep ==
  ASSUME TrafficInv, ~dev.lost, main' \notin Idle, UNCHANGED <<tx_ready_sem, task, sender>>, LinkLost
  PROVE  TrafficInv'
<1>1. PICK p \in StopMac(WithFrame(dev)) : \E o :
        /\ o = Note(p, link.seen)
        /\ Becomes(o.dev) /\ link.pc = "stop"
        /\ link' = IF o.ok THEN [link EXCEPT !.pc = "idle"] ELSE IdleLink
  BY DEF LinkLost, LastTurn, LinkTurn, Noted, Note
<1>2. PICK o :
        /\ o = Note(p, link.seen)
        /\ Becomes(o.dev) /\ link.pc = "stop"
        /\ link' = IF o.ok THEN [link EXCEPT !.pc = "idle"] ELSE IdleLink
  BY <1>1
<1>3. /\ Same(dev, WithFrame(dev)) /\ IsDevice(WithFrame(dev))
      /\ tx_ready_sem = 1 \/ "frame" \in WithFrame(dev).slips
  BY WithFrameKeeps
<1>4. StopOutcome(WithFrame(dev), p)
  BY <1>3, StopMacOutcome
<1>5. /\ IsDevice(o.dev) /\ o.ok = p.ok
      /\ o.dev.econ1 = p.dev.econ1 /\ o.dev.eie = p.dev.eie /\ o.dev.eir = p.dev.eir
      /\ o.dev.slips = p.dev.slips /\ o.dev.lost = p.dev.lost
      /\ o.dev.phy = p.dev.phy /\ o.dev.registers.MACON3 = p.dev.registers.MACON3
      /\ o.dev.link_status = IF p.ok THEN link.seen ELSE p.dev.link_status
  BY <1>2, <1>4, NotedOutcome DEF StopOutcome
<1>6. /\ IsDevice(dev')
      /\ dev'.econ1 = p.dev.econ1 /\ dev'.eie = p.dev.eie /\ dev'.eir = p.dev.eir
      /\ dev'.slips = p.dev.slips /\ dev'.lost = p.dev.lost
      /\ dev'.phy = p.dev.phy /\ dev'.registers.MACON3 = p.dev.registers.MACON3
      /\ dev'.link_status = IF p.ok THEN link.seen ELSE p.dev.link_status
  BY <1>2, <1>5, BecomesAll
<1>7. /\ dev.slips \subseteq dev'.slips
      /\ tx_ready_sem = 1 \/ "frame" \in dev'.slips
      /\ dev'.eir = dev.eir /\ dev'.eie \subseteq dev.eie
      /\ "TXRTS" \in dev.econ1 <=> "TXRTS" \in dev'.econ1
      /\ p.ok \/ "stop" \in dev'.slips \/ Same(WithFrame(dev), p.dev)
      /\ dev'.link_status = IF p.ok THEN link.seen ELSE dev.link_status
  BY <1>3, <1>4, <1>6 DEF StopOutcome, Same, Steady
<1>8. /\ link.seen = "DOWN" /\ dev.link_status \in {"UP", "DOWN"}
      /\ {"pc", "seen"} \subseteq DOMAIN link' /\ link'.pc = "idle" /\ link'.seen \in {"UP", "DOWN"}
      /\ dev'.link_status \in {"UP", "DOWN"}
  BY <1>2, <1>7 DEF TrafficInv, ThreadsInv, IdleLink
<1>9. LinkInv'
  <2>1. CASE p.ok
    BY <1>7, <1>8, <2>1 DEF LinkInv
  <2>2. CASE "stop" \in dev'.slips
    BY <1>8, <2>2 DEF LinkInv
  <2>3. CASE ~p.ok /\ Same(WithFrame(dev), p.dev)
    <3>1. Same(dev, p.dev)
      BY <1>3, <2>3, SameIsTransitive
    <3> QED
      BY <1>6, <1>7, <1>8, <2>3, <3>1 DEF TrafficInv, LinkInv, InDuplex, Receives, Same, Steady
  <2> QED
    BY <1>7, <2>1, <2>2, <2>3
<1>10. ErrorDue' => ErrorDue \/ (link.pc = "enable" /\ "TXERIF" \in dev.eir)
  BY <1>7 DEF ErrorDue
<1>11. /\ "TXIF" \in dev'.eir => "TXIF" \in dev.eir
       /\ dev'.link_status = "DOWN" => dev.link_status = "DOWN" \/ tx_ready_sem = 1 \/ Astray'
       /\ link'.pc \in {"idle", "duplex", "enable", "pointer", "stop"}
       /\ link'.pc = "enable" => "TXERIF" \notin dev'.eir
  BY <1>7, <1>8 DEF Astray
<1> QED
  BY <1>6, <1>7, <1>8, <1>9, <1>10, <1>11, LinkStep

LEMMA LinkSteps ==
  ASSUME TrafficInv, ~dev.lost, main' \notin Idle, enc28j60_get_link
  PROVE  TrafficInv'
<1>1. UNCHANGED <<tx_ready_sem, task, sender>>
  BY DEF enc28j60_get_link
<1> QED
  BY <1>1, ReadLinkStep, ClearFlagsStep, EnableStep, ResetReadPointerStep, LinkLostStep DEF enc28j60_get_link

(* esp_eth_stop, which the program calls.                                   *)
LEMMA StopStep ==
  ASSUME TrafficInv, ~dev.lost, Stop
  PROVE  TrafficInv'
<1>1. PICK o \in IF dev.link_status = "DOWN" THEN Done(dev) ELSE StopMac(WithFrame(dev)) :
        /\ dev' = [o.dev EXCEPT !.link_status = "DOWN"]
        /\ main' = IF o.ok THEN "stopped" ELSE "aborted"
  BY DEF Stop
<1>2. /\ link.pc = "idle" /\ UNCHANGED <<tx_ready_sem, task, sender, link>>
      /\ main' \notin Idle
  BY <1>1 DEF Stop, threads, Idle
<1>3. IsDevice(dev) /\ {"pc", "seen"} \subseteq DOMAIN link /\ link.seen \in {"UP", "DOWN"}
  BY DEF TrafficInv, ThreadsInv
<1>4. /\ IsDevice(o.dev) /\ dev.slips \subseteq o.dev.slips
      /\ o.dev.eir = dev.eir /\ o.dev.eie \subseteq dev.eie
      /\ "TXRTS" \in dev.econ1 <=> "TXRTS" \in o.dev.econ1
      /\ dev.link_status = "DOWN" \/ tx_ready_sem = 1 \/ "frame" \in o.dev.slips
  <2>1. CASE dev.link_status = "DOWN"
    <3>1. o.dev = dev
      BY <1>1, <2>1 DEF Done
    <3> QED
      BY <1>3, <2>1, <3>1
  <2>2. CASE dev.link_status # "DOWN"
    <3>1. /\ Same(dev, WithFrame(dev)) /\ IsDevice(WithFrame(dev))
          /\ tx_ready_sem = 1 \/ "frame" \in WithFrame(dev).slips
      BY WithFrameKeeps
    <3>2. StopOutcome(WithFrame(dev), o)
      BY <1>1, <2>2, <3>1, StopMacOutcome
    <3> QED
      BY <3>1, <3>2 DEF Same, Steady, StopOutcome
  <2> QED
    BY <2>1, <2>2
<1>5. /\ IsDevice(dev') /\ dev'.link_status = "DOWN"
      /\ dev'.slips = o.dev.slips /\ dev'.econ1 = o.dev.econ1
      /\ dev'.eie = o.dev.eie /\ dev'.eir = o.dev.eir
  BY <1>1, <1>4 DEF IsDevice, Fields
<1>6. /\ dev.slips \subseteq dev'.slips /\ dev'.link_status \in {"UP", "DOWN"}
      /\ "TXRTS" \in dev.econ1 <=> "TXRTS" \in dev'.econ1
      /\ "TXIF" \in dev'.eir => "TXIF" \in dev.eir
      /\ dev'.link_status = "DOWN" => dev.link_status = "DOWN" \/ tx_ready_sem = 1 \/ Astray'
  BY <1>4, <1>5 DEF Astray
<1>7. ErrorDue' => ErrorDue \/ (link.pc = "enable" /\ "TXERIF" \in dev.eir)
  BY <1>4, <1>5 DEF ErrorDue
<1>8. /\ {"pc", "seen"} \subseteq DOMAIN link' /\ link'.pc = "idle" /\ link'.seen \in {"UP", "DOWN"}
      /\ link'.pc \in {"idle", "duplex", "enable", "pointer", "stop"}
      /\ link'.pc = "enable" => "TXERIF" \notin dev'.eir
  BY <1>2, <1>3
<1>9. LinkInv'
  BY <1>5, <1>8 DEF LinkInv
<1> QED
  BY <1>2, <1>5, <1>6, <1>7, <1>8, <1>9, LinkStep

-------------------------------------------------------------------------------
(* The transmitter and the link, put together.                              *)

LEMMA TrafficStart == Init => TrafficInv
<1> SUFFICES ASSUME Init PROVE TrafficInv
  OBVIOUS
<1>1. /\ Untouched(dev) /\ tx_ready_sem = 1 /\ task = IdleTask /\ sender = IdleSender
      /\ link = IdleLink
  BY NewDeviceUntouched DEF Init, EthernetInitInit, MacInit
<1>2. /\ IsDevice(dev) /\ dev.econ1 = {} /\ dev.eie = {} /\ dev.eir = {} /\ dev.link_status = "DOWN"
      /\ DOMAIN task = {"pc", "status", "packet"} /\ task.pc = "wait"
      /\ DOMAIN link = {"pc", "seen"} /\ link.pc = "idle" /\ link.seen = "DOWN"
      /\ sender.pc = "idle"
  BY <1>1 DEF Untouched, IdleTask, IdleSender, IdleLink
<1>3. QuietInv
  BY <1>1 DEF QuietInv
<1>4. ThreadsInv
  BY <1>1, <1>2 DEF ThreadsInv, TaskInv, Serving
<1>5. TransmitInv
  BY <1>1, <1>2 DEF TransmitInv, FrameInv, NoFrame, ErrorDue, Serving
<1>6. LinkInv
  BY <1>2 DEF LinkInv
<1> QED
  BY <1>2, <1>3, <1>4, <1>5, <1>6 DEF TrafficInv

LEMMA TrafficSteps ==
  ASSUME TrafficInv, [Next]_vars
  PROVE  TrafficInv'
<1>1. CASE UNCHANGED vars
  BY <1>1 DEF vars, linkVars, macVars, initVars, TrafficInv, QuietInv, Idle, ThreadsInv, TaskInv, Serving,
              TransmitInv, Astray, FrameInv, NoFrame, ErrorDue, LinkInv, Receives, InDuplex,
              IsDevice, Fields, Untouched, Places
<1>2. CASE ~dev.lost /\ InitStep
  <2>1. CASE main \in Idle
    BY <1>2, <2>1, SetUpStep
  <2>2. CASE main \notin Idle
    <3>1. main # "off" /\ main # "internal" /\ main # "isr" /\ main # "bus" /\ main # "mac"
          /\ main # "revision" /\ main # "phy" /\ main # "install" /\ main # "address"
          /\ main # "installed" /\ main # "undo" /\ main # "unset" /\ main # "duplex"
      BY <2>2 DEF Idle, Places
    <3>2. DeinitInstance \/ FreeBus
      BY <1>2, <3>1 DEF InitStep, ethernet_init_all, AllocationFails, eth_init_internal, InstallIsrService,
           InitializeBus, esp_eth_mac_new_enc28j60, NewMac, CheckRevision, esp_eth_phy_new_enc28j60,
           Install, SetAddress, UndoInstance, UndoWithoutHandle, KeepInstance, SetFullDuplex
    <3> QED
      BY <1>2, <3>2, DeinitStep
  <2> QED
    BY <2>1, <2>2
<1>3. CASE ~dev.lost /\ (Start \/ ethernet_deinit_all)
  <2>1. UNCHANGED threads /\ dev' = dev
    BY <1>3 DEF Start, ethernet_deinit_all, linkVars, macVars, threads
  <2>2. main \in Idle \/ main' \notin Idle
    BY <1>3 DEF Start, ethernet_deinit_all, Idle, Places
  <2>3. Same(dev, dev')
    BY <2>1, SameIsReflexive DEF TrafficInv
  <2> QED
    BY <1>3, <2>1, <2>2, <2>3, QuietStep, SameStep
<1>4. CASE ~dev.lost /\ Stop
  BY <1>4, StopStep
<1>5. CASE ~dev.lost /\ (Task \/ Sender \/ Link \/ Wire)
  <2>1. main \in {"running", "stopped"} /\ UNCHANGED initVars
    BY <1>5 DEF Task, Sender, Link, Wire
  <2>2. main' \notin Idle
    BY <2>1 DEF initVars, Idle
  <2>3. CASE Task
    BY <1>5, <2>2, <2>3, TaskSteps DEF Task
  <2>4. CASE Sender
    BY <1>5, <2>2, <2>4, SenderSteps DEF Sender
  <2>5. CASE Link
    BY <1>5, <2>2, <2>5, LinkSteps DEF Link
  <2>6. CASE Wire
    BY <1>5, <2>2, <2>6, ChipSteps DEF Wire
  <2> QED
    BY <1>5, <2>3, <2>4, <2>5, <2>6
<1> QED
  BY <1>1, <1>2, <1>3, <1>4, <1>5 DEF Next

-------------------------------------------------------------------------------
(* The ring of the receive buffer: where the packets lie in it.             *)

(* A set of numbers that is not empty has a least element. *)
LEMMA Least ==
  ASSUME NEW T, T \subseteq Nat, T # {}
  PROVE  \E m \in T : \A n \in T : m <= n
<1> DEFINE R == OpToRel(<, Nat)
<1>1. IsWellFoundedOn(R, Nat)
  BY NatLessThanWellFounded
<1>2. \A x, y \in Nat : x < y => <<x, y>> \in R
  BY DEF OpToRel
<1> HIDE DEF R
<1>3. PICK x \in T : \A y \in T : ~ (<<y, x>> \in R)
  BY <1>1, WFMin
<1>4. \A y \in T : x \in Nat /\ y \in Nat /\ ~(y < x)
  BY <1>2, <1>3
<1>5. \A y \in T : x <= y
  BY <1>4
<1> QED
  BY <1>3, <1>5

Size(i) == ENC28J60_RSV_SIZE + PacketLen[i]
Count == Len(PacketLen)

LEMMA RingIs ==
  /\ RingSize \in Nat \ {0} /\ RingSize % 2 = 0
  /\ ENC28J60_RSV_SIZE \in Nat /\ ENC28J60_RSV_SIZE % 2 = 0
  /\ Count \in Nat
  /\ \A i \in 1 .. Count : Size(i) \in Nat /\ Size(i) % 2 = 0 /\ Size(i) > ENC28J60_RSV_SIZE
<1>1. RingSize \in Nat \ {0} /\ RingSize % 2 = 0
  BY RingAssumption DEF RingSize
<1>2. Count \in Nat /\ DOMAIN PacketLen = 1 .. Count
  BY RingAssumption DEF Count
<1>3. \A i \in 1 .. Count : PacketLen[i] \in Nat \ {0} /\ PacketLen[i] % 2 = 0
  BY <1>2, RingAssumption DEF Count
<1>4. \A a, b \in Nat : a % 2 = 0 /\ b % 2 = 0 => (a + b) % 2 = 0
  OBVIOUS
<1>5. ENC28J60_RSV_SIZE \in Nat /\ ENC28J60_RSV_SIZE % 2 = 0
  BY RingAssumption
<1>6. \A i \in 1 .. Count : Size(i) \in Nat /\ Size(i) > ENC28J60_RSV_SIZE
  BY <1>3, <1>5 DEF Size
<1>7. \A i \in 1 .. Count : Size(i) % 2 = 0
  BY <1>3, <1>4, <1>5 DEF Size
<1> QED
  BY <1>1, <1>2, <1>5, <1>6, <1>7

LEMMA RemainderEven ==
  ASSUME NEW x \in Nat, NEW r \in Nat \ {0}, x % 2 = 0, r % 2 = 0
  PROVE  x % r \in 0 .. r - 1 /\ (x % r) % 2 = 0
<1> DEFINE q == x \div r
           h == r \div 2
<1>1. x = r * q + (x % r) /\ x % r \in 0 .. r - 1 /\ q \in Nat
  OBVIOUS
<1>2. r = 2 * h /\ h \in Nat
  OBVIOUS
<1>3. r * q = 2 * (h * q) /\ h * q \in Nat
  BY <1>1, <1>2
<1> HIDE DEF q, h
<1>4. \A a, b, c \in Nat : a = 2 * b + c /\ a % 2 = 0 => c % 2 = 0
  OBVIOUS
<1>5. x % r \in Nat /\ x = 2 * (h * q) + (x % r)
  BY <1>1, <1>3
<1> QED
  BY <1>1, <1>3, <1>4, <1>5

(* Within two turns the remainder is a subtraction. *)
LEMMA Wrap ==
  ASSUME NEW x \in Nat, x < 2 * RingSize
  PROVE  x % RingSize = IF x < RingSize THEN x ELSE x - RingSize
<1> DEFINE r == RingSize
           q == x \div r
<1>1. r \in Nat \ {0}
  BY RingIs
<1> HIDE DEF r
<1>2. x = r * q + (x % r) /\ x % r \in 0 .. r - 1 /\ q \in Nat
  BY <1>1
<1>3. q = 0 \/ q = 1
  <2>1. q >= 2 => r * q >= 2 * r
    BY <1>1, <1>2
  <2> HIDE DEF q
  <2> QED
    BY <1>1, <1>2, <2>1 DEF r
<1> HIDE DEF q
<1>4. r * 0 = 0 /\ r * 1 = r
  BY <1>1
<1> QED
  BY <1>1, <1>2, <1>3, <1>4 DEF r

(* PacketStart is the function that its recursion describes, and leads to   *)
(* even addresses of the ring.                                              *)
Leads(f, n) ==
  /\ f \in [1 .. n -> 0 .. ENC28J60_BUF_RX_END]
  /\ \A i \in 1 .. n :
       /\ f[i] % 2 = 0
       /\ f[i] = IF i = 1 THEN ENC28J60_BUF_RX_START
                 ELSE (f[i - 1] + ENC28J60_RSV_SIZE + PacketLen[i - 1]) % RingSize

LEMMA NextStart ==
  ASSUME NEW x \in 0 .. ENC28J60_BUF_RX_END, x % 2 = 0, NEW i \in 1 .. Count
  PROVE  /\ x + ENC28J60_RSV_SIZE + PacketLen[i] = x + Size(i)
         /\ (x + Size(i)) % RingSize \in 0 .. ENC28J60_BUF_RX_END
         /\ ((x + Size(i)) % RingSize) % 2 = 0
<1>1. RingSize \in Nat \ {0} /\ RingSize % 2 = 0 /\ RingSize - 1 = ENC28J60_BUF_RX_END
  BY RingIs, RingAssumption DEF RingSize
<1>2. Size(i) \in Nat /\ Size(i) % 2 = 0
  BY RingIs
<1>3. x + Size(i) \in Nat /\ (x + Size(i)) % 2 = 0
  BY <1>2
<1>4. PacketLen[i] \in Nat /\ ENC28J60_RSV_SIZE \in Nat
  BY RingAssumption DEF Count
<1>5. x + ENC28J60_RSV_SIZE + PacketLen[i] = x + Size(i)
  BY <1>4 DEF Size
<1> QED
  BY <1>1, <1>3, <1>5, RemainderEven

LEMMA Starts == \A n \in 1 .. Count + 1 : \E f : Leads(f, n)
<1> DEFINE T == {n \in 1 .. Count + 1 : ~ \E f : Leads(f, n)}
<1> SUFFICES ASSUME T # {}
             PROVE  FALSE
  OBVIOUS
<1>1. Count \in Nat
  BY RingIs
<1>2. PICK m \in T : \A n \in T : m <= n
  <2>1. T \subseteq Nat /\ T # {}
    BY <1>1
  <2> HIDE DEF T
  <2> QED
    BY <2>1, Least
<1>3. m \in 1 .. Count + 1 /\ ~ \E f : Leads(f, m)
  BY <1>2
<1>4. ENC28J60_BUF_RX_END \in Nat
  BY RingAssumption
<1>5. CASE m = 1
  <2>1. Leads([i \in 1 .. 1 |-> 0], 1)
    BY <1>4 DEF Leads, ENC28J60_BUF_RX_START
  <2> QED
    BY <1>3, <1>5, <2>1
<1>6. CASE m # 1
  <2>1. m - 1 \in 1 .. Count /\ m - 1 \notin T
    BY <1>1, <1>2, <1>3, <1>6
  <2>2. PICK f : Leads(f, m - 1)
    BY <1>1, <2>1
  <2> DEFINE x == (f[m - 1] + Size(m - 1)) % RingSize
             g == [i \in 1 .. m |-> IF i = m THEN x ELSE f[i]]
  <2>3. f[m - 1] \in 0 .. ENC28J60_BUF_RX_END /\ f[m - 1] % 2 = 0
    BY <1>1, <2>1, <2>2 DEF Leads
  <2>4. x \in 0 .. ENC28J60_BUF_RX_END /\ x % 2 = 0
        /\ x = (f[m - 1] + ENC28J60_RSV_SIZE + PacketLen[m - 1]) % RingSize
    BY <2>1, <2>3, NextStart
  <2> HIDE DEF x
  <2>5. \A i \in 1 .. m : i # m => i \in 1 .. m - 1 /\ g[i] = f[i]
    BY <1>1, <1>3
  <2>6. g[m] = x /\ g[m - 1] = f[m - 1]
    BY <1>1, <1>3, <2>1
  <2>7. g \in [1 .. m -> 0 .. ENC28J60_BUF_RX_END]
    BY <2>2, <2>4, <2>5 DEF Leads
  <2> HIDE DEF g
  <2>8. ASSUME NEW i \in 1 .. m
        PROVE  /\ g[i] % 2 = 0
               /\ g[i] = IF i = 1 THEN ENC28J60_BUF_RX_START
                         ELSE (g[i - 1] + ENC28J60_RSV_SIZE + PacketLen[i - 1]) % RingSize
    <3>1. CASE i = m
      BY <1>6, <2>4, <2>6, <3>1
    <3>2. CASE i # m
      <4>1. i \in 1 .. m - 1 /\ g[i] = f[i]
        BY <2>5, <3>2
      <4>2. i # 1 => i - 1 \in 1 .. m /\ i - 1 # m
        BY <1>1, <1>3, <4>1
      <4>3. i # 1 => g[i - 1] = f[i - 1]
        BY <2>5, <4>2
      <4> QED
        BY <2>2, <4>1, <4>3 DEF Leads
    <3> QED
      BY <3>1, <3>2
  <2>9. Leads(g, m)
    BY <2>7, <2>8 DEF Leads
  <2> QED
    BY <1>3, <2>9
<1> QED
  BY <1>5, <1>6

LEMMA PacketsLead == Leads(PacketStart, Count + 1)
<1> DEFINE G(g) == [i \in 1 .. Len(PacketLen) + 1 |->
                     IF i = 1 THEN ENC28J60_BUF_RX_START
                     ELSE (g[i - 1] + ENC28J60_RSV_SIZE + PacketLen[i - 1]) % RingSize]
<1>1. PacketStart = CHOOSE g : g = G(g)
  BY DEF PacketStart
<1>2. Count \in Nat /\ Count = Len(PacketLen)
  BY RingIs DEF Count
<1>3. PICK f : Leads(f, Count + 1)
  BY <1>2, Starts
<1>4. f = G(f)
  BY <1>2, <1>3 DEF Leads
<1>5. PacketStart = G(PacketStart)
  BY <1>1, <1>4
<1> HIDE DEF G
<1> DEFINE T == {n \in 1 .. Count + 1 : PacketStart[n] # f[n]}
<1>6. T = {}
  <2> SUFFICES ASSUME T # {}
               PROVE  FALSE
    OBVIOUS
  <2>1. PICK m \in T : \A n \in T : m <= n
    <3>1. T \subseteq Nat /\ T # {}
      BY <1>2
    <3> HIDE DEF T
    <3> QED
      BY <3>1, Least
  <2>2. \A i \in 1 .. Count + 1 :
          /\ PacketStart[i] = IF i = 1 THEN ENC28J60_BUF_RX_START
               ELSE (PacketStart[i - 1] + ENC28J60_RSV_SIZE + PacketLen[i - 1]) % RingSize
          /\ f[i] = IF i = 1 THEN ENC28J60_BUF_RX_START
               ELSE (f[i - 1] + ENC28J60_RSV_SIZE + PacketLen[i - 1]) % RingSize
    BY <1>2, <1>4, <1>5 DEF G
  <2>3. m # 1
    BY <2>1, <2>2
  <2>4. m - 1 \in 1 .. Count + 1 /\ m - 1 \notin T
    BY <1>2, <2>1, <2>3
  <2>5. PacketStart[m - 1] = f[m - 1]
    BY <2>4
  <2> QED
    BY <2>1, <2>2, <2>3, <2>5
<1>7. DOMAIN PacketStart = 1 .. Count + 1 /\ DOMAIN f = 1 .. Count + 1
  BY <1>2, <1>4, <1>5 DEF G
<1>8. PacketStart = [i \in 1 .. Count + 1 |-> PacketStart[i]]
  BY <1>2, <1>5 DEF G
<1>9. PacketStart = f
  BY <1>3, <1>6, <1>8 DEF Leads
<1> QED
  BY <1>3, <1>9

LEMMA StartIs ==
  /\ PacketStart[1] = 0
  /\ \A i \in 1 .. Count + 1 : PacketStart[i] \in 0 .. ENC28J60_BUF_RX_END /\ PacketStart[i] % 2 = 0
  /\ \A i \in 1 .. Count : PacketStart[i + 1] = (PacketStart[i] + Size(i)) % RingSize
<1>1. Count \in Nat
  BY RingIs
<1>2. Leads(PacketStart, Count + 1)
  BY PacketsLead
<1>3. \A i \in 1 .. Count + 1 : PacketStart[i] \in 0 .. ENC28J60_BUF_RX_END /\ PacketStart[i] % 2 = 0
  BY <1>2 DEF Leads
<1>4. PacketStart[1] = 0
  BY <1>1, <1>2 DEF Leads, ENC28J60_BUF_RX_START
<1>5. ASSUME NEW i \in 1 .. Count
      PROVE  PacketStart[i + 1] = (PacketStart[i] + Size(i)) % RingSize
  <2>1. i + 1 \in 1 .. Count + 1 /\ i + 1 # 1 /\ (i + 1) - 1 = i /\ i \in 1 .. Count + 1
    BY <1>1
  <2>2. PacketStart[i + 1] = (PacketStart[i] + ENC28J60_RSV_SIZE + PacketLen[i]) % RingSize
    BY <1>2, <2>1 DEF Leads
  <2> QED
    BY <1>3, <2>1, <2>2, NextStart
<1> QED
  BY <1>3, <1>4, <1>5

(* How far behind packet from another packet lies, around the ring.         *)
Offset(from, i) ==
  IF PacketStart[i] >= PacketStart[from] THEN PacketStart[i] - PacketStart[from]
  ELSE PacketStart[i] + RingSize - PacketStart[from]

(* From packet from on, the packets up to arrived lie one behind the other, *)
(* and the last of them does not reach around the ring to where from begins. *)
Apart(from, arrived) ==
  \A i \in from .. arrived : \A j \in i + 1 .. arrived + 1 :
    Offset(from, i) + Size(i) <= Offset(from, j)

LEMMA OffsetIs ==
  ASSUME NEW from \in 1 .. Count + 1, NEW i \in 1 .. Count + 1
  PROVE  /\ Offset(from, i) \in 0 .. RingSize - 1
         /\ Offset(from, from) = 0
         /\ PacketStart[i] = IF PacketStart[from] + Offset(from, i) < RingSize
                             THEN PacketStart[from] + Offset(from, i)
                             ELSE PacketStart[from] + Offset(from, i) - RingSize
<1>1. RingSize = ENC28J60_BUF_RX_END + 1 /\ ENC28J60_BUF_RX_END \in Nat
  BY RingAssumption DEF RingSize
<1>2. PacketStart[i] \in 0 .. ENC28J60_BUF_RX_END /\ PacketStart[from] \in 0 .. ENC28J60_BUF_RX_END
  BY StartIs
<1> QED
  BY <1>1, <1>2 DEF Offset

(* The offset of a packet that fits in what is left of the ring. *)
LEMMA OffsetNext ==
  ASSUME NEW from \in 1 .. Count + 1, NEW i \in 1 .. Count,
         Offset(from, i) + Size(i) < RingSize
  PROVE  Offset(from, i + 1) = Offset(from, i) + Size(i)
<1>1. RingSize = ENC28J60_BUF_RX_END + 1 /\ ENC28J60_BUF_RX_END \in Nat
  BY RingAssumption DEF RingSize
<1>2. Count \in Nat /\ Size(i) \in Nat
  BY RingIs
<1>3. PacketStart[i] \in 0 .. ENC28J60_BUF_RX_END /\ PacketStart[from] \in 0 .. ENC28J60_BUF_RX_END
  BY <1>2, StartIs
<1>4. Offset(from, i) \in 0 .. RingSize - 1
  BY <1>2, OffsetIs
<1>5. PacketStart[i] + Size(i) \in Nat /\ PacketStart[i] + Size(i) < 2 * RingSize
  BY <1>1, <1>2, <1>3, <1>4
<1>6. PacketStart[i + 1] = IF PacketStart[i] + Size(i) < RingSize THEN PacketStart[i] + Size(i)
                           ELSE PacketStart[i] + Size(i) - RingSize
  <2> DEFINE x == PacketStart[i] + Size(i)
  <2>1. PacketStart[i + 1] = x % RingSize
    BY StartIs
  <2>2. x \in Nat /\ x < 2 * RingSize
    BY <1>5
  <2> HIDE DEF x
  <2>3. x % RingSize = IF x < RingSize THEN x ELSE x - RingSize
    BY <2>2, Wrap
  <2>4. x = PacketStart[i] + Size(i)
    BY DEF x
  <2> QED
    BY <1>1, <1>2, <1>3, <2>1, <2>2, <2>3, <2>4
<1> QED
  BY <1>1, <1>2, <1>3, <1>6 DEF Offset

LEMMA Rebased ==
  ASSUME NEW a \in 1 .. Count + 1, NEW b \in 1 .. Count + 1, NEW i \in 1 .. Count + 1,
         Offset(a, b) <= Offset(a, i)
  PROVE  Offset(b, i) = Offset(a, i) - Offset(a, b)
<1>1. RingSize = ENC28J60_BUF_RX_END + 1 /\ ENC28J60_BUF_RX_END \in Nat
  BY RingAssumption DEF RingSize
<1>2. /\ PacketStart[a] \in 0 .. ENC28J60_BUF_RX_END /\ PacketStart[b] \in 0 .. ENC28J60_BUF_RX_END
      /\ PacketStart[i] \in 0 .. ENC28J60_BUF_RX_END
  BY StartIs
<1> QED
  BY <1>1, <1>2 DEF Offset

(* A packet that arrives where there is room for it does not reach the      *)
(* first that has not been freed.                                           *)
LEMMA RoomIs ==
  ASSUME NEW from \in 1 .. Count + 1, NEW i \in 1 .. Count + 1
  PROVE  (RingSize + enc28j60_next_ptr_align_odd(PacketStart[from]) - PacketStart[i]) % RingSize
           = RingSize - 1 - Offset(from, i)
<1> DEFINE p == enc28j60_next_ptr_align_odd(PacketStart[from])
           x == RingSize + p - PacketStart[i]
<1>1. RingSize = ENC28J60_BUF_RX_END + 1 /\ ENC28J60_BUF_RX_END \in Nat
  BY RingAssumption DEF RingSize
<1>2. PacketStart[i] \in 0 .. ENC28J60_BUF_RX_END /\ PacketStart[from] \in 0 .. ENC28J60_BUF_RX_END
  BY StartIs
<1>3. p = IF PacketStart[from] = 0 THEN ENC28J60_BUF_RX_END ELSE PacketStart[from] - 1
  BY DEF enc28j60_next_ptr_align_odd, ENC28J60_BUF_RX_START
<1>4. x \in Nat /\ x < 2 * RingSize
  BY <1>1, <1>2, <1>3
<1>5. x % RingSize = IF x < RingSize THEN x ELSE x - RingSize
  BY <1>4, Wrap
<1> QED
  BY <1>1, <1>2, <1>3, <1>5 DEF Offset

LEMMA ArrivalApart ==
  ASSUME NEW from \in 1 .. Count, NEW arrived \in Nat, arrived + 1 \in from .. Count,
         Apart(from, arrived),
         Offset(from, arrived + 1) + Size(arrived + 1) < RingSize
  PROVE  Apart(from, arrived + 1)
<1>1. Count \in Nat /\ from \in 1 .. Count + 1
  BY RingIs
<1> DEFINE n == arrived + 1
<1>2. n \in 1 .. Count /\ n \in 1 .. Count + 1
  BY <1>1
<1>3. Offset(from, n + 1) = Offset(from, n) + Size(n)
  BY <1>1, <1>2, OffsetNext
<1>4. SUFFICES ASSUME NEW i \in from .. n, NEW j \in i + 1 .. n + 1
               PROVE  Offset(from, i) + Size(i) <= Offset(from, j)
  BY DEF Apart
<1>5. /\ Offset(from, i) \in Nat /\ Offset(from, n) \in Nat /\ Size(i) \in Nat /\ Size(n) \in Nat
      /\ j \in 1 .. n + 1
  BY <1>1, <1>2, <1>4, OffsetIs, RingIs
<1>6. CASE i = n
  <2>1. j = n + 1
    BY <1>2, <1>4, <1>6
  <2> QED
    BY <1>3, <1>5, <1>6, <2>1
<1>7. CASE i # n
  <2>1. i \in from .. arrived
    BY <1>1, <1>2, <1>4, <1>7
  <2>2. CASE j # n + 1
    <3>1. j \in i + 1 .. arrived + 1
      BY <1>2, <1>4, <2>1, <2>2
    <3> QED
      BY <2>1, <3>1 DEF Apart
  <2>3. CASE j = n + 1
    <3>1. n \in i + 1 .. arrived + 1
      BY <1>2, <1>4, <2>1
    <3>2. Offset(from, i) + Size(i) <= Offset(from, n)
      BY <2>1, <3>1 DEF Apart
    <3> QED
      BY <1>3, <1>5, <2>3, <3>2
  <2> QED
    BY <2>2, <2>3
<1> QED
  BY <1>6, <1>7

LEMMA FreedApart ==
  ASSUME NEW from \in 1 .. Count, NEW arrived \in from .. Count, Apart(from, arrived)
  PROVE  Apart(from + 1, arrived)
<1>1. Count \in Nat /\ from \in 1 .. Count + 1 /\ from + 1 \in 1 .. Count + 1
  BY RingIs
<1> DEFINE b == from + 1
<1>2. ASSUME NEW i \in b .. arrived + 1
      PROVE  Offset(b, i) = Offset(from, i) - Offset(from, b) /\ Offset(from, i) \in Nat
  <2>1. i \in 1 .. Count + 1 /\ i \in from + 1 .. arrived + 1
    BY <1>1
  <2>2. Offset(from, b) <= Offset(from, i)
    <3>1. CASE i = b
      BY <1>1, <2>1, <3>1, OffsetIs
    <3>2. CASE i # b
      <4>1. b \in from .. arrived /\ i \in b + 1 .. arrived + 1 /\ b \in 1 .. Count
        BY <1>1, <2>1, <3>2
      <4>2. Offset(from, b) + Size(b) <= Offset(from, i)
        BY <4>1 DEF Apart
      <4> QED
        BY <1>1, <2>1, <4>1, <4>2, OffsetIs, RingIs
    <3> QED
      BY <3>1, <3>2
  <2>3. Offset(from, i) \in Nat
    BY <1>1, <2>1, OffsetIs
  <2> QED
    BY <1>1, <2>1, <2>2, <2>3, Rebased
<1>3. SUFFICES ASSUME NEW i \in b .. arrived, NEW j \in i + 1 .. arrived + 1
               PROVE  Offset(b, i) + Size(i) <= Offset(b, j)
  BY DEF Apart
<1>4. i \in from .. arrived /\ i \in b .. arrived + 1 /\ j \in b .. arrived + 1 /\ i \in 1 .. Count
  BY <1>1, <1>3
<1>5. Offset(from, i) + Size(i) <= Offset(from, j)
  BY <1>3, <1>4 DEF Apart
<1>6. Size(i) \in Nat /\ Offset(from, b) \in Nat
  BY <1>1, <1>4, OffsetIs, RingIs
<1> HIDE DEF b
<1> QED
  BY <1>2, <1>4, <1>5, <1>6

(* What has not been freed lies whole in the ring. *)
LEMMA Fits ==
  ASSUME NEW from \in 1 .. Count, NEW arrived \in from .. Count, Apart(from, arrived),
         NEW i \in from .. arrived
  PROVE  Offset(from, i) + Size(i) < RingSize
<1>1. Count \in Nat
  BY RingIs
<1>2. arrived + 1 \in i + 1 .. arrived + 1 /\ arrived + 1 \in 1 .. Count + 1 /\ i \in 1 .. Count
      /\ from \in 1 .. Count + 1
  BY <1>1
<1>3. Offset(from, i) + Size(i) <= Offset(from, arrived + 1)
  BY <1>2 DEF Apart
<1>4. Offset(from, arrived + 1) \in 0 .. RingSize - 1 /\ Offset(from, i) \in Nat /\ Size(i) \in Nat
      /\ RingSize \in Nat
  BY <1>1, <1>2, OffsetIs, RingIs
<1> QED
  BY <1>3, <1>4

LEMMA SlotIs ==
  ASSUME NEW from \in 1 .. Count + 1, NEW i \in 1 .. Count,
         Offset(from, i) + Size(i) < RingSize,
         NEW s \in Slots(i)
  PROVE  \E o \in Offset(from, i) .. Offset(from, i) + Size(i) - 1 :
           s = IF PacketStart[from] + o < RingSize THEN PacketStart[from] + o
               ELSE PacketStart[from] + o - RingSize
<1>1. RingSize = ENC28J60_BUF_RX_END + 1 /\ ENC28J60_BUF_RX_END \in Nat
  BY RingAssumption DEF RingSize
<1>2. Count \in Nat /\ Size(i) \in Nat /\ i \in 1 .. Count + 1
  BY RingIs
<1>3. PacketStart[i] \in 0 .. ENC28J60_BUF_RX_END /\ PacketStart[from] \in 0 .. ENC28J60_BUF_RX_END
  BY <1>2, StartIs
<1>4. Offset(from, i) \in 0 .. RingSize - 1
  BY <1>2, OffsetIs
<1>5. PICK k \in 0 .. Size(i) - 1 : s = (PacketStart[i] + k) % RingSize
  <2>1. s \in {(PacketStart[i] + k) % RingSize : k \in 0 .. ENC28J60_RSV_SIZE + PacketLen[i] - 1}
    BY DEF Slots
  <2>2. PICK k \in 0 .. ENC28J60_RSV_SIZE + PacketLen[i] - 1 : s = (PacketStart[i] + k) % RingSize
    BY <2>1
  <2>3. Size(i) = ENC28J60_RSV_SIZE + PacketLen[i]
    BY DEF Size
  <2>4. PacketLen[i] \in Nat /\ ENC28J60_RSV_SIZE \in Nat
    BY RingAssumption DEF Count
  <2>5. k \in 0 .. Size(i) - 1
    BY <2>2, <2>3, <2>4
  <2> QED
    BY <2>2, <2>5
<1>6. PacketStart[i] + k \in Nat /\ PacketStart[i] + k < 2 * RingSize
  BY <1>1, <1>2, <1>3, <1>4, <1>5
<1>7. s = IF PacketStart[i] + k < RingSize THEN PacketStart[i] + k ELSE PacketStart[i] + k - RingSize
  <2> DEFINE x == PacketStart[i] + k
  <2>1. s = x % RingSize
    BY <1>5
  <2>2. x \in Nat /\ x < 2 * RingSize
    BY <1>6
  <2> HIDE DEF x
  <2>3. x % RingSize = IF x < RingSize THEN x ELSE x - RingSize
    BY <2>2, Wrap
  <2>4. x = PacketStart[i] + k
    BY DEF x
  <2> QED
    BY <1>1, <1>2, <1>3, <1>5, <2>1, <2>2, <2>3, <2>4
<1>8. PacketStart[i] = IF PacketStart[from] + Offset(from, i) < RingSize
                       THEN PacketStart[from] + Offset(from, i)
                       ELSE PacketStart[from] + Offset(from, i) - RingSize
  BY <1>2, OffsetIs
<1> DEFINE o == Offset(from, i) + k
<1>9. o \in Offset(from, i) .. Offset(from, i) + Size(i) - 1
  BY <1>2, <1>4, <1>5
<1>10. s = IF PacketStart[from] + o < RingSize THEN PacketStart[from] + o
           ELSE PacketStart[from] + o - RingSize
  BY <1>1, <1>2, <1>3, <1>4, <1>5, <1>7, <1>8
<1> QED
  BY <1>9, <1>10

LEMMA ApartIntact ==
  ASSUME NEW d, NEW from \in 1 .. Count, d.arrived \in from .. Count, Apart(from, d.arrived),
         NEW i \in from .. d.arrived
  PROVE  Intact(d, i)
<1>1. Count \in Nat /\ from \in 1 .. Count + 1
  BY RingIs
<1>2. SUFFICES ASSUME NEW j \in i + 1 .. d.arrived, NEW s \in Slots(i), s \in Slots(j)
               PROVE  FALSE
  BY DEF Intact
<1>3. i \in 1 .. Count /\ j \in 1 .. Count /\ j \in from .. d.arrived /\ j \in i + 1 .. d.arrived + 1
  BY <1>1, <1>2
<1>4. Offset(from, i) + Size(i) < RingSize /\ Offset(from, j) + Size(j) < RingSize
  BY <1>3, Fits
<1>5. PICK o \in Offset(from, i) .. Offset(from, i) + Size(i) - 1 :
        s = IF PacketStart[from] + o < RingSize THEN PacketStart[from] + o
            ELSE PacketStart[from] + o - RingSize
  BY <1>1, <1>2, <1>3, <1>4, SlotIs
<1>6. PICK p \in Offset(from, j) .. Offset(from, j) + Size(j) - 1 :
        s = IF PacketStart[from] + p < RingSize THEN PacketStart[from] + p
            ELSE PacketStart[from] + p - RingSize
  BY <1>1, <1>2, <1>3, <1>4, SlotIs
<1>7. Offset(from, i) + Size(i) <= Offset(from, j)
  BY <1>3 DEF Apart
<1>8. /\ Offset(from, i) \in Nat /\ Offset(from, j) \in Nat /\ Size(i) \in Nat /\ Size(j) \in Nat
      /\ PacketStart[from] \in 0 .. RingSize - 1 /\ RingSize \in Nat
  <2>1. PacketStart[from] \in 0 .. ENC28J60_BUF_RX_END
    BY <1>1, StartIs
  <2>2. PacketStart[from] \in 0 .. RingSize - 1
    BY <2>1, RingAssumption DEF RingSize
  <2>3. i \in 1 .. Count + 1 /\ j \in 1 .. Count + 1
    BY <1>1, <1>3
  <2> QED
    BY <1>1, <1>3, <2>2, <2>3, OffsetIs, RingIs
<1> QED
  BY <1>4, <1>5, <1>6, <1>7, <1>8

(* Where the first packet that has not been freed begins, no other begins.  *)
LEMMA FirstPacket ==
  ASSUME NEW d, NEW from \in 1 .. Count, d.arrived \in from .. Count, Apart(from, d.arrived)
  PROVE  PacketAt(d, PacketStart[from]) = from
<1> DEFINE here == {i \in 1 .. d.arrived : PacketStart[i] = PacketStart[from]}
<1>1. Count \in Nat /\ from \in 1 .. Count + 1
  BY RingIs
<1>2. from \in here
  BY <1>1
<1>3. ASSUME NEW j \in here, j > from
      PROVE  FALSE
  <2>1. j \in from + 1 .. d.arrived + 1 /\ j \in 1 .. Count + 1 /\ from \in from .. d.arrived
    BY <1>1, <1>3
  <2>2. Offset(from, from) + Size(from) <= Offset(from, j)
    BY <2>1 DEF Apart
  <2>3. Offset(from, j) = Offset(from, from)
    BY <1>3 DEF Offset
  <2>4. Offset(from, from) = 0 /\ Size(from) \in Nat /\ Size(from) > 0
    BY <1>1, OffsetIs, RingIs
  <2> QED
    BY <2>2, <2>3, <2>4
<1>4. \A j \in here : j <= from
  BY <1>1, <1>3
<1>5. \A i \in here : (\A j \in here : j <= i) => i = from
  BY <1>1, <1>2, <1>4
<1>6. PacketAt(d, PacketStart[from]) = CHOOSE i \in here : \A j \in here : j <= i
  BY <1>2 DEF PacketAt
<1> HIDE DEF here
<1> QED
  BY <1>2, <1>4, <1>5, <1>6

(* Where the content of a packet is read. *)
LEMMA ContentStart ==
  ASSUME NEW from \in 1 .. Count, NEW arrived \in from .. Count, Apart(from, arrived)
  PROVE  enc28j60_rx_packet_start(PacketStart[from], ENC28J60_RSV_SIZE)
           = (PacketStart[from] + ENC28J60_RSV_SIZE) % RingSize
<1>1. RingSize = ENC28J60_BUF_RX_END + 1 /\ ENC28J60_BUF_RX_END \in Nat /\ ENC28J60_RSV_SIZE \in Nat
  BY RingAssumption DEF RingSize
<1>2. Count \in Nat /\ Size(from) \in Nat /\ from \in 1 .. Count + 1
      /\ Size(from) > ENC28J60_RSV_SIZE
  BY RingIs
<1>3. PacketStart[from] \in 0 .. ENC28J60_BUF_RX_END /\ Offset(from, from) = 0
  BY <1>2, StartIs, OffsetIs
<1>4. Size(from) < RingSize
  <2>1. from \in from .. arrived
    OBVIOUS
  <2>2. Offset(from, from) + Size(from) < RingSize
    BY <2>1, Fits
  <2> QED
    BY <1>2, <1>3, <2>2
<1>5. PacketStart[from] + ENC28J60_RSV_SIZE \in Nat
      /\ PacketStart[from] + ENC28J60_RSV_SIZE < 2 * RingSize
  BY <1>1, <1>2, <1>3, <1>4
<1>6. (PacketStart[from] + ENC28J60_RSV_SIZE) % RingSize
        = IF PacketStart[from] + ENC28J60_RSV_SIZE < RingSize THEN PacketStart[from] + ENC28J60_RSV_SIZE
          ELSE PacketStart[from] + ENC28J60_RSV_SIZE - RingSize
  <2> DEFINE x == PacketStart[from] + ENC28J60_RSV_SIZE
  <2>1. x \in Nat /\ x < 2 * RingSize
    BY <1>5
  <2> HIDE DEF x
  <2>2. x % RingSize = IF x < RingSize THEN x ELSE x - RingSize
    BY <2>1, Wrap
  <2>3. x = PacketStart[from] + ENC28J60_RSV_SIZE
    BY DEF x
  <2> QED
    BY <1>1, <1>2, <1>3, <2>1, <2>2, <2>3
<1> QED
  BY <1>1, <1>3, <1>6 DEF enc28j60_rx_packet_start

-------------------------------------------------------------------------------
(* The driver's books: what an access to the chip does not touch of the     *)
(* place in the ring, whatever of it fails.                                 *)

Lossy == {"bank", "count", "ERDPT"}
InPlace(d) == d.slips \cap Lossy = {}

Tracked(d) == d.last_bank = NoBank \/ "bank" \in d.slips \/ d.bank = d.last_bank
Located(d) == d.lost = FALSE \/ ~InPlace(d)

RingFields ==
  {"bank", "last_bank", "econ1", "eie", "eir", "registers", "pktcnt", "arrived",
   "next_packet_ptr", "packets_remain", "faults", "freed", "slips", "lost"}

Pointers == {"ERDPT", "ERXRDPT"}

Typed(d) ==
  /\ RingFields \subseteq DOMAIN d /\ Pointers \subseteq DOMAIN d.registers
  /\ d.eir \subseteq {"TXIF", "TXERIF"}
  /\ d.eie \subseteq {"PKTIE", "INTIE", "TXIE", "TXERIE"}
  /\ d.econ1 \subseteq {"RXEN", "TXRTS", "TXRST"}
  /\ d.faults \in 0 .. MaxFaults
  /\ d.lost \in BOOLEAN /\ d.packets_remain \in BOOLEAN

Sound(d) == Typed(d) /\ Tracked(d) /\ Located(d)

Ledger(kept, d, e) ==
  /\ Typed(e)
  /\ d.faults \in Nat /\ d.faults <= e.faults
  /\ d.slips \subseteq e.slips /\ (d.lost = TRUE => e.lost = TRUE)
  /\ e.arrived = d.arrived /\ e.freed = d.freed /\ e.pktcnt = d.pktcnt
  /\ e.next_packet_ptr = d.next_packet_ptr /\ e.packets_remain = d.packets_remain
  /\ \A r \in kept : e.registers[r] = d.registers[r]

Books(kept, d, e) == Ledger(kept, d, e) /\ Tracked(e) /\ Located(e)

Booked(kept, d, o) ==
  /\ IsOutcome(o) /\ o.ok \in BOOLEAN
  /\ Books(kept, d, o.dev)
  /\ o.ok = FALSE => o.dev.faults > 0

LEMMA BooksSelf ==
  ASSUME NEW kept, NEW d, Sound(d)
  PROVE  Books(kept, d, d)
  BY RingAssumption DEF Books, Ledger, Sound, Typed

LEMMA BooksOn ==
  ASSUME NEW kept, NEW less, less \subseteq kept, NEW d, NEW e, NEW f,
         Books(less, d, e), Books(kept, e, f)
  PROVE  Books(less, d, f)
<1>1. e.faults \in Nat /\ f.faults \in Nat /\ d.faults \in Nat
  BY RingAssumption DEF Books, Ledger, Typed
<1> QED
  BY <1>1 DEF Books, Ledger

LEMMA BookedDevice ==
  ASSUME NEW kept, NEW d, NEW o, Booked(kept, d, o)
  PROVE  Books(kept, d, o.dev) /\ IsOutcome(o)
  BY DEF Booked

LEMMA EitherBooked ==
  ASSUME NEW d, NEW e, NEW o \in Transaction(d, e)
  PROVE  \/ o = [dev |-> e, ok |-> TRUE]
         \/ MayFail(d) /\ o = [dev |-> Faulty(d), ok |-> FALSE]
  BY DEF Transaction, Done, Failed, Faulty

LEMMA FaultBooks ==
  ASSUME NEW kept, NEW d, NEW e, Ledger(kept, d, e), MayFail(e)
  PROVE  /\ Ledger(kept, d, Faulty(e)) /\ Faulty(e).faults > 0
         /\ Tracked(e) => Tracked(Faulty(e))
         /\ Located(e) => Located(Faulty(e))
<1>1. e.faults \in 0 .. MaxFaults /\ MaxFaults \in Nat /\ e.faults < MaxFaults /\ "faults" \in DOMAIN e
  BY RingAssumption DEF Ledger, Typed, MayFail, RingFields
<1>2. Faulty(e).faults = e.faults + 1
  BY <1>1 DEF Faulty
<1>3. \A f \in DOMAIN e : f # "faults" => Faulty(e)[f] = e[f]
  BY DEF Faulty
<1>4. DOMAIN Faulty(e) = DOMAIN e
  BY DEF Faulty
<1>5. RingFields \subseteq DOMAIN e
  BY DEF Ledger, Typed
<1>6. /\ Faulty(e).bank = e.bank /\ Faulty(e).last_bank = e.last_bank /\ Faulty(e).econ1 = e.econ1
      /\ Faulty(e).eie = e.eie /\ Faulty(e).eir = e.eir /\ Faulty(e).registers = e.registers
      /\ Faulty(e).pktcnt = e.pktcnt /\ Faulty(e).arrived = e.arrived
      /\ Faulty(e).next_packet_ptr = e.next_packet_ptr
      /\ Faulty(e).packets_remain = e.packets_remain
      /\ Faulty(e).freed = e.freed /\ Faulty(e).slips = e.slips /\ Faulty(e).lost = e.lost
  BY <1>5 DEF Faulty, RingFields
<1>7. Faulty(e).faults \in 0 .. MaxFaults /\ Faulty(e).faults > 0 /\ e.faults <= Faulty(e).faults
  BY <1>1, <1>2
<1>8. Typed(Faulty(e))
  BY <1>4, <1>5, <1>6, <1>7 DEF Ledger, Typed
<1>9. d.faults \in Nat /\ d.faults <= e.faults
  BY DEF Ledger
<1>10. Ledger(kept, d, Faulty(e))
  BY <1>1, <1>2, <1>6, <1>8, <1>9 DEF Ledger
<1> QED
  BY <1>6, <1>7, <1>10 DEF Tracked, Located, InPlace

LEMMA TransactionBooked ==
  ASSUME NEW kept, NEW d, NEW e, NEW f, Books(kept, d, e), Books(kept, d, f),
         NEW o \in Transaction(e, f)
  PROVE  Booked(kept, d, o)
<1>1. CASE o = [dev |-> f, ok |-> TRUE]
  BY <1>1 DEF Booked, IsOutcome
<1>2. CASE MayFail(e) /\ o = [dev |-> Faulty(e), ok |-> FALSE]
  BY <1>2, FaultBooks DEF Booked, IsOutcome, Books
<1> QED
  BY <1>1, <1>2, EitherBooked

LEMMA SlipBooks ==
  ASSUME NEW kept, NEW d, NEW e, Ledger(kept, d, e), NEW cause
  PROVE  /\ Ledger(kept, d, Slip(e, cause)) /\ Slip(e, cause).slips = e.slips \cup {cause}
         /\ Tracked(e) => Tracked(Slip(e, cause))
         /\ Located(e) => Located(Slip(e, cause))
<1>1. RingFields \subseteq DOMAIN e
  BY DEF Ledger, Typed
<1>2. Slip(e, cause).slips = e.slips \cup {cause} /\ DOMAIN Slip(e, cause) = DOMAIN e
  BY <1>1 DEF Slip, RingFields
<1> DEFINE s == Slip(e, cause)
<1>3. /\ s.bank = e.bank /\ s.last_bank = e.last_bank /\ s.econ1 = e.econ1
      /\ s.eie = e.eie /\ s.eir = e.eir /\ s.registers = e.registers
      /\ s.pktcnt = e.pktcnt /\ s.arrived = e.arrived
      /\ s.next_packet_ptr = e.next_packet_ptr /\ s.packets_remain = e.packets_remain
      /\ s.freed = e.freed /\ s.faults = e.faults /\ s.lost = e.lost
  BY <1>1 DEF Slip, RingFields
<1> HIDE DEF s
<1>4. Typed(s)
  BY <1>2, <1>3 DEF Ledger, Typed, s
<1>5. Ledger(kept, d, s)
  BY <1>2, <1>3, <1>4 DEF Ledger, s
<1> QED
  BY <1>2, <1>3, <1>5 DEF Tracked, Located, InPlace, s

FlagsOf(register) ==
  IF register = "eir" THEN {"TXIF", "TXERIF"}
  ELSE IF register = "eie" THEN {"PKTIE", "INTIE", "TXIE", "TXERIE"} ELSE {"RXEN", "TXRTS", "TXRST"}

LEMMA FlagBooks ==
  ASSUME NEW kept, NEW d, NEW e, Books(kept, d, e),
         NEW register \in {"eir", "eie", "econ1"}, NEW bits, bits \subseteq FlagsOf(register)
  PROVE  Books(kept, d, [e EXCEPT ![register] = bits])
<1> DEFINE s == [e EXCEPT ![register] = bits]
<1>1. RingFields \subseteq DOMAIN e
  BY DEF Books, Ledger, Typed
<1>2. DOMAIN s = DOMAIN e
  OBVIOUS
<1>3. /\ s.bank = e.bank /\ s.last_bank = e.last_bank /\ s.registers = e.registers
      /\ s.pktcnt = e.pktcnt /\ s.arrived = e.arrived
      /\ s.next_packet_ptr = e.next_packet_ptr /\ s.packets_remain = e.packets_remain
      /\ s.freed = e.freed /\ s.faults = e.faults /\ s.lost = e.lost /\ s.slips = e.slips
  BY <1>1 DEF RingFields
<1>4. /\ s.eir \subseteq {"TXIF", "TXERIF"}
      /\ s.eie \subseteq {"PKTIE", "INTIE", "TXIE", "TXERIE"}
      /\ s.econ1 \subseteq {"RXEN", "TXRTS", "TXRST"}
  BY <1>1 DEF RingFields, FlagsOf, Books, Ledger, Typed
<1> HIDE DEF s
<1>5. Typed(s)
  BY <1>2, <1>3, <1>4 DEF Books, Ledger, Typed
<1>6. Books(kept, d, s)
  BY <1>3, <1>5 DEF Books, Ledger, Tracked, Located, InPlace
<1> QED
  BY <1>6 DEF s

LEMMA FlagsBooked ==
  ASSUME NEW kept, NEW d, NEW e, Books(kept, d, e),
         NEW register \in {"eir", "eie", "econ1"}, NEW bits, bits \subseteq FlagsOf(register),
         NEW o \in enc28j60_do_bitwise_set(e, register, bits)
                     \cup enc28j60_do_bitwise_clr(e, register, bits)
  PROVE  Booked(kept, d, o)
<1>1. e[register] \subseteq FlagsOf(register)
  BY DEF Books, Ledger, Typed, FlagsOf
<1>2. Books(kept, d, [e EXCEPT ![register] = e[register] \cup bits])
  BY <1>1, FlagBooks
<1>3. Books(kept, d, [e EXCEPT ![register] = e[register] \ bits])
  <2>1. e[register] \ bits \subseteq FlagsOf(register)
    BY <1>1
  <2> QED
    BY <2>1, FlagBooks
<1>4. CASE o \in enc28j60_do_bitwise_set(e, register, bits)
  BY <1>2, <1>4, TransactionBooked DEF enc28j60_do_bitwise_set
<1>5. CASE o \in enc28j60_do_bitwise_clr(e, register, bits)
  BY <1>3, <1>5, TransactionBooked DEF enc28j60_do_bitwise_clr
<1> QED
  BY <1>4, <1>5

-------------------------------------------------------------------------------
(* The accesses to the chip, and what they leave alone.                     *)

LEMMA PointerBooks ==
  ASSUME NEW kept, NEW d, NEW e, Books(kept, d, e), NEW register, register \notin kept, NEW value
  PROVE  /\ Books(kept, d, [e EXCEPT !.registers[register] = value])
         /\ register \in DOMAIN e.registers =>
              [e EXCEPT !.registers[register] = value].registers[register] = value
<1> DEFINE s == [e EXCEPT !.registers[register] = value]
<1>1. RingFields \subseteq DOMAIN e
  BY DEF Books, Ledger, Typed
<1>2. DOMAIN s = DOMAIN e
  OBVIOUS
<1>3. /\ s.bank = e.bank /\ s.last_bank = e.last_bank
      /\ s.econ1 = e.econ1 /\ s.eie = e.eie /\ s.eir = e.eir
      /\ s.pktcnt = e.pktcnt /\ s.arrived = e.arrived
      /\ s.next_packet_ptr = e.next_packet_ptr /\ s.packets_remain = e.packets_remain
      /\ s.freed = e.freed /\ s.faults = e.faults /\ s.lost = e.lost /\ s.slips = e.slips
  BY <1>1 DEF RingFields
<1>4. s.registers = [e.registers EXCEPT ![register] = value]
  BY <1>1 DEF RingFields
<1> HIDE DEF s
<1>5. DOMAIN s.registers = DOMAIN e.registers
      /\ \A r : r # register => s.registers[r] = e.registers[r]
  BY <1>4
<1>6. Typed(s)
  BY <1>2, <1>3, <1>5 DEF Books, Ledger, Typed
<1>7. Books(kept, d, s)
  BY <1>3, <1>5, <1>6 DEF Books, Ledger, Tracked, Located, InPlace
<1> QED
  BY <1>4, <1>7 DEF s

LEMMA LostBooks ==
  ASSUME NEW kept, NEW d, NEW e, Books(kept, d, e), ~InPlace(e)
  PROVE  /\ Books(kept, d, [e EXCEPT !.lost = TRUE])
         /\ [e EXCEPT !.lost = TRUE].lost = TRUE
         /\ [e EXCEPT !.lost = TRUE].registers = e.registers
<1> DEFINE s == [e EXCEPT !.lost = TRUE]
<1>1. RingFields \subseteq DOMAIN e
  BY DEF Books, Ledger, Typed
<1>2. DOMAIN s = DOMAIN e /\ s.lost = TRUE
  BY <1>1 DEF RingFields
<1>3. /\ s.bank = e.bank /\ s.last_bank = e.last_bank
      /\ s.econ1 = e.econ1 /\ s.eie = e.eie /\ s.eir = e.eir
      /\ s.pktcnt = e.pktcnt /\ s.arrived = e.arrived /\ s.registers = e.registers
      /\ s.next_packet_ptr = e.next_packet_ptr /\ s.packets_remain = e.packets_remain
      /\ s.freed = e.freed /\ s.faults = e.faults /\ s.slips = e.slips
  BY <1>1 DEF RingFields
<1> HIDE DEF s
<1>4. Typed(s)
  BY <1>2, <1>3 DEF Books, Ledger, Typed
<1>5. Books(kept, d, s)
  BY <1>2, <1>3, <1>4 DEF Books, Ledger, Tracked, Located, InPlace
<1> QED
  BY <1>2, <1>3, <1>5 DEF s

LEMMA MemoryBooked ==
  ASSUME NEW kept, "ERDPT" \notin kept, NEW d, NEW e, Books(kept, d, e),
         NEW o \in enc28j60_do_memory_read(e)
  PROVE  Booked(kept, d, o)
<1>1. Books(kept, d, [e EXCEPT !.registers["ERDPT"] = 0])
  BY PointerBooks
<1>2. o \in Transaction(e, [e EXCEPT !.registers["ERDPT"] = 0])
  BY DEF enc28j60_do_memory_read
<1> QED
  BY <1>1, <1>2, TransactionBooked

LEMMA BufferBooked ==
  ASSUME NEW kept, NEW d, NEW e, Books(kept, d, e), NEW o \in enc28j60_do_memory_write(e)
  PROVE  Booked(kept, d, o)
  BY TransactionBooked DEF enc28j60_do_memory_write

(* A switch that succeeds leaves the bank selected, unless an earlier one   *)
(* failed half way.                                                         *)
Selected(e, bank, o) ==
  /\ o.dev.registers = e.registers
  /\ o.ok = TRUE => "bank" \in o.dev.slips \/ o.dev.bank = bank

BankFields == {"bank", "last_bank"}

LEMMA BankBooks ==
  ASSUME NEW kept, NEW d, NEW e, Ledger(kept, d, e), NEW field \in BankFields, NEW value
  PROVE  /\ Ledger(kept, d, [e EXCEPT ![field] = value])
         /\ [e EXCEPT ![field] = value].slips = e.slips
         /\ [e EXCEPT ![field] = value].registers = e.registers
         /\ [e EXCEPT ![field] = value][field] = value
         /\ \A other \in BankFields : other # field => [e EXCEPT ![field] = value][other] = e[other]
         /\ Located(e) => Located([e EXCEPT ![field] = value])
<1> DEFINE s == [e EXCEPT ![field] = value]
<1>1. RingFields \subseteq DOMAIN e
  BY DEF Ledger, Typed
<1>2. DOMAIN s = DOMAIN e /\ s[field] = value
  BY <1>1 DEF RingFields, BankFields
<1>3. /\ s.econ1 = e.econ1 /\ s.eie = e.eie /\ s.eir = e.eir
      /\ s.pktcnt = e.pktcnt /\ s.arrived = e.arrived /\ s.registers = e.registers
      /\ s.next_packet_ptr = e.next_packet_ptr /\ s.packets_remain = e.packets_remain
      /\ s.freed = e.freed /\ s.faults = e.faults /\ s.slips = e.slips /\ s.lost = e.lost
  BY <1>1 DEF RingFields, BankFields
<1>4. \A other \in BankFields : other # field => s[other] = e[other]
  BY <1>1 DEF BankFields, RingFields
<1> HIDE DEF s
<1>5. Typed(s)
  BY <1>2, <1>3 DEF Ledger, Typed
<1>6. Ledger(kept, d, s)
  BY <1>3, <1>5 DEF Ledger
<1> QED
  BY <1>2, <1>3, <1>4, <1>6 DEF s, Located, InPlace

LEMMA SwitchBooked ==
  ASSUME NEW kept, NEW d, NEW e, Books(kept, d, e), NEW bank, bank # NoBank,
         NEW o \in enc28j60_switch_register_bank(e, bank)
  PROVE  Booked(kept, d, o) /\ Selected(e, bank, o)
<1>1. CASE bank = e.last_bank
  <2>1. o = [dev |-> e, ok |-> TRUE]
    BY <1>1 DEF enc28j60_switch_register_bank, Done
  <2> QED
    BY <1>1, <2>1 DEF Booked, IsOutcome, Selected, Books, Tracked
<1>2. CASE bank # e.last_bank
  <2> DEFINE cleared == [e EXCEPT !["bank"] = 0]
             Select(c) == {IF p.ok THEN [p EXCEPT !.dev.last_bank = bank]
                           ELSE [p EXCEPT !.dev = Slip(@, "bank")]
                             : p \in Transaction(c, [c EXCEPT !["bank"] = bank])}
  <2>1. enc28j60_switch_register_bank(e, bank) =
          UNION {IF a.ok THEN Select(a.dev) ELSE {a} : a \in Transaction(e, cleared)}
    BY <1>2 DEF enc28j60_switch_register_bank, Then
  <2>2. Ledger(kept, d, cleared) /\ Located(cleared) /\ cleared.registers = e.registers
    BY BankBooks DEF Books, BankFields
  <2> HIDE DEF Select, cleared
  <2>3. PICK a \in Transaction(e, cleared) : o \in IF a.ok THEN Select(a.dev) ELSE {a}
    BY <2>1
  <2>4. CASE MayFail(e) /\ a = [dev |-> Faulty(e), ok |-> FALSE]
    <3>1. o = a
      BY <2>3, <2>4
    <3>2. Faulty(e).registers = e.registers
      BY DEF Faulty
    <3> QED
      BY <2>4, <3>1, <3>2, FaultBooks DEF Booked, IsOutcome, Selected, Books
  <2>5. CASE a = [dev |-> cleared, ok |-> TRUE]
    <3> DEFINE moved == [cleared EXCEPT !["bank"] = bank]
    <3>1. PICK p \in Transaction(cleared, moved) :
            o = IF p.ok THEN [p EXCEPT !.dev.last_bank = bank]
                ELSE [p EXCEPT !.dev = Slip(@, "bank")]
      BY <2>3, <2>5 DEF Select
    <3>2. Ledger(kept, d, moved) /\ Located(moved) /\ moved.registers = e.registers /\ moved.bank = bank
      BY <2>2, BankBooks DEF BankFields
    <3> HIDE DEF moved
    <3>3. CASE p = [dev |-> moved, ok |-> TRUE]
      <4> DEFINE noted == [moved EXCEPT !["last_bank"] = bank]
      <4>1. o = [dev |-> noted, ok |-> TRUE]
        BY <3>1, <3>3
      <4>2. /\ Ledger(kept, d, noted) /\ Located(noted) /\ noted.registers = e.registers
            /\ noted.bank = bank /\ noted.last_bank = bank
        BY <3>2, BankBooks DEF BankFields
      <4> HIDE DEF noted
      <4> QED
        BY <4>1, <4>2 DEF Booked, IsOutcome, Selected, Books, Tracked
    <3>4. CASE MayFail(cleared) /\ p = [dev |-> Faulty(cleared), ok |-> FALSE]
      <4> DEFINE half == Slip(Faulty(cleared), "bank")
      <4>1. o = [dev |-> half, ok |-> FALSE]
        BY <3>1, <3>4
      <4>2. Ledger(kept, d, Faulty(cleared)) /\ Faulty(cleared).faults > 0 /\ Located(Faulty(cleared))
        BY <2>2, <3>4, FaultBooks
      <4>3. Ledger(kept, d, half) /\ Located(half) /\ "bank" \in half.slips
        BY <4>2, SlipBooks
      <4>4. half.registers = e.registers /\ half.faults = Faulty(cleared).faults
        BY <2>2 DEF Slip, Faulty
      <4> HIDE DEF half
      <4> QED
        BY <4>1, <4>2, <4>3, <4>4 DEF Booked, IsOutcome, Selected, Books, Tracked
    <3> QED
      BY <3>1, <3>3, <3>4, EitherBooked
  <2> QED
    BY <2>3, <2>4, <2>5, EitherBooked
<1> QED
  BY <1>1, <1>2

(* Between a switch and an access: only a slipped bank is the wrong one.    *)
LEMMA Banks == \A register \in DOMAIN BankOf : BankOf[register] # NoBank
  BY DEF BankOf, NoBank

Registers ==
  {"EWRPT", "ETXST", "ETXND", "ERXST", "ERXND", "EHT", "ERXFCON", "EPKTCNT",
   "MACON1", "MACON3", "MACON4", "MABBIPG", "MAIPG", "MICMD", "MIREGADR", "MIWR", "MIRD",
   "MAADR", "MISTAT", "EREVID"}

LEMMA RegistersAre == DOMAIN BankOf = Registers \cup Pointers /\ Registers \cap Pointers = {}
  BY DEF BankOf, Registers, Pointers

(* What a write has done to the register, if it is one that is followed.    *)
Takes(e, register, value, o) ==
  \/ o.ok = TRUE /\ o.dev.registers[register] = value
  \/ (o.ok = TRUE => o.dev.lost = TRUE) /\ o.dev.registers[register] = e.registers[register]

LEMMA WriteBooked ==
  ASSUME NEW kept, NEW d, NEW e, Books(kept, d, e),
         NEW register \in DOMAIN BankOf, register \notin kept, NEW value,
         NEW o \in enc28j60_register_write(e, register, value)
  PROVE  /\ Booked(kept, d, o)
         /\ register \in Pointers => Takes(e, register, value, o)
<1> DEFINE bank == BankOf[register]
<1>1. bank # NoBank
  BY Banks
<1> HIDE DEF bank
<1>2. \/ o \in enc28j60_switch_register_bank(e, bank) /\ o.ok = FALSE
      \/ \E a \in enc28j60_switch_register_bank(e, bank) :
           a.ok = TRUE /\ o \in enc28j60_do_register_write(a.dev, register, value)
  <2>1. PICK a \in enc28j60_switch_register_bank(e, bank) :
          o \in IF a.ok THEN enc28j60_do_register_write(a.dev, register, value) ELSE {a}
    BY DEF enc28j60_register_write, Then, bank
  <2>2. a.ok \in BOOLEAN
    BY <1>1, SwitchBooked DEF Booked
  <2> QED
    BY <2>1, <2>2
<1>3. CASE o \in enc28j60_switch_register_bank(e, bank) /\ o.ok = FALSE
  BY <1>1, <1>3, SwitchBooked DEF Selected, Takes
<1>4. ASSUME NEW a \in enc28j60_switch_register_bank(e, bank), a.ok = TRUE,
             o \in enc28j60_do_register_write(a.dev, register, value)
      PROVE  Booked(kept, d, o) /\ (register \in Pointers => Takes(e, register, value, o))
  <2> DEFINE s == a.dev
             astray == [s EXCEPT !.lost = TRUE]
             written == [s EXCEPT !.registers[register] = value]
             t == IF s.bank # bank THEN astray
                  ELSE IF register \in DOMAIN s.registers THEN written ELSE s
  <2>1. Books(kept, d, s) /\ s.registers = e.registers /\ ("bank" \in s.slips \/ s.bank = bank)
    <3>1. Booked(kept, d, a) /\ Selected(e, bank, a)
      BY <1>1, <1>4, SwitchBooked
    <3> QED
      BY <1>4, <3>1 DEF Booked, Selected
  <2> HIDE DEF s
  <2>2. o \in Transaction(s, t)
    BY <1>4 DEF enc28j60_do_register_write, s, bank
  <2>3. register \in Pointers => register \in DOMAIN s.registers
    BY <2>1 DEF Books, Ledger, Typed
  <2>4. CASE s.bank # bank
    <3>1. ~InPlace(s)
      BY <2>1, <2>4 DEF InPlace, Lossy
    <3>2. t = astray /\ Books(kept, d, t) /\ t.lost = TRUE /\ t.registers = e.registers
      BY <2>1, <2>4, <3>1, LostBooks
    <3> HIDE DEF t
    <3>3. Booked(kept, d, o)
      BY <2>1, <2>2, <3>2, TransactionBooked
    <3>4. Faulty(s).registers = s.registers
      BY DEF Faulty
    <3>5. o = [dev |-> t, ok |-> TRUE] \/ o = [dev |-> Faulty(s), ok |-> FALSE]
      BY <2>2, EitherBooked
    <3>6. t.lost = TRUE /\ t.registers[register] = e.registers[register]
          /\ Faulty(s).registers[register] = e.registers[register]
      BY <2>1, <3>2, <3>4
    <3>7. Takes(e, register, value, o)
      BY <3>5, <3>6 DEF Takes
    <3> QED
      BY <3>3, <3>7
  <2>5. CASE s.bank = bank
    <3>1. Books(kept, d, t) /\ (register \in Pointers => t.registers[register] = value)
      BY <2>1, <2>3, <2>5, PointerBooks
    <3> HIDE DEF t
    <3>2. Booked(kept, d, o)
      BY <2>1, <2>2, <3>1, TransactionBooked
    <3>3. Faulty(s).registers = s.registers
      BY DEF Faulty
    <3> QED
      BY <2>1, <2>2, <3>1, <3>2, <3>3, EitherBooked DEF Takes
  <2> QED
    BY <2>4, <2>5
<1> QED
  BY <1>2, <1>3, <1>4

LEMMA ReadBooked ==
  ASSUME NEW kept, NEW d, NEW e, Books(kept, d, e), NEW register \in DOMAIN BankOf,
         NEW o \in enc28j60_register_read(e, register)
  PROVE  Booked(kept, d, o)
<1> DEFINE bank == BankOf[register]
<1>1. bank # NoBank
  BY Banks
<1> HIDE DEF bank
<1>2. PICK a \in enc28j60_switch_register_bank(e, bank) :
        o \in IF a.ok THEN enc28j60_do_register_read(a.dev, register) ELSE {a}
  BY DEF enc28j60_register_read, Then, bank
<1>3. Booked(kept, d, a) /\ Selected(e, bank, a) /\ a.ok \in BOOLEAN
  BY <1>1, <1>2, SwitchBooked DEF Booked
<1>4. CASE a.ok = TRUE
  <2> DEFINE s == a.dev
             astray == [s EXCEPT !.lost = TRUE]
             t == IF s.bank # bank THEN astray ELSE s
  <2>1. Books(kept, d, s) /\ ("bank" \in s.slips \/ s.bank = bank)
    BY <1>3, <1>4 DEF Booked, Selected
  <2> HIDE DEF s
  <2>2. o \in Transaction(s, t)
    BY <1>2, <1>4 DEF enc28j60_do_register_read, s, bank
  <2>3. Books(kept, d, t)
    <3>1. s.bank # bank => ~InPlace(s)
      BY <2>1 DEF InPlace, Lossy
    <3> QED
      BY <2>1, <3>1, LostBooks
  <2> HIDE DEF t
  <2> QED
    BY <2>1, <2>2, <2>3, TransactionBooked
<1>5. CASE a.ok = FALSE
  BY <1>2, <1>3, <1>5
<1> QED
  BY <1>3, <1>4, <1>5

LEMMA PairBooked ==
  ASSUME NEW kept, NEW d, NEW e, Books(kept, d, e),
         NEW register \in DOMAIN BankOf, register \notin kept, NEW value,
         NEW o \in WritePair(e, register, value)
  PROVE  /\ Booked(kept, d, o)
         /\ register \in Pointers => Takes(e, register, value, o)
<1> DEFINE low == e.registers[register]
<1>1. PICK a \in enc28j60_register_write(e, register, low) :
        o \in IF a.ok THEN enc28j60_register_write(a.dev, register, value) ELSE {a}
  BY DEF WritePair, Then
<1>2. /\ Booked(kept, d, a) /\ a.ok \in BOOLEAN /\ Books(kept, d, a.dev)
      /\ register \in Pointers => a.dev.registers[register] = low
  <2>1. Booked(kept, d, a) /\ (register \in Pointers => Takes(e, register, low, a))
    BY <1>1, WriteBooked
  <2> QED
    BY <2>1 DEF Booked, Takes
<1> HIDE DEF low
<1>3. CASE a.ok = TRUE
  <2>1. o \in enc28j60_register_write(a.dev, register, value)
    BY <1>1, <1>3
  <2>2. Booked(kept, d, o) /\ (register \in Pointers => Takes(a.dev, register, value, o))
    BY <1>2, <2>1, WriteBooked
  <2> QED
    BY <1>2, <2>2 DEF Takes, low
<1>4. CASE a.ok = FALSE
  BY <1>1, <1>2, <1>4 DEF Takes, low
<1> QED
  BY <1>2, <1>3, <1>4

LEMMA TouchBooked ==
  ASSUME NEW kept, NEW d, NEW e, Books(kept, d, e),
         NEW register \in DOMAIN BankOf, register \notin kept,
         NEW o \in TouchPair(e, register)
  PROVE  Booked(kept, d, o)
<1>1. \/ o \in enc28j60_register_write(e, register, 0)
      \/ \E a \in enc28j60_register_write(e, register, 0) :
           o \in enc28j60_register_write(a.dev, register, 0)
  BY DEF TouchPair, Then
<1> QED
  BY <1>1, WriteBooked, BookedDevice

-------------------------------------------------------------------------------
(* The functions of the driver that go by the ring.                         *)

(* A field that is no part of the books. *)
LEMMA OtherBooks ==
  ASSUME NEW kept, NEW d, NEW e, Books(kept, d, e), NEW field, field \notin RingFields, NEW value
  PROVE  Books(kept, d, [e EXCEPT ![field] = value])
<1> DEFINE s == [e EXCEPT ![field] = value]
<1>1. RingFields \subseteq DOMAIN e
  BY DEF Books, Ledger, Typed
<1>2. DOMAIN s = DOMAIN e
  OBVIOUS
<1>3. /\ s.bank = e.bank /\ s.last_bank = e.last_bank /\ s.registers = e.registers
      /\ s.econ1 = e.econ1 /\ s.eie = e.eie /\ s.eir = e.eir
      /\ s.pktcnt = e.pktcnt /\ s.arrived = e.arrived
      /\ s.next_packet_ptr = e.next_packet_ptr /\ s.packets_remain = e.packets_remain
      /\ s.freed = e.freed /\ s.faults = e.faults /\ s.lost = e.lost /\ s.slips = e.slips
  BY <1>1 DEF RingFields
<1> HIDE DEF s
<1>4. Typed(s)
  BY <1>2, <1>3 DEF Books, Ledger, Typed
<1>5. Books(kept, d, s)
  BY <1>3, <1>4 DEF Books, Ledger, Tracked, Located, InPlace
<1> QED
  BY <1>5 DEF s

(* The registers of the PHY. *)
LEMMA PhyReadBooked ==
  ASSUME NEW kept, kept \subseteq Pointers, NEW d, NEW e, Books(kept, d, e),
         NEW o \in emac_enc28j60_read_phy_reg(e)
  PROVE  Booked(kept, d, o)
<1> DEFINE R6(x) == Then(enc28j60_register_read(x, "MIRD"), LAMBDA y : enc28j60_register_read(y, "MIRD"))
           R5(x) == Then(enc28j60_register_write(x, "MICMD", 0), R6)
           R4(x) == Then(enc28j60_register_read(x, "MISTAT"), R5)
           R3(x) == Then(enc28j60_register_write(x, "MICMD", 1), R4)
           R2(x) == Then(enc28j60_register_write(x, "MIREGADR", 0), R3)
<1>1. o \in Then(enc28j60_register_read(e, "MISTAT"), R2)
  BY DEF emac_enc28j60_read_phy_reg, WaitNotBusy
<1> HIDE DEF R2, R3, R4, R5, R6
<1>2. \A x, p : Books(kept, d, x) /\ p \in R6(x) => Booked(kept, d, p)
  <2>1. \A x, p : p \in R6(x) =>
          p \in enc28j60_register_read(x, "MIRD") \/
          \E a \in enc28j60_register_read(x, "MIRD") : p \in enc28j60_register_read(a.dev, "MIRD")
    BY DEF Then, R6
  <2> QED
    BY <2>1, ReadBooked, RegistersAre, BookedDevice DEF Registers, FlagsOf
<1>3. \A x, p : Books(kept, d, x) /\ p \in R5(x) => Booked(kept, d, p)
  <2>1. \A x, p : p \in R5(x) =>
          p \in enc28j60_register_write(x, "MICMD", 0) \/
          \E a \in enc28j60_register_write(x, "MICMD", 0) : p \in R6(a.dev)
    BY DEF Then, R5
  <2> QED
    BY <2>1, <1>2, WriteBooked, RegistersAre, BookedDevice DEF Registers, FlagsOf
<1>4. \A x, p : Books(kept, d, x) /\ p \in R4(x) => Booked(kept, d, p)
  <2>1. \A x, p : p \in R4(x) =>
          p \in enc28j60_register_read(x, "MISTAT") \/
          \E a \in enc28j60_register_read(x, "MISTAT") : p \in R5(a.dev)
    BY DEF Then, R4
  <2> QED
    BY <2>1, <1>3, ReadBooked, RegistersAre, BookedDevice DEF Registers, FlagsOf
<1>5. \A x, p : Books(kept, d, x) /\ p \in R3(x) => Booked(kept, d, p)
  <2>1. \A x, p : p \in R3(x) =>
          p \in enc28j60_register_write(x, "MICMD", 1) \/
          \E a \in enc28j60_register_write(x, "MICMD", 1) : p \in R4(a.dev)
    BY DEF Then, R3
  <2> QED
    BY <2>1, <1>4, WriteBooked, RegistersAre, BookedDevice DEF Registers, FlagsOf
<1>6. \A x, p : Books(kept, d, x) /\ p \in R2(x) => Booked(kept, d, p)
  <2>1. \A x, p : p \in R2(x) =>
          p \in enc28j60_register_write(x, "MIREGADR", 0) \/
          \E a \in enc28j60_register_write(x, "MIREGADR", 0) : p \in R3(a.dev)
    BY DEF Then, R2
  <2> QED
    BY <2>1, <1>5, WriteBooked, RegistersAre, BookedDevice DEF Registers, FlagsOf
<1>7. \/ o \in enc28j60_register_read(e, "MISTAT")
      \/ \E a \in enc28j60_register_read(e, "MISTAT") : o \in R2(a.dev)
  BY <1>1 DEF Then
<1> QED
  BY <1>6, <1>7, ReadBooked, RegistersAre, BookedDevice DEF Registers, FlagsOf

LEMMA PhySetBooked ==
  ASSUME NEW kept, kept \subseteq Pointers, NEW d, NEW e, Books(kept, d, e), NEW phy,
         NEW o \in PhySet(e, phy)
  PROVE  Booked(kept, d, o)
<1>1. PICK p \in enc28j60_register_write(e, "MIWR", 0) :
        o = IF p.ok THEN [p EXCEPT !.dev.phy = phy] ELSE p
  BY DEF PhySet
<1>2. Booked(kept, d, p)
  BY RegistersAre, WriteBooked DEF Registers
<1>3. Books(kept, d, [p.dev EXCEPT !["phy"] = phy])
  BY <1>2, OtherBooks DEF Booked, RingFields
<1>4. IsOutcome(o) /\ o.ok = p.ok
      /\ (o = p \/ (p.ok = TRUE /\ o.dev = [p.dev EXCEPT !["phy"] = phy]))
  BY <1>1, <1>2 DEF Booked, IsOutcome
<1> QED
  BY <1>2, <1>3, <1>4 DEF Booked

LEMMA PhyWriteBooked ==
  ASSUME NEW kept, kept \subseteq Pointers, NEW d, NEW e, Books(kept, d, e), NEW phy,
         NEW o \in emac_enc28j60_write_phy_reg(e, phy)
  PROVE  Booked(kept, d, o)
<1> DEFINE R4(x) == Then(PhySet(x, phy), LAMBDA y : enc28j60_register_read(y, "MISTAT"))
           R3(x) == Then(enc28j60_register_write(x, "MIWR", 0), R4)
           R2(x) == Then(enc28j60_register_write(x, "MIREGADR", 0), R3)
<1>1. o \in Then(enc28j60_register_read(e, "MISTAT"), R2)
  BY DEF emac_enc28j60_write_phy_reg, WaitNotBusy, PhySet
<1> HIDE DEF R2, R3, R4
<1>2. \A x, p : Books(kept, d, x) /\ p \in R4(x) => Booked(kept, d, p)
  <2>1. \A x, p : p \in R4(x) =>
          p \in PhySet(x, phy) \/
          \E a \in PhySet(x, phy) : p \in enc28j60_register_read(a.dev, "MISTAT")
    BY DEF Then, R4
  <2> QED
    BY <2>1, PhySetBooked, ReadBooked, RegistersAre, BookedDevice DEF Registers, FlagsOf
<1>3. \A x, p : Books(kept, d, x) /\ p \in R3(x) => Booked(kept, d, p)
  <2>1. \A x, p : p \in R3(x) =>
          p \in enc28j60_register_write(x, "MIWR", 0) \/
          \E a \in enc28j60_register_write(x, "MIWR", 0) : p \in R4(a.dev)
    BY DEF Then, R3
  <2> QED
    BY <2>1, <1>2, WriteBooked, RegistersAre, BookedDevice DEF Registers, FlagsOf
<1>4. \A x, p : Books(kept, d, x) /\ p \in R2(x) => Booked(kept, d, p)
  <2>1. \A x, p : p \in R2(x) =>
          p \in enc28j60_register_write(x, "MIREGADR", 0) \/
          \E a \in enc28j60_register_write(x, "MIREGADR", 0) : p \in R3(a.dev)
    BY DEF Then, R2
  <2> QED
    BY <2>1, <1>3, WriteBooked, RegistersAre, BookedDevice DEF Registers, FlagsOf
<1>5. \/ o \in enc28j60_register_read(e, "MISTAT")
      \/ \E a \in enc28j60_register_read(e, "MISTAT") : o \in R2(a.dev)
  BY <1>1 DEF Then
<1> QED
  BY <1>4, <1>5, ReadBooked, RegistersAre, BookedDevice DEF Registers, FlagsOf

LEMMA UpdateBooked ==
  ASSUME NEW kept, kept \subseteq Pointers, NEW d, NEW e, Books(kept, d, e), NEW phy,
         NEW o \in UpdatePhy(e, phy)
  PROVE  Booked(kept, d, o)
<1>1. \/ o \in emac_enc28j60_read_phy_reg(e)
      \/ \E a \in emac_enc28j60_read_phy_reg(e) : o \in emac_enc28j60_write_phy_reg(a.dev, phy)
  BY DEF UpdatePhy, Then
<1> QED
  BY <1>1, RegistersAre, BookedDevice, PhyReadBooked, PhyWriteBooked DEF Registers, FlagsOf

LEMMA PowerBooked ==
  ASSUME NEW kept, kept \subseteq Pointers, NEW d, NEW e, Books(kept, d, e),
         NEW o \in enc28j60_pwrctl_on(e)
  PROVE  Booked(kept, d, o)
<1>1. \/ o \in UpdatePhy(e, [e.phy EXCEPT !.power = TRUE])
      \/ \E a \in UpdatePhy(e, [e.phy EXCEPT !.power = TRUE]) : o \in emac_enc28j60_read_phy_reg(a.dev)
  BY DEF enc28j60_pwrctl_on, Then
<1> QED
  BY <1>1, RegistersAre, BookedDevice, UpdateBooked, PhyReadBooked DEF Registers, FlagsOf

LEMMA PhyResetBooked ==
  ASSUME NEW kept, kept \subseteq Pointers, NEW d, NEW e, Books(kept, d, e),
         NEW o \in enc28j60_reset(e)
  PROVE  Booked(kept, d, o)
<1> DEFINE down == [e EXCEPT !["link_status"] = "DOWN"]
           phy == [power |-> TRUE, duplex |-> "half", loopback |-> TRUE]
<1>1. Books(kept, d, down)
  BY OtherBooks DEF RingFields
<1>2. o \in emac_enc28j60_write_phy_reg(down, phy) \/
      \E a \in emac_enc28j60_write_phy_reg(down, phy) : o \in emac_enc28j60_read_phy_reg(a.dev)
  BY DEF enc28j60_reset, Then
<1> HIDE DEF down, phy
<1> QED
  BY <1>1, <1>2, PhyWriteBooked, PhyReadBooked, BookedDevice

LEMMA DuplexBooked ==
  ASSUME NEW kept, kept \subseteq Pointers, NEW d, NEW e, Books(kept, d, e), NEW duplex,
         NEW o \in enc28j60_set_duplex(e, duplex)
  PROVE  Booked(kept, d, o)
<1> DEFINE down == [e EXCEPT !["link_status"] = "DOWN"]
           phy == [e.phy EXCEPT !.duplex = duplex]
<1>1. Books(kept, d, down)
  BY OtherBooks DEF RingFields
<1>2. o \in UpdatePhy(down, phy)
  BY DEF enc28j60_set_duplex
<1> HIDE DEF down, phy
<1> QED
  BY <1>1, <1>2, UpdateBooked

LEMMA PhyInitBooked ==
  ASSUME NEW kept, kept \subseteq Pointers, NEW d, NEW e, Books(kept, d, e),
         NEW o \in enc28j60_init(e)
  PROVE  Booked(kept, d, o)
<1> DEFINE R4(x) == Then(emac_enc28j60_read_phy_reg(x), LAMBDA y : UpdatePhy(y, [y.phy EXCEPT !.loopback = FALSE]))
           R3(x) == Then(emac_enc28j60_read_phy_reg(x), R4)
           R2(x) == Then(enc28j60_reset(x), R3)
<1>1. o \in Then(enc28j60_pwrctl_on(e), R2)
  BY DEF enc28j60_init
<1> HIDE DEF R2, R3, R4
<1>2. \A x, p : Books(kept, d, x) /\ p \in R4(x) => Booked(kept, d, p)
  <2>1. \A x, p : p \in R4(x) =>
          p \in emac_enc28j60_read_phy_reg(x) \/
          \E a \in emac_enc28j60_read_phy_reg(x) : p \in UpdatePhy(a.dev, [a.dev.phy EXCEPT !.loopback = FALSE])
    BY DEF Then, R4
  <2> QED
    BY <2>1, PhyReadBooked, UpdateBooked, RegistersAre, BookedDevice DEF Registers, FlagsOf
<1>3. \A x, p : Books(kept, d, x) /\ p \in R3(x) => Booked(kept, d, p)
  <2>1. \A x, p : p \in R3(x) =>
          p \in emac_enc28j60_read_phy_reg(x) \/
          \E a \in emac_enc28j60_read_phy_reg(x) : p \in R4(a.dev)
    BY DEF Then, R3
  <2> QED
    BY <2>1, <1>2, PhyReadBooked, RegistersAre, BookedDevice DEF Registers, FlagsOf
<1>4. \A x, p : Books(kept, d, x) /\ p \in R2(x) => Booked(kept, d, p)
  <2>1. \A x, p : p \in R2(x) =>
          p \in enc28j60_reset(x) \/
          \E a \in enc28j60_reset(x) : p \in R3(a.dev)
    BY DEF Then, R2
  <2> QED
    BY <2>1, <1>3, PhyResetBooked, RegistersAre, BookedDevice DEF Registers, FlagsOf
<1>5. \/ o \in enc28j60_pwrctl_on(e)
      \/ \E a \in enc28j60_pwrctl_on(e) : o \in R2(a.dev)
  BY <1>1 DEF Then
<1> QED
  BY <1>4, <1>5, PowerBooked, RegistersAre, BookedDevice DEF Registers, FlagsOf

(* The check of the link, and transmit. *)
LEMMA ModeBooked ==
  ASSUME NEW kept, kept \subseteq Pointers, NEW d, NEW e, Books(kept, d, e), NEW duplex,
         NEW o \in emac_enc28j60_set_duplex(e, duplex)
  PROVE  Booked(kept, d, o)
<1> DEFINE gap == IF duplex = "half" THEN 18 ELSE 21
           R2(x) == Then(enc28j60_register_write(x, "MABBIPG", gap),
                         LAMBDA y : enc28j60_register_write(y, "MACON3", duplex))
<1>1. o \in Then(enc28j60_register_read(e, "MACON3"), R2)
  BY DEF emac_enc28j60_set_duplex
<1> HIDE DEF R2, gap
<1>2. \A x, p : Books(kept, d, x) /\ p \in R2(x) => Booked(kept, d, p)
  <2>1. \A x, p : p \in R2(x) =>
          p \in enc28j60_register_write(x, "MABBIPG", gap) \/
          \E a \in enc28j60_register_write(x, "MABBIPG", gap) :
            p \in enc28j60_register_write(a.dev, "MACON3", duplex)
    BY DEF Then, R2
  <2> QED
    BY <2>1, WriteBooked, RegistersAre, BookedDevice DEF Registers
<1>3. \/ o \in enc28j60_register_read(e, "MACON3")
      \/ \E a \in enc28j60_register_read(e, "MACON3") : o \in R2(a.dev)
  BY <1>1 DEF Then
<1> QED
  BY <1>2, <1>3, ReadBooked, RegistersAre, BookedDevice DEF Registers

LEMMA StartBooked ==
  ASSUME NEW kept, kept \subseteq Pointers, NEW d, NEW e, Books(kept, d, e),
         NEW o \in DuplexAndFlags(e)
  PROVE  Booked(kept, d, o)
<1>1. \/ o \in emac_enc28j60_set_duplex(e, e.phy.duplex)
      \/ \E a \in emac_enc28j60_set_duplex(e, e.phy.duplex) : o \in enc28j60_do_bitwise_clr(a.dev, "eir", {"TXIF", "TXERIF"})
  BY DEF DuplexAndFlags, Then
<1> QED
  BY <1>1, RegistersAre, BookedDevice, ModeBooked, FlagsBooked DEF Registers, FlagsOf

LEMMA EnableBooked ==
  ASSUME NEW kept, kept \subseteq Pointers, NEW d, NEW e, Books(kept, d, e),
         NEW o \in Enable(e)
  PROVE  Booked(kept, d, o)
<1>1. \/ o \in enc28j60_do_bitwise_set(e, "eie", {"PKTIE", "INTIE", "TXERIE"})
      \/ \E a \in enc28j60_do_bitwise_set(e, "eie", {"PKTIE", "INTIE", "TXERIE"}) : o \in enc28j60_do_bitwise_set(a.dev, "econ1", {"RXEN"})
  BY DEF Enable, Then
<1> QED
  BY <1>1, RegistersAre, BookedDevice, FlagsBooked DEF Registers, FlagsOf

LEMMA FrameBooked ==
  ASSUME NEW kept, kept \subseteq Pointers, NEW d, NEW e, Books(kept, d, e),
         NEW o \in WriteFrame(e)
  PROVE  Booked(kept, d, o)
<1> DEFINE R5(x) == Then(enc28j60_do_bitwise_clr(x, "eir", {"TXIF"}), LAMBDA y : enc28j60_do_bitwise_set(y, "eie", {"TXIE"}))
           R4(x) == Then(enc28j60_do_memory_write(x), R5)
           R3(x) == Then(enc28j60_do_memory_write(x), R4)
           R2(x) == Then(TouchPair(x, "ETXND"), R3)
<1>1. o \in Then(TouchPair(e, "EWRPT"), R2)
  BY DEF WriteFrame
<1> HIDE DEF R2, R3, R4, R5
<1>2. \A x, p : Books(kept, d, x) /\ p \in R5(x) => Booked(kept, d, p)
  <2>1. \A x, p : p \in R5(x) =>
          p \in enc28j60_do_bitwise_clr(x, "eir", {"TXIF"}) \/
          \E a \in enc28j60_do_bitwise_clr(x, "eir", {"TXIF"}) : p \in enc28j60_do_bitwise_set(a.dev, "eie", {"TXIE"})
    BY DEF Then, R5
  <2> QED
    BY <2>1, FlagsBooked, RegistersAre, BookedDevice DEF Registers, FlagsOf
<1>3. \A x, p : Books(kept, d, x) /\ p \in R4(x) => Booked(kept, d, p)
  <2>1. \A x, p : p \in R4(x) =>
          p \in enc28j60_do_memory_write(x) \/
          \E a \in enc28j60_do_memory_write(x) : p \in R5(a.dev)
    BY DEF Then, R4
  <2> QED
    BY <2>1, <1>2, BufferBooked, RegistersAre, BookedDevice DEF Registers, FlagsOf
<1>4. \A x, p : Books(kept, d, x) /\ p \in R3(x) => Booked(kept, d, p)
  <2>1. \A x, p : p \in R3(x) =>
          p \in enc28j60_do_memory_write(x) \/
          \E a \in enc28j60_do_memory_write(x) : p \in R4(a.dev)
    BY DEF Then, R3
  <2> QED
    BY <2>1, <1>3, BufferBooked, RegistersAre, BookedDevice DEF Registers, FlagsOf
<1>5. \A x, p : Books(kept, d, x) /\ p \in R2(x) => Booked(kept, d, p)
  <2>1. \A x, p : p \in R2(x) =>
          p \in TouchPair(x, "ETXND") \/
          \E a \in TouchPair(x, "ETXND") : p \in R3(a.dev)
    BY DEF Then, R2
  <2> QED
    BY <2>1, <1>4, TouchBooked, RegistersAre, BookedDevice DEF Registers, FlagsOf
<1>6. \/ o \in TouchPair(e, "EWRPT")
      \/ \E a \in TouchPair(e, "EWRPT") : o \in R2(a.dev)
  BY <1>1 DEF Then
<1> QED
  BY <1>5, <1>6, TouchBooked, RegistersAre, BookedDevice DEF Registers, FlagsOf

LEMMA StopBooked ==
  ASSUME NEW kept, NEW d, NEW e, Books(kept, d, e), NEW o \in StopMac(e)
  PROVE  Booked(kept, d, o)
<1> DEFINE masks == enc28j60_do_bitwise_clr(e, "eie", {"PKTIE", "INTIE", "TXIE", "TXERIE"})
           Second(x) == {IF p.ok THEN p ELSE [p EXCEPT !.dev = Slip(@, "stop")]
                           : p \in enc28j60_do_bitwise_clr(x, "econ1", {"RXEN"})}
<1>1. o \in masks \/ \E a \in masks : o \in Second(a.dev)
  BY DEF StopMac, Then
<1>2. \A a \in masks : Booked(kept, d, a)
  BY FlagsBooked DEF FlagsOf
<1>3. ASSUME NEW x, Books(kept, d, x), NEW q \in Second(x)
      PROVE  Booked(kept, d, q)
  <2>1. PICK p \in enc28j60_do_bitwise_clr(x, "econ1", {"RXEN"}) :
          q = IF p.ok THEN p ELSE [p EXCEPT !.dev = Slip(@, "stop")]
    BY <1>3
  <2>2. Booked(kept, d, p)
    BY <1>3, FlagsBooked DEF FlagsOf
  <2>3. q = p \/ (q = [p EXCEPT !.dev = Slip(p.dev, "stop")])
    BY <2>1
  <2>4. Books(kept, d, Slip(p.dev, "stop"))
    BY <2>2, SlipBooks DEF Booked, Books
  <2>5. Slip(p.dev, "stop").faults = p.dev.faults
    BY DEF Slip
  <2> QED
    BY <2>2, <2>3, <2>4, <2>5 DEF Booked, IsOutcome
<1> HIDE DEF masks, Second
<1> QED
  BY <1>1, <1>2, <1>3, BookedDevice

(* The task, but for what it reads. *)
LEMMA ClearedBooked ==
  ASSUME NEW kept, NEW d, NEW e, Books(kept, d, e),
         NEW o \in ClearTransmitted(e)
  PROVE  Booked(kept, d, o)
<1>1. \/ o \in enc28j60_do_bitwise_clr(e, "eir", {"TXIF"})
      \/ \E a \in enc28j60_do_bitwise_clr(e, "eir", {"TXIF"}) : o \in enc28j60_do_bitwise_clr(a.dev, "eie", {"TXIE"})
  BY DEF ClearTransmitted, Then
<1> QED
  BY <1>1, RegistersAre, BookedDevice, FlagsBooked DEF Registers, FlagsOf

LEMMA RetransmitBooked ==
  ASSUME NEW kept, NEW d, NEW e, Books(kept, d, e),
         NEW o \in Retransmit(e)
  PROVE  Booked(kept, d, o)
<1> DEFINE R2(x) == Then(enc28j60_do_bitwise_set(x, "eie", {"INTIE"}), LAMBDA y : enc28j60_do_bitwise_set(y, "econ1", {"TXRTS"}))
<1>1. o \in Then(enc28j60_do_bitwise_clr(e, "eir", {"TXIF"}), R2)
  BY DEF Retransmit
<1> HIDE DEF R2
<1>2. \A x, p : Books(kept, d, x) /\ p \in R2(x) => Booked(kept, d, p)
  <2>1. \A x, p : p \in R2(x) =>
          p \in enc28j60_do_bitwise_set(x, "eie", {"INTIE"}) \/
          \E a \in enc28j60_do_bitwise_set(x, "eie", {"INTIE"}) : p \in enc28j60_do_bitwise_set(a.dev, "econ1", {"TXRTS"})
    BY DEF Then, R2
  <2> QED
    BY <2>1, FlagsBooked, RegistersAre, BookedDevice DEF Registers, FlagsOf
<1>3. \/ o \in enc28j60_do_bitwise_clr(e, "eir", {"TXIF"})
      \/ \E a \in enc28j60_do_bitwise_clr(e, "eir", {"TXIF"}) : o \in R2(a.dev)
  BY <1>1 DEF Then
<1> QED
  BY <1>2, <1>3, FlagsBooked, RegistersAre, BookedDevice DEF Registers, FlagsOf

LEMMA ResetBooked ==
  ASSUME NEW kept, NEW d, NEW e, Books(kept, d, e), NEW o \in ResetTransmitter(e)
  PROVE  Booked(kept, d, o)
<1> DEFINE Quiet(x) == [x EXCEPT !["econ1"] = x.econ1 \ {"TXRTS"}]
           R2(x) == Then(enc28j60_do_bitwise_clr(Quiet(x), "econ1", {"TXRST"}),
                         LAMBDA y : enc28j60_do_bitwise_clr(y, "eir", {"TXERIF"}))
<1>1. o \in Then(enc28j60_do_bitwise_set(e, "econ1", {"TXRST"}), R2)
  BY DEF ResetTransmitter
<1>2. \A x : Books(kept, d, x) => Books(kept, d, Quiet(x))
  <2> SUFFICES ASSUME NEW x, Books(kept, d, x) PROVE Books(kept, d, Quiet(x))
    OBVIOUS
  <2>1. x.econ1 \ {"TXRTS"} \subseteq FlagsOf("econ1")
    BY DEF FlagsOf, Books, Ledger, Typed
  <2> QED
    BY <2>1, FlagBooks
<1> HIDE DEF Quiet, R2
<1>3. \A x, p : Books(kept, d, x) /\ p \in R2(x) => Booked(kept, d, p)
  <2>1. \A x, p : p \in R2(x) =>
          p \in enc28j60_do_bitwise_clr(Quiet(x), "econ1", {"TXRST"}) \/
          \E a \in enc28j60_do_bitwise_clr(Quiet(x), "econ1", {"TXRST"}) :
            p \in enc28j60_do_bitwise_clr(a.dev, "eir", {"TXERIF"})
    BY DEF Then, R2
  <2> QED
    BY <1>2, <2>1, FlagsBooked, BookedDevice DEF FlagsOf
<1>4. \/ o \in enc28j60_do_bitwise_set(e, "econ1", {"TXRST"})
      \/ \E a \in enc28j60_do_bitwise_set(e, "econ1", {"TXRST"}) : o \in R2(a.dev)
  BY <1>1 DEF Then
<1> QED
  BY <1>3, <1>4, FlagsBooked, BookedDevice DEF FlagsOf

(* The status vector is read through ERDPT. *)
LEMMA StatusBooked ==
  ASSUME NEW kept, "ERDPT" \notin kept, NEW d, NEW e, Books(kept, d, e),
         NEW o \in emac_enc28j60_get_tsv(e)
  PROVE  Booked(kept, d, o)
<1>1. \/ o \in WritePair(e, "ERDPT", e.registers["ERDPT"])
      \/ \E a \in WritePair(e, "ERDPT", e.registers["ERDPT"]) : o \in enc28j60_do_memory_read(a.dev)
  BY DEF emac_enc28j60_get_tsv, Then
<1> QED
  BY <1>1, RegistersAre, BookedDevice, PairBooked, MemoryBooked DEF Pointers

LEMMA ErrorBooked ==
  ASSUME NEW kept, "ERDPT" \notin kept, NEW d, NEW e, Books(kept, d, e), NEW late,
         NEW o \in HandleError(e, late)
  PROVE  Booked(kept, d, o)
<1> DEFINE checked == IF LateStatus(e) THEN Then(ResetTransmitter(e), emac_enc28j60_get_tsv)
                      ELSE ResetTransmitter(e)
<1>1. o \in checked \/ \E a \in checked : o \in Retransmit(a.dev)
  BY DEF HandleError, Then
<1>2. ASSUME NEW a \in checked
      PROVE  Booked(kept, d, a)
  <2>1. a \in ResetTransmitter(e) \/ \E b \in ResetTransmitter(e) : a \in emac_enc28j60_get_tsv(b.dev)
    BY DEF Then
  <2> QED
    BY <2>1, ResetBooked, StatusBooked, BookedDevice
<1> HIDE DEF checked
<1> QED
  BY <1>1, <1>2, RetransmitBooked, BookedDevice

LEMMA MasksBooked ==
  ASSUME NEW kept, kept \subseteq Pointers, NEW d, NEW e, Books(kept, d, e), NEW unknown,
         NEW o \in ReadMasks(e, unknown)
  PROVE  Booked(kept, d, o)
<1> DEFINE masked == Then(Transaction(e, e), LAMBDA f : Transaction(f, f))
<1>1. o \in masked \/ \E a \in masked : o \in enc28j60_register_read(a.dev, "EPKTCNT")
  BY DEF ReadMasks, Then
<1>2. ASSUME NEW a \in masked
      PROVE  Booked(kept, d, a)
  <2>1. a \in Transaction(e, e) \/ \E b \in Transaction(e, e) : a \in Transaction(b.dev, b.dev)
    BY DEF Then
  <2> QED
    BY <2>1, TransactionBooked, BookedDevice
<1> HIDE DEF masked
<1> QED
  BY <1>1, <1>2, ReadBooked, BookedDevice, RegistersAre DEF Registers

-------------------------------------------------------------------------------
(* The set-up leads the chip to the packet the driver expects.              *)

Keep == {"ERXRDPT"}
Aligned == enc28j60_next_ptr_align_odd(ENC28J60_BUF_RX_START)

Prepared(d, o) ==
  /\ IsOutcome(o) /\ o.ok \in BOOLEAN
  /\ Books({}, d, o.dev)
  /\ o.dev.registers.ERXRDPT \in {d.registers.ERXRDPT, Aligned}
  /\ o.ok = TRUE => o.dev.lost = TRUE \/ o.dev.registers.ERXRDPT = Aligned

LEMMA KeepIs == Keep \subseteq Pointers /\ Registers \cap Keep = {} /\ {} \subseteq Keep
  BY RegistersAre DEF Keep, Pointers

LEMMA BooksLess ==
  ASSUME NEW kept, NEW less, less \subseteq kept, NEW d, NEW e, Books(kept, d, e)
  PROVE  Books(less, d, e)
  BY DEF Books, Ledger

LEMMA NotPrepared ==
  ASSUME NEW d, NEW o, IsOutcome(o), o.ok = FALSE, Books(Keep, d, o.dev)
  PROVE  Prepared(d, o)
<1>1. Books({}, d, o.dev)
  BY BooksLess
<1>2. o.dev.registers.ERXRDPT = d.registers.ERXRDPT
  BY DEF Books, Ledger, Keep
<1> QED
  BY <1>1, <1>2 DEF Prepared

LEMMA PreparedOn ==
  ASSUME NEW d, NEW a, Prepared(d, a), a.ok = TRUE, NEW o, Booked(Keep, a.dev, o)
  PROVE  Prepared(d, o)
<1>1. Books({}, d, o.dev)
  BY BooksOn, KeepIs DEF Prepared, Booked
<1>2. o.dev.registers.ERXRDPT = a.dev.registers.ERXRDPT /\ (a.dev.lost = TRUE => o.dev.lost = TRUE)
  BY DEF Booked, Books, Ledger, Keep
<1> QED
  BY <1>1, <1>2 DEF Prepared, Booked

LEMMA SetupPrepared ==
  ASSUME NEW d, NEW e, Books(Keep, d, e), NEW o \in enc28j60_setup_default(e)
  PROVE  Prepared(d, o)
<1> DEFINE R6(x) == Then(enc28j60_register_write(x, "MABBIPG", 18), LAMBDA y : TouchPair(y, "MAIPG"))
           R5(x) == Then(enc28j60_register_write(x, "MACON4", 0), R6)
           R4(x) == Then(enc28j60_register_write(x, "MACON3", "half"), R5)
           R3(x) == Then(enc28j60_register_write(x, "MACON1", 0), R4)
           R2(x) == Then(enc28j60_register_write(x, "ERXFCON", 0), R3)
           F(x) == Then(TouchPair(x, "ETXST"), R2)
           Q3(x) == Then(WritePair(x, "ERXRDPT", Aligned), F)
           Q2(x) == Then(TouchPair(x, "ERXND"), Q3)
<1>1. o \in Then(TouchPair(e, "ERXST"), Q2)
  BY DEF enc28j60_setup_default, Aligned
<1> HIDE DEF R2, R3, R4, R5, R6, F, Q2, Q3
<1> DEFINE kept == Keep
<1>0. kept \subseteq Pointers /\ Registers \cap kept = {}
  BY KeepIs
<1> HIDE DEF kept
<1>2. \A c, x, p : Books(kept, c, x) /\ p \in R6(x) => Booked(kept, c, p)
  <2>1. \A x, p : p \in R6(x) =>
          p \in enc28j60_register_write(x, "MABBIPG", 18) \/
          \E a \in enc28j60_register_write(x, "MABBIPG", 18) : p \in TouchPair(a.dev, "MAIPG")
    BY DEF Then, R6
  <2> QED
    BY <1>0, <2>1, WriteBooked, TouchBooked, RegistersAre, BookedDevice DEF Registers, FlagsOf
<1>3. \A c, x, p : Books(kept, c, x) /\ p \in R5(x) => Booked(kept, c, p)
  <2>1. \A x, p : p \in R5(x) =>
          p \in enc28j60_register_write(x, "MACON4", 0) \/
          \E a \in enc28j60_register_write(x, "MACON4", 0) : p \in R6(a.dev)
    BY DEF Then, R5
  <2> QED
    BY <1>0, <2>1, <1>2, WriteBooked, RegistersAre, BookedDevice DEF Registers, FlagsOf
<1>4. \A c, x, p : Books(kept, c, x) /\ p \in R4(x) => Booked(kept, c, p)
  <2>1. \A x, p : p \in R4(x) =>
          p \in enc28j60_register_write(x, "MACON3", "half") \/
          \E a \in enc28j60_register_write(x, "MACON3", "half") : p \in R5(a.dev)
    BY DEF Then, R4
  <2> QED
    BY <1>0, <2>1, <1>3, WriteBooked, RegistersAre, BookedDevice DEF Registers, FlagsOf
<1>5. \A c, x, p : Books(kept, c, x) /\ p \in R3(x) => Booked(kept, c, p)
  <2>1. \A x, p : p \in R3(x) =>
          p \in enc28j60_register_write(x, "MACON1", 0) \/
          \E a \in enc28j60_register_write(x, "MACON1", 0) : p \in R4(a.dev)
    BY DEF Then, R3
  <2> QED
    BY <1>0, <2>1, <1>4, WriteBooked, RegistersAre, BookedDevice DEF Registers, FlagsOf
<1>6. \A c, x, p : Books(kept, c, x) /\ p \in R2(x) => Booked(kept, c, p)
  <2>1. \A x, p : p \in R2(x) =>
          p \in enc28j60_register_write(x, "ERXFCON", 0) \/
          \E a \in enc28j60_register_write(x, "ERXFCON", 0) : p \in R3(a.dev)
    BY DEF Then, R2
  <2> QED
    BY <1>0, <2>1, <1>5, WriteBooked, RegistersAre, BookedDevice DEF Registers, FlagsOf
<1>7. \A c, x, p : Books(kept, c, x) /\ p \in F(x) => Booked(kept, c, p)
  <2>1. \A x, p : p \in F(x) =>
          p \in TouchPair(x, "ETXST") \/
          \E a \in TouchPair(x, "ETXST") : p \in R2(a.dev)
    BY DEF Then, F
  <2> QED
    BY <1>0, <2>1, <1>6, TouchBooked, RegistersAre, BookedDevice DEF Registers
<1>8. ASSUME NEW x, Books(Keep, d, x), NEW p \in Q3(x)
      PROVE  Prepared(d, p)
  <2>1. PICK a \in WritePair(x, "ERXRDPT", Aligned) : p \in IF a.ok THEN F(a.dev) ELSE {a}
    BY <1>8 DEF Then, Q3
  <2>2. Booked({}, d, a) /\ Takes(x, "ERXRDPT", Aligned, a)
    <3>1. Books({}, d, x)
      BY <1>8, KeepIs, BooksLess
    <3>2. "ERXRDPT" \in DOMAIN BankOf /\ "ERXRDPT" \in Pointers
      BY RegistersAre DEF Pointers
    <3> QED
      BY <2>1, <3>1, <3>2, PairBooked
  <2>3. x.registers.ERXRDPT = d.registers.ERXRDPT
    BY <1>8 DEF Books, Ledger, Keep
  <2>4. Prepared(d, a)
    BY <2>2, <2>3 DEF Prepared, Booked, Takes
  <2>5. CASE a.ok = FALSE
    BY <2>1, <2>4, <2>5
  <2>6. CASE a.ok = TRUE
    <3>1. Books(kept, a.dev, a.dev)
      BY <2>2, BooksSelf DEF Booked, Books, Ledger, Sound
    <3>2. Booked(Keep, a.dev, p)
      BY <2>1, <2>6, <3>1, <1>7 DEF kept
    <3> QED
      BY <2>4, <2>6, <3>2, PreparedOn
  <2> QED
    BY <2>2, <2>5, <2>6 DEF Booked
<1>9. ASSUME NEW x, Books(Keep, d, x), NEW p \in Q2(x)
      PROVE  Prepared(d, p)
  <2>1. PICK a \in TouchPair(x, "ERXND") : p \in IF a.ok THEN Q3(a.dev) ELSE {a}
    BY <1>9 DEF Then, Q2
  <2>2. Booked(Keep, d, a)
    BY <1>9, KeepIs, TouchBooked, RegistersAre DEF Registers
  <2> QED
    BY <2>1, <2>2, <1>8, NotPrepared DEF Booked
<1>10. PICK a \in TouchPair(e, "ERXST") : o \in IF a.ok THEN Q2(a.dev) ELSE {a}
  BY <1>1 DEF Then
<1>11. Booked(Keep, d, a)
  BY KeepIs, TouchBooked, RegistersAre DEF Registers
<1> QED
  BY <1>9, <1>10, <1>11, NotPrepared DEF Booked

LEMMA ResetChip ==
  ASSUME NEW d, Sound(d), d.last_bank = NoBank, d.pktcnt = 0, NEW o \in enc28j60_do_reset(d)
  PROVE  Booked(Keep, d, o)
<1> DEFINE e == [d EXCEPT !.bank = 0, !.econ1 = {}, !.eie = {}, !.eir = {}, !.pktcnt = 0]
<1>1. RingFields \subseteq DOMAIN d /\ DOMAIN e = DOMAIN d
  BY DEF Sound, Typed
<1>2. /\ e.last_bank = d.last_bank /\ e.econ1 = {} /\ e.eie = {} /\ e.eir = {} /\ e.pktcnt = 0
      /\ e.arrived = d.arrived /\ e.registers = d.registers
      /\ e.next_packet_ptr = d.next_packet_ptr /\ e.packets_remain = d.packets_remain
      /\ e.freed = d.freed /\ e.faults = d.faults /\ e.lost = d.lost /\ e.slips = d.slips
  BY <1>1 DEF RingFields
<1>3. o \in Transaction(d, e)
  BY DEF enc28j60_do_reset
<1> HIDE DEF e
<1>4. Books(Keep, d, d)
  BY BooksSelf
<1>5. Typed(e)
  BY <1>1, <1>2 DEF Sound, Typed
<1>6. Books(Keep, d, e)
  BY <1>2, <1>4, <1>5 DEF Books, Ledger, Tracked, Located, InPlace
<1> QED
  BY <1>3, <1>4, <1>6, TransactionBooked

LEMMA VerifyBooks ==
  ASSUME NEW d, NEW e, Books(Keep, d, e), NEW o \in enc28j60_verify_id(e)
  PROVE  IsOutcome(o) /\ o.ok \in BOOLEAN /\ Books(Keep, d, o.dev)
<1> DEFINE Known == {IF p.ok THEN [p EXCEPT !.dev.revision = p.dev.revisionID] ELSE p
                      : p \in enc28j60_register_read(e, "EREVID")}
           Answer(r) == {[dev |-> r, ok |-> r.revision \in ENC28J60_REV_B1 .. ENC28J60_REV_B7]}
<1>1. o \in Known \/ \E a \in Known : o \in Answer(a.dev)
  BY DEF enc28j60_verify_id, Then
<1>2. \A a \in Known : Booked(Keep, d, a)
  <2> SUFFICES ASSUME NEW a \in Known PROVE Booked(Keep, d, a)
    OBVIOUS
  <2>1. PICK p \in enc28j60_register_read(e, "EREVID") :
          a = IF p.ok THEN [p EXCEPT !.dev.revision = p.dev.revisionID] ELSE p
    OBVIOUS
  <2>2. Booked(Keep, d, p)
    BY ReadBooked, RegistersAre DEF Registers
  <2>3. Books(Keep, d, [p.dev EXCEPT !["revision"] = p.dev.revisionID])
    BY <2>2, OtherBooks DEF Booked, RingFields
  <2>4. IsOutcome(a) /\ a.ok = p.ok
        /\ (a = p \/ (p.ok = TRUE /\ a.dev = [p.dev EXCEPT !["revision"] = p.dev.revisionID]))
    BY <2>1, <2>2 DEF Booked, IsOutcome
  <2> QED
    BY <2>2, <2>3, <2>4 DEF Booked
<1>3. ASSUME NEW r, NEW p \in Answer(r)
      PROVE  IsOutcome(p) /\ p.ok \in BOOLEAN /\ p.dev = r
  <2> DEFINE known == r.revision \in ENC28J60_REV_B1 .. ENC28J60_REV_B7
  <2>1. p = [dev |-> r, ok |-> known] /\ known \in BOOLEAN
    BY <1>3
  <2> HIDE DEF known
  <2> QED
    BY <2>1 DEF IsOutcome
<1> HIDE DEF Known, Answer
<1> QED
  BY <1>1, <1>2, <1>3 DEF Booked

LEMMA MacInitPrepared ==
  ASSUME NEW d, Sound(d), d.last_bank = NoBank, d.pktcnt = 0, NEW o \in emac_enc28j60_init(d)
  PROVE  Prepared(d, o)
<1> DEFINE R3(x) == Then(enc28j60_setup_default(x), enc28j60_clear_multicast_table)
           R2(x) == Then(enc28j60_verify_id(x), R3)
<1>1. o \in Then(enc28j60_do_reset(d), R2)
  BY DEF emac_enc28j60_init
<1> HIDE DEF R2, R3
<1>2. ASSUME NEW x, Books(Keep, d, x), NEW p \in R3(x)
      PROVE  Prepared(d, p)
  <2>1. PICK a \in enc28j60_setup_default(x) :
          p \in IF a.ok THEN enc28j60_clear_multicast_table(a.dev) ELSE {a}
    BY <1>2 DEF Then, R3
  <2>2. Prepared(d, a)
    BY <1>2, SetupPrepared
  <2>3. CASE a.ok = TRUE
    <3>1. Books(Keep, a.dev, a.dev)
      BY <2>2, BooksSelf DEF Prepared, Books, Ledger, Sound
    <3>2. p \in TouchPair(a.dev, "EHT")
      BY <2>1, <2>3 DEF enc28j60_clear_multicast_table
    <3>3. Booked(Keep, a.dev, p)
      BY <3>1, <3>2, KeepIs, TouchBooked, RegistersAre DEF Registers
    <3> QED
      BY <2>2, <2>3, <3>3, PreparedOn
  <2>4. CASE a.ok = FALSE
    BY <2>1, <2>2, <2>4
  <2> QED
    BY <2>2, <2>3, <2>4 DEF Prepared
<1>3. ASSUME NEW x, Books(Keep, d, x), NEW p \in R2(x)
      PROVE  Prepared(d, p)
  <2>1. PICK a \in enc28j60_verify_id(x) : p \in IF a.ok THEN R3(a.dev) ELSE {a}
    BY <1>3 DEF Then, R2
  <2>2. IsOutcome(a) /\ a.ok \in BOOLEAN /\ Books(Keep, d, a.dev)
    BY <1>3, VerifyBooks
  <2> QED
    BY <1>2, <2>1, <2>2, NotPrepared
<1>4. PICK a \in enc28j60_do_reset(d) : o \in IF a.ok THEN R2(a.dev) ELSE {a}
  BY <1>1 DEF Then
<1>5. Booked(Keep, d, a)
  BY ResetChip
<1> QED
  BY <1>3, <1>4, <1>5, NotPrepared DEF Booked

LEMMA InstallPrepared ==
  ASSUME NEW d, Sound(d), d.last_bank = NoBank, d.pktcnt = 0,
         NEW o \in Then(emac_enc28j60_init(d), enc28j60_init)
  PROVE  Prepared(d, o)
<1>1. PICK a \in emac_enc28j60_init(d) : o \in IF a.ok THEN enc28j60_init(a.dev) ELSE {a}
  BY DEF Then
<1>2. Prepared(d, a)
  BY MacInitPrepared
<1>3. CASE a.ok = TRUE
  <2>1. Books(Keep, a.dev, a.dev)
    BY <1>2, BooksSelf DEF Prepared, Books, Ledger, Sound
  <2>2. Booked(Keep, a.dev, o)
    BY <1>1, <1>3, <2>1, KeepIs, PhyInitBooked
  <2> QED
    BY <1>2, <1>3, <2>2, PreparedOn
<1>4. CASE a.ok = FALSE
  BY <1>1, <1>2, <1>4
<1> QED
  BY <1>2, <1>3, <1>4 DEF Prepared

-------------------------------------------------------------------------------
(* What the chip, the driver and its task know of the ring.                 *)

(* The chip and the driver agree about the ring, as long as nothing has     *)
(* slipped; the packets that have not been freed lie apart.                 *)
DeviceInv(d) ==
  /\ Sound(d)
  /\ d.arrived \in 0 .. Count /\ d.freed \in 0 .. d.arrived /\ d.pktcnt \in 0 .. d.arrived
  /\ d.next_packet_ptr = PacketStart[d.freed + 1]
  /\ d.registers.ERXRDPT \in 0 .. ENC28J60_BUF_RX_END
  /\ Apart(d.freed + 1, d.arrived)
  /\ InPlace(d) => d.pktcnt = d.arrived - d.freed

Behind(d) == d.registers.ERXRDPT = enc28j60_next_ptr_align_odd(PacketStart[d.freed + 1])

LEMMA DeviceKept ==
  ASSUME NEW d, DeviceInv(d), NEW e, Books(Keep, d, e)
  PROVE  /\ DeviceInv(e) /\ e.registers.ERXRDPT = d.registers.ERXRDPT
         /\ Behind(d) => Behind(e)
         /\ InPlace(e) => InPlace(d)
<1>1. /\ Sound(e) /\ e.arrived = d.arrived /\ e.freed = d.freed /\ e.pktcnt = d.pktcnt
      /\ e.next_packet_ptr = d.next_packet_ptr /\ e.registers.ERXRDPT = d.registers.ERXRDPT
      /\ InPlace(e) => InPlace(d)
  BY DEF Books, Ledger, Keep, Sound, InPlace
<1> QED
  BY <1>1 DEF DeviceInv, Behind

LEMMA AlignedIn ==
  ASSUME NEW i \in 1 .. Count + 1
  PROVE  enc28j60_next_ptr_align_odd(PacketStart[i]) \in 0 .. ENC28J60_BUF_RX_END
<1>1. PacketStart[i] \in 0 .. ENC28J60_BUF_RX_END /\ ENC28J60_BUF_RX_END \in Nat
  BY StartIs, RingAssumption
<1> QED
  BY <1>1 DEF enc28j60_next_ptr_align_odd, ENC28J60_BUF_RX_START

(* What the task does with a packet, and what can come of it.               *)

LEMMA PointOutcome ==
  ASSUME NEW d, Sound(d), NEW o \in AllocateAndPoint(d)
  PROVE  /\ Booked(Keep, d, o)
         /\ o.ok = TRUE => o.dev.lost = TRUE \/ o.dev.registers.ERDPT = d.next_packet_ptr
<1>1. PICK a \in Transaction(d, d) :
        o \in IF a.ok THEN WritePair(a.dev, "ERDPT", a.dev.next_packet_ptr) ELSE {a}
  BY DEF AllocateAndPoint, Then
<1>2. Booked(Keep, d, a) /\ a.dev.next_packet_ptr = d.next_packet_ptr
  <2>1. Booked(Keep, d, a)
    BY <1>1, BooksSelf, TransactionBooked
  <2> QED
    BY <2>1 DEF Booked, Books, Ledger
<1>3. CASE a.ok = TRUE
  <2>1. "ERDPT" \in DOMAIN BankOf /\ "ERDPT" \in Pointers /\ "ERDPT" \notin Keep
    BY RegistersAre DEF Pointers, Keep
  <2>2. o \in WritePair(a.dev, "ERDPT", d.next_packet_ptr)
    BY <1>1, <1>2, <1>3
  <2>3. Booked(Keep, d, o) /\ Takes(a.dev, "ERDPT", d.next_packet_ptr, o)
    BY <1>2, <2>1, <2>2, PairBooked, BookedDevice
  <2> QED
    BY <2>3 DEF Takes
<1>4. CASE a.ok = FALSE
  BY <1>1, <1>2, <1>4
<1> QED
  BY <1>2, <1>3, <1>4 DEF Booked

LEMMA HeaderOutcome ==
  ASSUME NEW d, Sound(d), NEW found \in BOOLEAN, found = FALSE => ~InPlace(d),
         NEW o \in HeaderThenPointer(d, found)
  PROVE  /\ Booked(Keep, d, o)
         /\ o.ok = TRUE =>
              \/ o.dev.lost = TRUE
              \/ found = TRUE /\ o.dev.registers.ERDPT =
                   enc28j60_rx_packet_start(d.next_packet_ptr, ENC28J60_RSV_SIZE)
<1> DEFINE Target(e) == enc28j60_rx_packet_start(e.next_packet_ptr, ENC28J60_RSV_SIZE)
           Next2(e) == IF found THEN WritePair(e, "ERDPT", Target(e))
                       ELSE Done([e EXCEPT !.lost = TRUE])
<1>1. PICK a \in enc28j60_do_memory_read(d) : o \in IF a.ok THEN Next2(a.dev) ELSE {a}
  BY DEF HeaderThenPointer, Then
<1>2. Booked(Keep, d, a)
  BY <1>1, BooksSelf, MemoryBooked DEF Keep
<1>3. Target(a.dev) = Target(d) /\ (InPlace(a.dev) => InPlace(d))
  BY <1>2 DEF Booked, Books, Ledger, InPlace
<1> HIDE DEF Target
<1>4. CASE a.ok = TRUE /\ found = TRUE
  <2>1. "ERDPT" \in DOMAIN BankOf /\ "ERDPT" \in Pointers /\ "ERDPT" \notin Keep
    BY RegistersAre DEF Pointers, Keep
  <2>2. o \in WritePair(a.dev, "ERDPT", Target(d))
    BY <1>1, <1>3, <1>4
  <2>3. Booked(Keep, d, o) /\ Takes(a.dev, "ERDPT", Target(d), o)
    BY <1>2, <2>1, <2>2, PairBooked, BookedDevice
  <2> QED
    BY <1>4, <2>3 DEF Takes, Target
<1>5. CASE a.ok = TRUE /\ found = FALSE
  <2> DEFINE e == [a.dev EXCEPT !.lost = TRUE]
  <2>1. o = [dev |-> e, ok |-> TRUE]
    BY <1>1, <1>5 DEF Done
  <2>2. Books(Keep, d, e) /\ e.lost = TRUE
    BY <1>2, <1>3, <1>5, LostBooks DEF Booked
  <2> HIDE DEF e
  <2> QED
    BY <2>1, <2>2 DEF Booked, IsOutcome
<1>6. CASE a.ok = FALSE
  BY <1>1, <1>2, <1>6
<1> QED
  BY <1>2, <1>4, <1>5, <1>6 DEF Booked

(* The packet has been freed, whether or not the chip's count followed.     *)
Moved(d, e, packet) ==
  /\ Sound(e)
  /\ d.faults \in Nat /\ d.faults <= e.faults
  /\ d.slips \subseteq e.slips /\ (d.lost = TRUE => e.lost = TRUE)
  /\ e.arrived = d.arrived /\ e.packets_remain = d.packets_remain
  /\ e.freed = packet /\ e.next_packet_ptr = PacketStart[packet + 1]
  /\ e.registers.ERXRDPT \in
       {d.registers.ERXRDPT, enc28j60_next_ptr_align_odd(PacketStart[packet + 1])}
  /\ e.lost = TRUE \/ e.registers.ERXRDPT = enc28j60_next_ptr_align_odd(PacketStart[packet + 1])

FreedBy(d, packet, o) ==
  /\ IsOutcome(o) /\ Moved(d, o.dev, packet)
  /\ \/ o.ok = TRUE /\ o.dev.pktcnt = IF d.pktcnt > 0 THEN d.pktcnt - 1 ELSE 0
     \/ /\ o.ok = FALSE /\ o.dev.faults > 0
        /\ o.dev.pktcnt = d.pktcnt /\ "count" \in o.dev.slips

LEMMA TakenDown ==
  ASSUME NEW d, NEW f, NEW packet, Moved(d, f, packet), f.pktcnt = d.pktcnt,
         NEW o \in TakeDown(f)
  PROVE  FreedBy(d, packet, o)
<1> DEFINE less == [f EXCEPT !.pktcnt = IF f.pktcnt > 0 THEN f.pktcnt - 1 ELSE 0]
<1>1. PICK p \in Transaction(f, less) : o = IF p.ok THEN p ELSE [p EXCEPT !.dev = Slip(@, "count")]
  BY DEF TakeDown
<1>2. RingFields \subseteq DOMAIN f
  BY DEF Moved, Sound, Typed
<1>3. CASE p = [dev |-> less, ok |-> TRUE]
  <2>1. o = [dev |-> less, ok |-> TRUE]
    BY <1>1, <1>3
  <2>2. /\ less.bank = f.bank /\ less.last_bank = f.last_bank /\ DOMAIN less = DOMAIN f
        /\ less.econ1 = f.econ1 /\ less.eie = f.eie /\ less.eir = f.eir
        /\ less.arrived = f.arrived /\ less.registers = f.registers
        /\ less.next_packet_ptr = f.next_packet_ptr /\ less.packets_remain = f.packets_remain
        /\ less.freed = f.freed /\ less.faults = f.faults /\ less.lost = f.lost /\ less.slips = f.slips
        /\ less.pktcnt = IF d.pktcnt > 0 THEN d.pktcnt - 1 ELSE 0
    BY <1>2 DEF RingFields
  <2> HIDE DEF less
  <2>3. Sound(less)
    BY <2>2 DEF Moved, Sound, Typed, Tracked, Located, InPlace
  <2>4. Moved(d, less, packet)
    BY <2>2, <2>3 DEF Moved
  <2> QED
    BY <2>1, <2>2, <2>4 DEF FreedBy, IsOutcome
<1>4. CASE MayFail(f) /\ p = [dev |-> Faulty(f), ok |-> FALSE]
  <2> DEFINE g == Slip(Faulty(f), "count")
  <2>1. o = [dev |-> g, ok |-> FALSE]
    BY <1>1, <1>4
  <2>2. Books(Pointers, f, f)
    BY BooksSelf DEF Moved
  <2>3. Books(Pointers, f, Faulty(f)) /\ Faulty(f).faults > 0
    BY <1>4, <2>2, FaultBooks DEF Books
  <2>4. Books(Pointers, f, g) /\ "count" \in g.slips /\ g.faults = Faulty(f).faults
    <3>1. Books(Pointers, f, g) /\ "count" \in g.slips
      BY <2>3, SlipBooks DEF Books
    <3>2. g.faults = Faulty(f).faults
      BY DEF Slip
    <3> QED
      BY <3>1, <3>2
  <2> HIDE DEF g
  <2>5. /\ Sound(g) /\ f.faults <= g.faults /\ f.slips \subseteq g.slips
        /\ (f.lost = TRUE => g.lost = TRUE)
        /\ g.arrived = f.arrived /\ g.packets_remain = f.packets_remain /\ g.freed = f.freed
        /\ g.next_packet_ptr = f.next_packet_ptr /\ g.registers.ERXRDPT = f.registers.ERXRDPT
        /\ g.pktcnt = d.pktcnt /\ g.faults \in Nat /\ f.faults \in Nat
    BY <2>4, RingAssumption DEF Books, Ledger, Sound, Typed, Pointers
  <2>6. Moved(d, g, packet)
    BY <2>5 DEF Moved
  <2> QED
    BY <2>1, <2>3, <2>4, <2>5, <2>6 DEF FreedBy, IsOutcome
<1> QED
  BY <1>1, <1>3, <1>4, EitherBooked

LEMMA FreeOutcome ==
  ASSUME NEW d, NEW e, Sound(d), Books(Keep, d, e), NEW packet,
         NEW o \in FreeBufferSpace(e, packet)
  PROVE  (Booked(Keep, d, o) /\ o.ok = FALSE) \/ FreedBy(d, packet, o)
<1> DEFINE pointer == enc28j60_next_ptr_align_odd(PacketStart[packet + 1])
           Freed(w) == [w EXCEPT !.next_packet_ptr = PacketStart[packet + 1], !.freed = packet]
<1>1. PICK a \in WritePair(e, "ERXRDPT", pointer) : o \in IF a.ok THEN TakeDown(Freed(a.dev)) ELSE {a}
  BY DEF FreeBufferSpace, Then
<1>2. Booked({}, d, a) /\ Takes(e, "ERXRDPT", pointer, a)
  <2>1. "ERXRDPT" \in DOMAIN BankOf /\ "ERXRDPT" \in Pointers
    BY RegistersAre DEF Pointers
  <2>2. Books({}, d, e)
    BY KeepIs, BooksLess
  <2> QED
    BY <1>1, <2>1, <2>2, PairBooked
<1>3. e.registers.ERXRDPT = d.registers.ERXRDPT
  BY DEF Books, Ledger, Keep
<1>4. CASE a.ok = FALSE
  <2>1. o = a /\ a.dev.registers.ERXRDPT = d.registers.ERXRDPT
    BY <1>1, <1>2, <1>3, <1>4 DEF Takes
  <2>2. Booked(Keep, d, a)
    BY <1>2, <2>1 DEF Booked, Books, Ledger, Keep
  <2> QED
    BY <1>4, <2>1, <2>2
<1>5. CASE a.ok = TRUE
  <2> DEFINE w == a.dev
             f == Freed(w)
  <2>1. Books({}, d, w) /\ RingFields \subseteq DOMAIN w
    BY <1>2 DEF Booked, Books, Ledger, Typed
  <2>2. /\ f.bank = w.bank /\ f.last_bank = w.last_bank /\ DOMAIN f = DOMAIN w
        /\ f.econ1 = w.econ1 /\ f.eie = w.eie /\ f.eir = w.eir
        /\ f.arrived = w.arrived /\ f.registers = w.registers
        /\ f.packets_remain = w.packets_remain /\ f.pktcnt = w.pktcnt
        /\ f.faults = w.faults /\ f.lost = w.lost /\ f.slips = w.slips
        /\ f.freed = packet /\ f.next_packet_ptr = PacketStart[packet + 1]
    BY <2>1 DEF RingFields
  <2>3. /\ w.registers.ERXRDPT \in {d.registers.ERXRDPT, pointer}
        /\ w.lost = TRUE \/ w.registers.ERXRDPT = pointer
    BY <1>2, <1>3, <1>5 DEF Takes
  <2>4. o \in TakeDown(f)
    BY <1>1, <1>5
  <2> HIDE DEF f, w, pointer
  <2>5. Sound(f)
    BY <2>1, <2>2 DEF Books, Ledger, Sound, Typed, Tracked, Located, InPlace
  <2>6. Moved(d, f, packet) /\ f.pktcnt = d.pktcnt
    BY <2>1, <2>2, <2>3, <2>5 DEF Moved, Books, Ledger, pointer
  <2> QED
    BY <2>4, <2>6, TakenDown
<1> QED
  BY <1>2, <1>4, <1>5 DEF Booked

LEMMA ContentOutcome ==
  ASSUME NEW d, Sound(d), NEW packet, ~ContentRight(d, packet) => ~InPlace(d),
         NEW o \in ContentThenFree(d, packet)
  PROVE  \/ Booked(Keep, d, o) /\ (o.ok = FALSE \/ o.dev.lost = TRUE)
         \/ FreedBy(d, packet, o)
<1> DEFINE Next2(e) == IF ContentRight(d, packet) THEN FreeBufferSpace(e, packet)
                       ELSE Done([e EXCEPT !.lost = TRUE])
<1>1. PICK a \in enc28j60_do_memory_read(d) : o \in IF a.ok THEN Next2(a.dev) ELSE {a}
  BY DEF ContentThenFree, Then
<1>2. Booked(Keep, d, a)
  BY <1>1, BooksSelf, MemoryBooked DEF Keep
<1>3. CASE a.ok = TRUE /\ ContentRight(d, packet)
  BY <1>1, <1>2, <1>3, FreeOutcome, BookedDevice
<1>4. CASE a.ok = TRUE /\ ~ContentRight(d, packet)
  <2> DEFINE e == [a.dev EXCEPT !.lost = TRUE]
  <2>1. o = [dev |-> e, ok |-> TRUE]
    BY <1>1, <1>4 DEF Done
  <2>2. ~InPlace(a.dev)
    BY <1>2, <1>4 DEF Booked, Books, Ledger, InPlace
  <2>3. Books(Keep, d, e) /\ e.lost = TRUE
    BY <1>2, <2>2, LostBooks DEF Booked
  <2> HIDE DEF e
  <2> QED
    BY <2>1, <2>3 DEF Booked, IsOutcome
<1>5. CASE a.ok = FALSE
  BY <1>1, <1>2, <1>5
<1> QED
  BY <1>2, <1>3, <1>4, <1>5 DEF Booked

(* The count has been read, or packets_remain stands.                       *)
CountRead(d, o) ==
  /\ IsOutcome(o) /\ o.ok \in BOOLEAN /\ Sound(o.dev)
  /\ d.faults \in Nat /\ d.faults <= o.dev.faults /\ (o.ok = FALSE => o.dev.faults > 0)
  /\ d.slips \subseteq o.dev.slips /\ (d.lost = TRUE => o.dev.lost = TRUE)
  /\ o.dev.arrived = d.arrived /\ o.dev.freed = d.freed /\ o.dev.pktcnt = d.pktcnt
  /\ o.dev.next_packet_ptr = d.next_packet_ptr
  /\ o.dev.registers.ERXRDPT = d.registers.ERXRDPT
  /\ IF o.ok = TRUE THEN o.dev.packets_remain = (d.pktcnt > 0)
     ELSE o.dev.packets_remain = TRUE => "count" \in o.dev.slips

LEMMA CountOutcome ==
  ASSUME NEW d, Sound(d), NEW o \in ReadCount(d)
  PROVE  CountRead(d, o)
<1>1. PICK c \in enc28j60_register_read(d, "EPKTCNT") :
        o = IF c.ok THEN [c EXCEPT !.dev.packets_remain = d.pktcnt > 0]
            ELSE IF d.packets_remain THEN [c EXCEPT !.dev = Slip(@, "count")] ELSE c
  BY DEF ReadCount
<1>2. Booked(Pointers, d, c)
  BY <1>1, BooksSelf, ReadBooked, RegistersAre DEF Registers
<1>3. d.packets_remain \in BOOLEAN /\ c.dev.packets_remain = d.packets_remain /\ c.ok \in BOOLEAN
      /\ RingFields \subseteq DOMAIN c.dev /\ {"dev", "ok"} \subseteq DOMAIN c
  BY <1>2 DEF Sound, Typed, Booked, Books, Ledger, IsOutcome
<1>4. CASE c.ok = TRUE
  <2> DEFINE some == d.pktcnt > 0
             e == [c.dev EXCEPT !.packets_remain = some]
  <2>1. some \in BOOLEAN
    OBVIOUS
  <2> HIDE DEF some
  <2>2. IsOutcome(o) /\ o.dev = e /\ o.ok = TRUE
    BY <1>1, <1>3, <1>4 DEF IsOutcome, some
  <2>3. /\ e.bank = c.dev.bank /\ e.last_bank = c.dev.last_bank /\ DOMAIN e = DOMAIN c.dev
        /\ e.econ1 = c.dev.econ1 /\ e.eie = c.dev.eie /\ e.eir = c.dev.eir
        /\ e.arrived = c.dev.arrived /\ e.registers = c.dev.registers
        /\ e.next_packet_ptr = c.dev.next_packet_ptr /\ e.freed = c.dev.freed
        /\ e.faults = c.dev.faults /\ e.lost = c.dev.lost /\ e.slips = c.dev.slips
        /\ e.pktcnt = c.dev.pktcnt /\ e.packets_remain = some
    BY <1>3 DEF RingFields
  <2> HIDE DEF e
  <2>4. Sound(e)
    BY <1>2, <2>1, <2>3 DEF Booked, Books, Ledger, Sound, Typed, Tracked, Located, InPlace
  <2> QED
    BY <1>2, <2>2, <2>3, <2>4 DEF CountRead, Booked, Books, Ledger, Pointers, some
<1>5. CASE c.ok = FALSE /\ d.packets_remain = TRUE
  <2> DEFINE e == Slip(c.dev, "count")
  <2>1. IsOutcome(o) /\ o.dev = e /\ o.ok = FALSE
    BY <1>1, <1>3, <1>5 DEF IsOutcome
  <2>2. Books(Pointers, d, e) /\ "count" \in e.slips
    BY <1>2, SlipBooks DEF Booked, Books
  <2>3. e.faults = c.dev.faults
    BY DEF Slip
  <2> HIDE DEF e
  <2> QED
    BY <1>2, <1>5, <2>1, <2>2, <2>3 DEF CountRead, Booked, Books, Ledger, Pointers, Sound
<1>6. CASE c.ok = FALSE /\ d.packets_remain = FALSE
  <2>1. o = c
    BY <1>1, <1>6
  <2> QED
    BY <1>2, <1>3, <1>6, <2>1 DEF CountRead, Booked, Books, Ledger, Pointers, Sound
<1> QED
  BY <1>3, <1>4, <1>5, <1>6

-------------------------------------------------------------------------------
(* The invariant of the receive loop.                                       *)

(* The task is on its way with the packet the driver's place says, and reads *)
(* where it lies, as long as nothing has slipped.                           *)
ReceiveInv ==
  /\ {"pc", "status", "packet"} \subseteq DOMAIN task
  /\ dev.lost = FALSE =>
       /\ task.pc = "content" => task.packet = dev.freed + 1 /\ dev.freed < dev.arrived
       /\ task.pc = "count" => task.packet = dev.freed
       /\ InPlace(dev) =>
            /\ task.pc \in {"malloc", "header"} => dev.freed < dev.arrived
            /\ task.pc # "count" /\ dev.packets_remain = TRUE => dev.freed < dev.arrived
            /\ task.pc = "header" => dev.registers.ERDPT = dev.next_packet_ptr
            /\ task.pc = "content" =>
                 dev.registers.ERDPT = enc28j60_rx_packet_start(dev.next_packet_ptr, ENC28J60_RSV_SIZE)

(* The stack has been handed what has been freed, but for what a failure    *)
(* has kept from it and the packet in hand.                                 *)
HandedInv ==
  /\ stack \in 0 .. Count
  /\ dev.lost = FALSE =>
       /\ stack <= dev.freed
       /\ task.pc = "count" => stack < dev.freed
       /\ dev.faults = 0 => stack = IF task.pc = "count" THEN dev.freed - 1 ELSE dev.freed

PlaceInv == DeviceInv(dev) /\ ReceiveInv /\ HandedInv

Placed(d) == Behind(d) \/ d.lost = TRUE

LEMMA BecomesBooks ==
  ASSUME NEW e, Sound(e), Becomes(e)
  PROVE  Books(Pointers, e, dev') /\ dev'.slips = e.slips
<1> DEFINE n == e.notified \/ (Asserted(e) /\ ~Asserted(dev))
<1>1. dev' = [e EXCEPT !["notified"] = n]
  BY DEF Becomes
<1>2. Books(Pointers, e, e)
  BY BooksSelf
<1>3. RingFields \subseteq DOMAIN e
  BY DEF Sound, Typed
<1> HIDE DEF n
<1>4. dev'.slips = e.slips
  BY <1>1, <1>3 DEF RingFields
<1> QED
  BY <1>1, <1>2, <1>4, OtherBooks DEF RingFields

LEMMA BecomesOn ==
  ASSUME NEW kept, kept \subseteq Pointers, NEW e, Books(kept, dev, e), Becomes(e)
  PROVE  /\ Books(kept, dev, dev') /\ e.faults <= dev'.faults /\ dev'.slips = e.slips
         /\ e.lost = TRUE => dev'.lost = TRUE
         /\ dev'.registers.ERDPT = e.registers.ERDPT
<1>1. Sound(e)
  BY DEF Books, Ledger, Sound
<1>2. Books(Pointers, e, dev') /\ dev'.slips = e.slips
  BY <1>1, BecomesBooks
<1>3. Books(kept, dev, dev')
  BY <1>2, BooksOn
<1>4. e.faults <= dev'.faults /\ (e.lost = TRUE => dev'.lost = TRUE)
  BY <1>2 DEF Books, Ledger
<1>5. dev'.registers.ERDPT = e.registers.ERDPT
  BY <1>2 DEF Books, Ledger, Pointers
<1> QED
  BY <1>2, <1>3, <1>4, <1>5

LEMMA BooksFacts ==
  ASSUME DeviceInv(dev), Books(Keep, dev, dev')
  PROVE  /\ DeviceInv(dev') /\ (Placed(dev) => Placed(dev'))
         /\ dev'.arrived = dev.arrived /\ dev'.freed = dev.freed /\ dev'.pktcnt = dev.pktcnt
         /\ dev'.next_packet_ptr = dev.next_packet_ptr /\ dev'.packets_remain = dev.packets_remain
         /\ dev'.faults = 0 => dev.faults = 0
         /\ dev'.lost = FALSE => dev.lost = FALSE
         /\ InPlace(dev') => InPlace(dev)
         /\ dev.freed \in Nat /\ dev.arrived \in Nat /\ dev.lost \in BOOLEAN
<1>1. DeviceInv(dev') /\ (Behind(dev) => Behind(dev')) /\ (InPlace(dev') => InPlace(dev))
  BY DeviceKept
<1>2. /\ dev'.arrived = dev.arrived /\ dev'.freed = dev.freed /\ dev'.pktcnt = dev.pktcnt
      /\ dev'.next_packet_ptr = dev.next_packet_ptr /\ dev'.packets_remain = dev.packets_remain
      /\ dev.lost = TRUE => dev'.lost = TRUE
      /\ dev.faults \in Nat /\ dev.faults <= dev'.faults /\ Typed(dev')
  BY DEF Books, Ledger
<1>3. dev.lost \in BOOLEAN /\ dev'.lost \in BOOLEAN /\ dev'.faults \in Nat
  BY <1>2, RingAssumption DEF DeviceInv, Sound, Typed
<1>4. dev.freed \in Nat /\ dev.arrived \in Nat
  BY RingIs DEF DeviceInv
<1> QED
  BY <1>1, <1>2, <1>3, <1>4 DEF Placed

(* Another thread than the task, or the set-up. *)
LEMMA OthersStep ==
  ASSUME PlaceInv, Books(Keep, dev, dev'), UNCHANGED <<task, stack>>,
         task.pc \in {"header", "content"} =>
           ~InPlace(dev') \/ dev'.registers.ERDPT = dev.registers.ERDPT
  PROVE  PlaceInv' /\ (Placed(dev) => Placed(dev'))
<1>1. DeviceInv(dev) /\ ReceiveInv /\ HandedInv
  BY DEF PlaceInv
<1>2. /\ DeviceInv(dev') /\ (Placed(dev) => Placed(dev'))
      /\ dev'.arrived = dev.arrived /\ dev'.freed = dev.freed
      /\ dev'.next_packet_ptr = dev.next_packet_ptr /\ dev'.packets_remain = dev.packets_remain
      /\ dev'.faults = 0 => dev.faults = 0
      /\ dev'.lost = FALSE => dev.lost = FALSE
      /\ InPlace(dev') => InPlace(dev)
  BY <1>1, BooksFacts
<1>3. ReceiveInv'
  BY <1>1, <1>2 DEF ReceiveInv
<1>4. HandedInv'
  BY <1>1, <1>2 DEF HandedInv
<1> QED
  BY <1>2, <1>3, <1>4 DEF PlaceInv

(* A step of the task that frees nothing and counts nothing. *)
LEMMA TaskMoves ==
  ASSUME PlaceInv, dev.lost = FALSE, Books(Keep, dev, dev'), stack' = stack, task.pc # "count",
         {"pc", "status", "packet"} \subseteq DOMAIN task', task'.pc # "count",
         task'.pc = "content" => dev'.lost = TRUE \/
           (task'.packet = dev.freed + 1 /\ dev.freed < dev.arrived),
         InPlace(dev') => (task'.pc \in {"malloc", "header"} => dev.freed < dev.arrived),
         task'.pc = "header" =>
           dev'.lost = TRUE \/ dev'.registers.ERDPT = dev.next_packet_ptr,
         task'.pc = "content" => dev'.lost = TRUE \/
           dev'.registers.ERDPT = enc28j60_rx_packet_start(dev.next_packet_ptr, ENC28J60_RSV_SIZE)
  PROVE  PlaceInv' /\ (Placed(dev) => Placed(dev'))
<1>1. DeviceInv(dev) /\ ReceiveInv /\ HandedInv
  BY DEF PlaceInv
<1>2. /\ DeviceInv(dev') /\ (Placed(dev) => Placed(dev'))
      /\ dev'.arrived = dev.arrived /\ dev'.freed = dev.freed
      /\ dev'.next_packet_ptr = dev.next_packet_ptr /\ dev'.packets_remain = dev.packets_remain
      /\ dev'.faults = 0 => dev.faults = 0
      /\ InPlace(dev') => InPlace(dev)
  BY <1>1, BooksFacts
<1>3. ReceiveInv'
  BY <1>1, <1>2 DEF ReceiveInv
<1>4. HandedInv'
  BY <1>1, <1>2 DEF HandedInv
<1> QED
  BY <1>2, <1>3, <1>4 DEF PlaceInv

(* A packet freed.                                                          *)
LEMMA FreedDevice ==
  ASSUME NEW d, DeviceInv(d), d.freed < d.arrived, NEW o, FreedBy(d, d.freed + 1, o)
  PROVE  DeviceInv(o.dev) /\ Placed(o.dev)
<1> DEFINE e == o.dev
           packet == d.freed + 1
<1>1. /\ Count \in Nat /\ d.arrived \in 0 .. Count /\ d.freed \in 0 .. d.arrived
      /\ d.pktcnt \in 0 .. d.arrived
  BY RingIs DEF DeviceInv
<1>2. packet \in 1 .. Count /\ d.arrived \in packet .. Count /\ packet + 1 \in 1 .. Count + 1
      /\ packet \in 0 .. d.arrived
  BY <1>1
<1>3. Moved(d, e, packet)
  BY DEF FreedBy
<1>4. Apart(packet + 1, d.arrived)
  BY <1>2, FreedApart DEF DeviceInv
<1>5. enc28j60_next_ptr_align_odd(PacketStart[packet + 1]) \in 0 .. ENC28J60_BUF_RX_END
  BY <1>2, AlignedIn
<1>6. e.registers.ERXRDPT \in 0 .. ENC28J60_BUF_RX_END
  BY <1>3, <1>5 DEF Moved, DeviceInv
<1>7. e.pktcnt \in 0 .. d.arrived
  BY <1>1 DEF FreedBy
<1>8. InPlace(e) => e.pktcnt = d.arrived - packet
  <2>1. SUFFICES ASSUME InPlace(e) PROVE e.pktcnt = d.arrived - packet
    OBVIOUS
  <2>2. "count" \notin e.slips /\ InPlace(d)
    BY <1>3, <2>1 DEF Moved, InPlace, Lossy
  <2>3. d.pktcnt = d.arrived - d.freed
    BY <2>2 DEF DeviceInv
  <2>4. e.pktcnt = IF d.pktcnt > 0 THEN d.pktcnt - 1 ELSE 0
    BY <2>2 DEF FreedBy
  <2> QED
    BY <1>1, <2>3, <2>4
<1> HIDE DEF packet, e
<1>9. DeviceInv(e)
  BY <1>2, <1>3, <1>4, <1>6, <1>7, <1>8 DEF Moved, DeviceInv
<1>10. Placed(e)
  BY <1>3 DEF Moved, Placed, Behind
<1> QED
  BY <1>9, <1>10 DEF e

LEMMA CountedDevice ==
  ASSUME NEW d, DeviceInv(d), NEW o, CountRead(d, o)
  PROVE  DeviceInv(o.dev) /\ (Placed(d) => Placed(o.dev))
<1>1. /\ Sound(o.dev) /\ o.dev.arrived = d.arrived /\ o.dev.freed = d.freed
      /\ o.dev.pktcnt = d.pktcnt /\ o.dev.next_packet_ptr = d.next_packet_ptr
      /\ o.dev.registers.ERXRDPT = d.registers.ERXRDPT /\ (InPlace(o.dev) => InPlace(d))
      /\ (d.lost = TRUE => o.dev.lost = TRUE)
  BY DEF CountRead, InPlace
<1> QED
  BY <1>1 DEF DeviceInv, Placed, Behind

-------------------------------------------------------------------------------
(* The steps of the task.                                                   *)

LEMMA PlaceSound ==
  ASSUME PlaceInv
  PROVE  /\ Sound(dev) /\ DeviceInv(dev) /\ ReceiveInv /\ HandedInv
         /\ {"pc", "status", "packet"} \subseteq DOMAIN task
  BY DEF PlaceInv, DeviceInv, ReceiveInv

(* A step of the task outside the receive loop. *)
LEMMA PlainStep ==
  ASSUME PlaceInv, dev.lost = FALSE, task.pc # "count",
         NEW e, Books(Keep, dev, e), Becomes(e), stack' = stack,
         {"pc", "status", "packet"} \subseteq DOMAIN task',
         task'.pc \notin {"malloc", "header", "content", "count"}
  PROVE  PlaceInv' /\ (Placed(dev) => Placed(dev'))
<1>1. Books(Keep, dev, dev')
  BY BecomesOn, KeepIs
<1> QED
  BY <1>1, TaskMoves

LEMMA WakePlace ==
  ASSUME PlaceInv, dev.lost = FALSE, Wake
  PROVE  PlaceInv' /\ (Placed(dev) => Placed(dev'))
<1> DEFINE noted == [dev EXCEPT !["notified"] = FALSE]
<1>1. PICK o \in enc28j60_do_bitwise_clr(noted, "eie", {"INTIE"}) :
        /\ Becomes(o.dev) /\ stack' = stack /\ task.pc = "wait"
        /\ task' = [task EXCEPT !.pc = IF o.ok THEN "status" ELSE "wait"]
  BY DEF Wake, TaskStep, Goto
<1>2. Books(Keep, dev, noted)
  <2>1. Books(Keep, dev, dev)
    BY PlaceSound, BooksSelf
  <2> QED
    BY <2>1, OtherBooks DEF RingFields
<1> HIDE DEF noted
<1>3. Booked(Keep, dev, o)
  BY <1>1, <1>2, FlagsBooked DEF FlagsOf
<1>4. {"pc", "status", "packet"} \subseteq DOMAIN task' /\ task'.pc \in {"status", "wait"}
  BY <1>1, PlaceSound
<1> QED
  BY <1>1, <1>3, <1>4, PlainStep, BookedDevice

(* A packet is served only if its flag or its count was seen. *)
LEMMA FoundPackets ==
  ASSUME NEW flags \in {Sources(dev), Sources(dev) \ {"PKTIF"}},
         dev.eir \subseteq {"TXIF", "TXERIF"},
         "PKTIF" \in FromFlagsAndCount(flags \cap Enabled(dev))
  PROVE  dev.pktcnt > 0
  BY DEF FromFlagsAndCount, Sources

LEMMA ReadStatusPlace ==
  ASSUME PlaceInv, dev.lost = FALSE, ReadStatus
  PROVE  PlaceInv' /\ (Placed(dev) => Placed(dev'))
<1>1. PICK flags \in {Sources(dev), Sources(dev) \ {"PKTIF"}} :
        \E o \in ReadMasks(dev, flags \cap Enabled(dev) = {}) :
          /\ Becomes(o.dev) /\ stack' = stack /\ task.pc = "status"
          /\ task' = [task EXCEPT !.pc = IF o.ok THEN Dispatch(FromFlagsAndCount(flags \cap Enabled(dev)))
                                            ELSE "end",
                                  !.status = FromFlagsAndCount(flags \cap Enabled(dev))]
  BY DEF ReadStatus
<1> DEFINE found == FromFlagsAndCount(flags \cap Enabled(dev))
           unknown == flags \cap Enabled(dev) = {}
<1>2. PICK o \in ReadMasks(dev, unknown) :
        /\ Becomes(o.dev) /\ stack' = stack /\ task.pc = "status"
        /\ task' = [task EXCEPT !.pc = IF o.ok THEN Dispatch(found) ELSE "end", !.status = found]
  BY <1>1
<1>3. "PKTIF" \in found => dev.pktcnt > 0
  BY PlaceSound, FoundPackets DEF Sound, Typed
<1> HIDE DEF found, unknown
<1>4. Booked(Keep, dev, o)
  <2>1. Books(Keep, dev, dev)
    BY PlaceSound, BooksSelf
  <2> QED
    BY <1>2, <2>1, KeepIs, MasksBooked
<1>5. Books(Keep, dev, dev')
  BY <1>2, <1>4, BecomesOn, KeepIs DEF Booked
<1>6. /\ {"pc", "status", "packet"} \subseteq DOMAIN task'
      /\ task'.pc = Dispatch(found) \/ task'.pc = "end"
  BY <1>2, PlaceSound
<1>7. task'.pc \in {"malloc", "txerr", "txif", "end"} /\ (task'.pc = "malloc" => dev.pktcnt > 0)
  BY <1>3, <1>6, DispatchGoes
<1>8. InPlace(dev') /\ task'.pc = "malloc" => dev.freed < dev.arrived
  <2>1. SUFFICES ASSUME InPlace(dev'), task'.pc = "malloc" PROVE dev.freed < dev.arrived
    OBVIOUS
  <2>2. InPlace(dev)
    BY <1>5, <2>1, PlaceSound, BooksFacts
  <2>3. dev.pktcnt = dev.arrived - dev.freed /\ dev.freed \in Nat /\ dev.arrived \in Nat
    BY <2>2, PlaceSound, RingIs DEF DeviceInv
  <2> QED
    BY <1>7, <2>1, <2>3
<1> QED
  BY <1>2, <1>5, <1>6, <1>7, <1>8, TaskMoves

(* Where the loop goes on. *)
LEMMA GoesOn ==
  ASSUME NEW d
  PROVE  /\ AfterPacket(d) \in {"malloc", "txerr", "txif", "end"}
         /\ AfterPacket(d) = "malloc" => d.packets_remain
<1>1. Dispatch(task.status \ {"PKTIF"}) \in {"txerr", "txif", "end"}
  BY DispatchGoes
<1> QED
  BY <1>1 DEF AfterPacket

LEMMA RemainingPackets ==
  ASSUME PlaceInv, dev.lost = FALSE, task.pc # "count", Books(Keep, dev, dev'), InPlace(dev'),
         dev.packets_remain = TRUE
  PROVE  dev.freed < dev.arrived
<1>1. InPlace(dev)
  BY PlaceSound, BooksFacts
<1> QED
  BY <1>1, PlaceSound DEF ReceiveInv

LEMMA PointPlace ==
  ASSUME PlaceInv, dev.lost = FALSE, PointAtHeader
  PROVE  PlaceInv' /\ (Placed(dev) => Placed(dev'))
<1>1. PICK o \in AllocateAndPoint(dev) :
        /\ Becomes(o.dev) /\ stack' = stack /\ task.pc = "malloc"
        /\ task' = [task EXCEPT !.pc = IF o.ok THEN "header" ELSE AfterPacket(dev)]
  BY DEF PointAtHeader, TaskStep, Goto
<1>2. Booked(Keep, dev, o)
      /\ (o.ok = TRUE => o.dev.lost = TRUE \/ o.dev.registers.ERDPT = dev.next_packet_ptr)
  BY <1>1, PlaceSound, PointOutcome
<1>3. /\ Books(Keep, dev, dev') /\ o.ok \in BOOLEAN
      /\ o.dev.lost = TRUE => dev'.lost = TRUE
      /\ dev'.registers.ERDPT = o.dev.registers.ERDPT
  BY <1>1, <1>2, BecomesOn, KeepIs DEF Booked
<1>4. {"pc", "status", "packet"} \subseteq DOMAIN task'
      /\ task'.pc = IF o.ok THEN "header" ELSE AfterPacket(dev)
  BY <1>1, PlaceSound
<1>5. /\ AfterPacket(dev) \in {"malloc", "txerr", "txif", "end"}
      /\ AfterPacket(dev) = "malloc" => dev.packets_remain = TRUE
  <2>1. dev.packets_remain \in BOOLEAN
    BY PlaceSound DEF Sound, Typed
  <2>2. AfterPacket(dev) = "malloc" => dev.packets_remain
    BY GoesOn
  <2> QED
    BY <2>1, <2>2, GoesOn
<1>6. InPlace(dev') => dev.freed < dev.arrived
  <2>1. InPlace(dev') => InPlace(dev)
    BY <1>3, PlaceSound, BooksFacts
  <2> QED
    BY <1>1, <2>1, PlaceSound DEF ReceiveInv
<1>7. task'.pc \in {"header", "malloc", "txerr", "txif", "end"} /\ (task'.pc = "header" => o.ok = TRUE)
  BY <1>3, <1>4, <1>5
<1>8. task'.pc = "header" => dev'.lost = TRUE \/ dev'.registers.ERDPT = dev.next_packet_ptr
  BY <1>2, <1>3, <1>7
<1> QED
  BY <1>1, <1>3, <1>4, <1>6, <1>7, <1>8, TaskMoves

LEMMA HeaderPlace ==
  ASSUME PlaceInv, dev.lost = FALSE, ReadHeader
  PROVE  PlaceInv' /\ (Placed(dev) => Placed(dev'))
<1> DEFINE packet == PacketAt(dev, dev.registers.ERDPT)
           found == packet = dev.freed + 1 /\ packet <= dev.arrived
<1>1. PICK o \in HeaderThenPointer(dev, found) :
        /\ Becomes(o.dev) /\ stack' = stack /\ task.pc = "header"
        /\ task' = [task EXCEPT !.pc = IF o.ok THEN "content" ELSE AfterPacket(o.dev),
                                !.packet = packet]
  BY DEF ReadHeader
<1>2. found = FALSE => ~InPlace(dev)
  <2>1. SUFFICES ASSUME InPlace(dev) PROVE found
    OBVIOUS
  <2>2. dev.freed < dev.arrived /\ dev.registers.ERDPT = PacketStart[dev.freed + 1]
    BY <1>1, <2>1, PlaceSound DEF ReceiveInv, DeviceInv
  <2>3. dev.freed + 1 \in 1 .. Count /\ dev.arrived \in dev.freed + 1 .. Count
    BY <2>2, PlaceSound, RingIs DEF DeviceInv
  <2>4. packet = dev.freed + 1
    BY <2>2, <2>3, PlaceSound, FirstPacket DEF DeviceInv
  <2> QED
    BY <2>2, <2>3, <2>4
<1>3. found \in BOOLEAN
  OBVIOUS
<1>4. found = TRUE => packet = dev.freed + 1 /\ dev.freed < dev.arrived
  <2>1. dev.freed \in Nat /\ dev.arrived \in Nat
    BY PlaceSound, RingIs DEF DeviceInv
  <2> QED
    BY <2>1
<1> HIDE DEF found, packet
<1>5. Booked(Keep, dev, o) /\
      (o.ok = TRUE =>
         \/ o.dev.lost = TRUE
         \/ found = TRUE /\ o.dev.registers.ERDPT =
              enc28j60_rx_packet_start(dev.next_packet_ptr, ENC28J60_RSV_SIZE))
  BY <1>1, <1>2, <1>3, PlaceSound, HeaderOutcome
<1>6. /\ Books(Keep, dev, dev') /\ o.ok \in BOOLEAN
      /\ o.dev.lost = TRUE => dev'.lost = TRUE
      /\ dev'.registers.ERDPT = o.dev.registers.ERDPT
  BY <1>1, <1>5, BecomesOn, KeepIs DEF Booked
<1>7. /\ {"pc", "status", "packet"} \subseteq DOMAIN task' /\ task'.packet = packet
      /\ task'.pc = IF o.ok THEN "content" ELSE AfterPacket(o.dev)
  BY <1>1, PlaceSound
<1>8. /\ AfterPacket(o.dev) \in {"malloc", "txerr", "txif", "end"}
      /\ AfterPacket(o.dev) = "malloc" => dev.packets_remain = TRUE
  <2>1. o.dev.packets_remain = dev.packets_remain /\ dev.packets_remain \in BOOLEAN
    BY <1>5, PlaceSound DEF Booked, Books, Ledger, Sound, Typed
  <2>2. o.dev.packets_remain \in BOOLEAN
    BY <2>1
  <2>3. /\ AfterPacket(o.dev) \in {"malloc", "txerr", "txif", "end"}
        /\ AfterPacket(o.dev) = "malloc" => o.dev.packets_remain
    BY GoesOn
  <2> QED
    BY <2>1, <2>2, <2>3
<1>9. InPlace(dev') => (task'.pc = "malloc" => dev.freed < dev.arrived)
  BY <1>1, <1>6, <1>7, <1>8, RemainingPackets
<1>10. task'.pc \in {"content", "malloc", "txerr", "txif", "end"} /\ (task'.pc = "content" => o.ok = TRUE)
  BY <1>6, <1>7, <1>8
<1>11. task'.pc = "content" => dev'.lost = TRUE \/
         (task'.packet = dev.freed + 1 /\ dev.freed < dev.arrived)
  BY <1>4, <1>5, <1>6, <1>7, <1>10
<1>12. task'.pc = "content" => dev'.lost = TRUE \/
         dev'.registers.ERDPT = enc28j60_rx_packet_start(dev.next_packet_ptr, ENC28J60_RSV_SIZE)
  BY <1>5, <1>6, <1>10
<1> QED
  BY <1>1, <1>6, <1>7, <1>9, <1>10, <1>11, <1>12, TaskMoves

(* The packet in hand is freed, whether or not the chip's count follows.    *)
LEMMA FreePlace ==
  ASSUME PlaceInv, dev.lost = FALSE, FreePacket
  PROVE  PlaceInv' /\ (Placed(dev) => Placed(dev'))
<1> DEFINE packet == task.packet
<1>1. PICK o \in ContentThenFree(dev, packet) :
        /\ Becomes(o.dev) /\ stack' = stack /\ task.pc = "content"
        /\ task' = [task EXCEPT !.pc = IF o.ok THEN "count" ELSE AfterPacket(dev)]
  BY DEF FreePacket, TaskStep, Goto
<1>2. packet = dev.freed + 1 /\ dev.freed < dev.arrived
  BY <1>1, PlaceSound DEF ReceiveInv
<1>3. /\ dev.freed \in Nat /\ dev.arrived \in Nat /\ dev.arrived <= Count /\ Count \in Nat
      /\ stack \in 0 .. Count /\ stack <= dev.freed
      /\ dev.faults = 0 => stack = dev.freed
  <2>1. /\ Count \in Nat /\ dev.arrived \in 0 .. Count /\ dev.freed \in 0 .. dev.arrived
    BY PlaceSound, RingIs DEF DeviceInv
  <2>2. stack \in 0 .. Count /\ stack <= dev.freed /\ (dev.faults = 0 => stack = dev.freed)
    BY <1>1, PlaceSound DEF HandedInv
  <2> QED
    BY <2>1, <2>2
<1>4. ~ContentRight(dev, packet) => ~InPlace(dev)
  <2>1. SUFFICES ASSUME InPlace(dev) PROVE ContentRight(dev, packet)
    OBVIOUS
  <2>2. dev.registers.ERDPT = enc28j60_rx_packet_start(PacketStart[packet], ENC28J60_RSV_SIZE)
    BY <1>1, <1>2, <2>1, PlaceSound DEF ReceiveInv, DeviceInv
  <2>3. packet \in 1 .. Count /\ dev.arrived \in packet .. Count /\ packet \in packet .. dev.arrived
    BY <1>2, <1>3
  <2>4. Apart(packet, dev.arrived)
    BY <1>2, PlaceSound DEF DeviceInv
  <2> HIDE DEF packet
  <2>5. dev.registers.ERDPT = (PacketStart[packet] + ENC28J60_RSV_SIZE) % RingSize
    BY <2>2, <2>3, <2>4, ContentStart
  <2>6. Intact(dev, packet)
    BY <2>3, <2>4, ApartIntact
  <2> QED
    BY <2>5, <2>6 DEF ContentRight
<1>5. \/ Booked(Keep, dev, o) /\ (o.ok = FALSE \/ o.dev.lost = TRUE)
      \/ FreedBy(dev, packet, o)
  BY <1>1, <1>4, PlaceSound, ContentOutcome
<1>6. /\ {"pc", "status", "packet"} \subseteq DOMAIN task' /\ task'.packet = packet
      /\ task'.pc = IF o.ok THEN "count" ELSE AfterPacket(dev)
  BY <1>1, PlaceSound
<1>7. /\ AfterPacket(dev) \in {"malloc", "txerr", "txif", "end"}
      /\ AfterPacket(dev) = "malloc" => dev.packets_remain = TRUE
  <2>1. dev.packets_remain \in BOOLEAN
    BY PlaceSound DEF Sound, Typed
  <2>2. AfterPacket(dev) = "malloc" => dev.packets_remain
    BY GoesOn
  <2> QED
    BY <2>1, <2>2, GoesOn
<1> HIDE DEF packet
<1>8. CASE Booked(Keep, dev, o) /\ o.ok = FALSE
  <2>1. Books(Keep, dev, dev')
    BY <1>1, <1>8, BecomesOn, KeepIs DEF Booked
  <2>2. task'.pc = AfterPacket(dev)
    BY <1>6, <1>8
  <2>3. InPlace(dev') => (task'.pc = "malloc" => dev.freed < dev.arrived)
    BY <1>2
  <2> QED
    BY <1>1, <1>6, <1>7, <2>1, <2>2, <2>3, TaskMoves
<1>9. CASE Booked(Keep, dev, o) /\ o.dev.lost = TRUE
  <2>1. Books(Keep, dev, dev') /\ dev'.lost = TRUE
    BY <1>1, <1>9, BecomesOn, KeepIs DEF Booked
  <2>2. DeviceInv(dev') /\ (Placed(dev) => Placed(dev'))
    BY <2>1, PlaceSound, BooksFacts
  <2>3. ReceiveInv' /\ HandedInv'
    BY <1>1, <1>3, <1>6, <2>1 DEF ReceiveInv, HandedInv
  <2> QED
    BY <2>2, <2>3 DEF PlaceInv
<1>10. CASE FreedBy(dev, packet, o)
  <2>1. DeviceInv(o.dev) /\ Placed(o.dev)
    BY <1>2, <1>10, PlaceSound, FreedDevice
  <2>2. Books(Pointers, o.dev, dev') /\ dev'.slips = o.dev.slips
    BY <1>1, <2>1, BecomesBooks DEF DeviceInv
  <2>3. Books(Keep, o.dev, dev')
    BY <2>2, KeepIs, BooksLess
  <2>4. DeviceInv(dev') /\ Placed(dev')
    BY <2>1, <2>3, DeviceKept DEF Placed, Books, Ledger
  <2>5. /\ dev'.arrived = dev.arrived /\ dev'.freed = dev.freed + 1
        /\ dev'.faults \in Nat /\ dev.faults \in Nat
        /\ dev.faults <= dev'.faults /\ o.dev.faults \in Nat /\ o.dev.faults <= dev'.faults
    <3>1. /\ o.dev.arrived = dev.arrived /\ o.dev.freed = dev.freed + 1
          /\ dev.faults \in Nat /\ dev.faults <= o.dev.faults
      BY <1>2, <1>10 DEF FreedBy, Moved
    <3>2. /\ dev'.arrived = o.dev.arrived /\ dev'.freed = o.dev.freed
          /\ o.dev.faults \in Nat /\ o.dev.faults <= dev'.faults
      BY <2>3 DEF Books, Ledger
    <3>3. dev'.faults \in Nat
      BY <2>4, RingAssumption DEF DeviceInv, Sound, Typed
    <3> QED
      BY <3>1, <3>2, <3>3
  <2>6. CASE o.ok = TRUE
    <3>1. task'.pc = "count" /\ task'.packet = dev'.freed
      BY <1>2, <1>6, <2>5, <2>6
    <3>2. ReceiveInv'
      BY <1>6, <3>1 DEF ReceiveInv
    <3>3. HandedInv'
      BY <1>1, <1>3, <2>5, <3>1 DEF HandedInv
    <3> QED
      BY <2>4, <3>2, <3>3 DEF PlaceInv
  <2>7. CASE o.ok = FALSE /\ o.dev.faults > 0 /\ "count" \in o.dev.slips
    <3>1. ~InPlace(dev') /\ dev'.faults > 0
      BY <2>2, <2>5, <2>7 DEF InPlace, Lossy
    <3>2. task'.pc \in {"malloc", "txerr", "txif", "end"}
      BY <1>6, <1>7, <2>7
    <3>3. ReceiveInv'
      BY <1>6, <3>1, <3>2 DEF ReceiveInv
    <3>4. HandedInv'
      BY <1>1, <1>3, <2>5, <3>1, <3>2 DEF HandedInv
    <3> QED
      BY <2>4, <3>3, <3>4 DEF PlaceInv
  <2> QED
    BY <1>10, <2>6, <2>7 DEF FreedBy
<1> QED
  BY <1>5, <1>8, <1>9, <1>10

(* The packet in hand goes to the stack when the chip's count can be read.  *)
LEMMA CountPlace ==
  ASSUME PlaceInv, dev.lost = FALSE, CountPackets
  PROVE  /\ PlaceInv' /\ (Placed(dev) => Placed(dev'))
         /\ stack' # stack => stack' > stack /\ (dev'.faults = 0 => stack' = stack + 1)
<1>1. PICK o \in ReadCount(dev) :
        /\ Becomes(o.dev) /\ task.pc = "count"
        /\ task' = [task EXCEPT !.pc = AfterPacket(o.dev), !.packet = 0]
        /\ stack' = IF o.ok THEN task.packet ELSE stack
  BY DEF CountPackets, PassPacket
<1>2. CountRead(dev, o)
  BY PlaceSound, CountOutcome DEF Sound
<1>3. DeviceInv(o.dev) /\ (Placed(dev) => Placed(o.dev))
  BY <1>2, PlaceSound, CountedDevice
<1>4. Books(Pointers, o.dev, dev') /\ dev'.slips = o.dev.slips
  BY <1>1, <1>3, BecomesBooks DEF DeviceInv
<1>5. Books(Keep, o.dev, dev')
  BY <1>4, KeepIs, BooksLess
<1>6. DeviceInv(dev') /\ (Placed(o.dev) => Placed(dev'))
  BY <1>3, <1>5, DeviceKept DEF Placed, Books, Ledger
<1>7. /\ dev'.arrived = dev.arrived /\ dev'.freed = dev.freed
      /\ dev'.packets_remain = o.dev.packets_remain
      /\ dev'.faults \in Nat /\ dev.faults \in Nat /\ dev.faults <= dev'.faults
      /\ o.dev.faults \in Nat /\ o.dev.faults <= dev'.faults
      /\ InPlace(dev') => InPlace(dev) /\ "count" \notin o.dev.slips
      /\ o.ok = FALSE => dev'.faults > 0
  <2>1. /\ o.dev.arrived = dev.arrived /\ o.dev.freed = dev.freed
        /\ dev.faults \in Nat /\ dev.faults <= o.dev.faults /\ (o.ok = FALSE => o.dev.faults > 0)
        /\ dev.slips \subseteq o.dev.slips
    BY <1>2 DEF CountRead
  <2>2. /\ dev'.arrived = o.dev.arrived /\ dev'.freed = o.dev.freed
        /\ dev'.packets_remain = o.dev.packets_remain
        /\ o.dev.faults \in Nat /\ o.dev.faults <= dev'.faults
    BY <1>5 DEF Books, Ledger
  <2>3. dev'.faults \in Nat
    BY <1>6, RingAssumption DEF DeviceInv, Sound, Typed
  <2>4. InPlace(dev') => InPlace(dev) /\ "count" \notin o.dev.slips
    BY <1>4, <2>1 DEF InPlace, Lossy
  <2> QED
    BY <2>1, <2>2, <2>3, <2>4
<1>8. /\ dev.freed \in Nat /\ dev.arrived \in Nat /\ dev.freed <= dev.arrived /\ dev.arrived <= Count
      /\ Count \in Nat
      /\ stack \in 0 .. Count /\ stack < dev.freed /\ task.packet = dev.freed
      /\ dev.faults = 0 => stack = dev.freed - 1
  <2>1. /\ Count \in Nat /\ dev.arrived \in 0 .. Count /\ dev.freed \in 0 .. dev.arrived
    BY PlaceSound, RingIs DEF DeviceInv
  <2>2. stack \in 0 .. Count /\ stack < dev.freed /\ (dev.faults = 0 => stack = dev.freed - 1)
    BY <1>1, PlaceSound DEF HandedInv
  <2>3. task.packet = dev.freed
    BY <1>1, PlaceSound DEF ReceiveInv
  <2> QED
    BY <2>1, <2>2, <2>3
<1>9. o.ok \in BOOLEAN
  BY <1>2 DEF CountRead
<1>10. /\ {"pc", "status", "packet"} \subseteq DOMAIN task'
       /\ task'.pc \in {"malloc", "txerr", "txif", "end"}
       /\ task'.pc = "malloc" => o.dev.packets_remain = TRUE
  <2>1. task'.pc = AfterPacket(o.dev) /\ {"pc", "status", "packet"} \subseteq DOMAIN task'
    BY <1>1, PlaceSound
  <2>2. o.dev.packets_remain \in BOOLEAN
    BY <1>3 DEF DeviceInv, Sound, Typed
  <2>3. /\ AfterPacket(o.dev) \in {"malloc", "txerr", "txif", "end"}
        /\ AfterPacket(o.dev) = "malloc" => o.dev.packets_remain
    BY GoesOn
  <2> QED
    BY <2>1, <2>2, <2>3
<1>11. InPlace(dev') /\ o.dev.packets_remain = TRUE => dev.freed < dev.arrived
  <2>1. SUFFICES ASSUME InPlace(dev'), o.dev.packets_remain = TRUE PROVE dev.freed < dev.arrived
    OBVIOUS
  <2>2. InPlace(dev) /\ "count" \notin o.dev.slips
    BY <1>7, <2>1
  <2>3. o.ok = TRUE
    BY <1>2, <1>9, <2>1, <2>2 DEF CountRead
  <2>4. dev.pktcnt > 0
    BY <1>2, <2>1, <2>3 DEF CountRead
  <2>5. dev.pktcnt = dev.arrived - dev.freed
    BY <2>2, PlaceSound DEF DeviceInv
  <2> QED
    BY <1>8, <2>4, <2>5
<1>12. ReceiveInv'
  BY <1>7, <1>10, <1>11 DEF ReceiveInv
<1>13. stack' = IF o.ok = TRUE THEN dev.freed ELSE stack
  BY <1>1, <1>8, <1>9
<1>14. HandedInv'
  BY <1>7, <1>8, <1>9, <1>10, <1>13 DEF HandedInv
<1>15. stack' # stack => stack' > stack /\ (dev'.faults = 0 => stack' = stack + 1)
  BY <1>7, <1>8, <1>13
<1> QED
  BY <1>3, <1>6, <1>12, <1>14, <1>15 DEF PlaceInv

(* The transmit error, the transmitted frame and the way back to sleep      *)
(* leave the ring alone.                                                    *)
LEMMA TransmitPlace ==
  ASSUME PlaceInv, dev.lost = FALSE, TransmitError \/ TransmitReady
  PROVE  PlaceInv' /\ (Placed(dev) => Placed(dev'))
<1>1. Books(Keep, dev, dev)
  BY PlaceSound, BooksSelf
<1>2. CASE TransmitError
  <2>1. PICK late, o, next :
          /\ o \in HandleError(dev, late)
          /\ Becomes(o.dev) /\ stack' = stack /\ task.pc = "txerr"
          /\ task' = [task EXCEPT !.pc = next]
          /\ next \in {"wait", "end", Dispatch(task.status \ {"PKTIF", "TXERIF"})}
    BY <1>2 DEF TransmitError, TaskStep, Goto, AfterRetransmit
  <2>2. Booked(Keep, dev, o)
    BY <1>1, <2>1, ErrorBooked DEF Keep
  <2>3. next \in {"wait", "end", "txerr", "txif"}
    BY <2>1, DispatchGoes
  <2>4. {"pc", "status", "packet"} \subseteq DOMAIN task' /\ task'.pc = next
    BY <2>1, PlaceSound
  <2> QED
    BY <2>1, <2>2, <2>3, <2>4, PlainStep, BookedDevice
<1>3. CASE TransmitReady
  <2>1. PICK o \in ClearTransmitted(dev) :
          /\ Becomes(o.dev) /\ stack' = stack /\ task.pc = "txif"
          /\ task' = [task EXCEPT !.pc = "end"]
    BY <1>3 DEF TransmitReady, Goto
  <2>2. Booked(Keep, dev, o)
    BY <1>1, <2>1, ClearedBooked
  <2>3. {"pc", "status", "packet"} \subseteq DOMAIN task' /\ task'.pc = "end"
    BY <2>1, PlaceSound
  <2> QED
    BY <2>1, <2>2, <2>3, PlainStep, BookedDevice
<1> QED
  BY <1>2, <1>3

LEMMA RestorePlace ==
  ASSUME PlaceInv, dev.lost = FALSE, RestoreInterrupts
  PROVE  PlaceInv' /\ (Placed(dev) => Placed(dev'))
<1>1. PICK o \in enc28j60_do_bitwise_set(dev, "eie", {"INTIE"}) :
        /\ Becomes(IF o.ok THEN o.dev ELSE Slip(o.dev, "INTIE"))
        /\ stack' = stack /\ task.pc = "end" /\ task' = IdleTask
  BY DEF RestoreInterrupts
<1>2. Books(Keep, dev, dev)
  BY PlaceSound, BooksSelf
<1>3. Books(Keep, dev, o.dev)
  BY <1>1, <1>2, FlagsBooked, BookedDevice DEF FlagsOf
<1>4. Books(Keep, dev, Slip(o.dev, "INTIE"))
  BY <1>3, SlipBooks DEF Books
<1>5. PICK e : Books(Keep, dev, e) /\ Becomes(e)
  BY <1>1, <1>3, <1>4
<1>6. {"pc", "status", "packet"} \subseteq DOMAIN task' /\ task'.pc = "wait"
  BY <1>1 DEF IdleTask
<1> QED
  BY <1>1, <1>5, <1>6, PlainStep

(* The task. *)
LEMMA TaskPlace ==
  ASSUME PlaceInv, dev.lost = FALSE, emac_enc28j60_task
  PROVE  /\ PlaceInv' /\ (Placed(dev) => Placed(dev'))
         /\ stack' # stack => stack' > stack /\ (dev'.faults = 0 => stack' = stack + 1)
<1>1. CASE CountPackets
  BY <1>1, CountPlace
<1>2. CASE Wake \/ ReadStatus \/ PointAtHeader \/ ReadHeader \/ FreePacket
             \/ TransmitError \/ TransmitReady \/ RestoreInterrupts
  <2>1. stack' = stack
    BY <1>2 DEF Wake, ReadStatus, PointAtHeader, ReadHeader, FreePacket, TransmitError,
                TransmitReady, RestoreInterrupts, TaskStep
  <2>2. PlaceInv' /\ (Placed(dev) => Placed(dev'))
    BY <1>2, WakePlace, ReadStatusPlace, PointPlace, HeaderPlace, FreePlace, TransmitPlace, RestorePlace
  <2> QED
    BY <2>1, <2>2
<1> QED
  BY <1>1, <1>2 DEF emac_enc28j60_task

-------------------------------------------------------------------------------
(* The other threads and the chip.                                          *)

(* A step that writes neither pointer. *)
LEMMA AsideStep ==
  ASSUME PlaceInv, Books(Pointers, dev, dev'), UNCHANGED <<task, stack>>
  PROVE  PlaceInv' /\ (Placed(dev) => Placed(dev'))
<1>1. dev'.registers.ERDPT = dev.registers.ERDPT
  BY DEF Books, Ledger, Pointers
<1>2. Books(Keep, dev, dev')
  BY KeepIs, BooksLess
<1> QED
  BY <1>1, <1>2, OthersStep

LEMMA BesideStep ==
  ASSUME PlaceInv, NEW e, Books(Pointers, dev, e), Becomes(e), UNCHANGED <<task, stack>>
  PROVE  PlaceInv' /\ (Placed(dev) => Placed(dev'))
<1>1. Books(Pointers, dev, dev')
  BY BecomesOn
<1> QED
  BY <1>1, AsideStep

LEMMA SenderPlace ==
  ASSUME PlaceInv, emac_enc28j60_transmit
  PROVE  PlaceInv' /\ (Placed(dev) => Placed(dev')) /\ stack' = stack
<1>1. Books(Pointers, dev, dev)
  BY PlaceSound, BooksSelf
<1>2. \E o : Books(Pointers, dev, o.dev) /\ Becomes(o.dev) /\ UNCHANGED <<task, stack>>
  <2>1. CASE TakeSemaphore
    <3>1. PICK o \in Transaction(dev, dev) : Becomes(o.dev) /\ UNCHANGED <<task, stack>>
      BY <2>1 DEF TakeSemaphore, CheckTransmitter, SenderStep
    <3> QED
      BY <1>1, <3>1, TransactionBooked, BookedDevice
  <2>2. CASE TakeExpires
    <3> DEFINE d == Slip(dev, "expired")
    <3>1. PICK o \in Transaction(d, d) : Becomes(o.dev) /\ UNCHANGED <<task, stack>>
      BY <2>2 DEF TakeExpires, CheckTransmitter, SenderStep
    <3>2. Books(Pointers, dev, d)
      BY <1>1, SlipBooks DEF Books
    <3> HIDE DEF d
    <3> QED
      BY <3>1, <3>2, TransactionBooked, BookedDevice
  <2>3. CASE FillBuffer
    <3>1. PICK o \in WriteFrame(dev) : Becomes(o.dev) /\ UNCHANGED <<task, stack>>
      BY <2>3 DEF FillBuffer, SenderStep
    <3> QED
      BY <1>1, <3>1, FrameBooked, BookedDevice
  <2>4. CASE Send
    <3>1. PICK o \in enc28j60_do_bitwise_set(dev, "econ1", {"TXRTS"}) :
            Becomes(o.dev) /\ UNCHANGED <<task, stack>>
      BY <2>4 DEF Send, SenderStep
    <3>2. Booked(Pointers, dev, o)
      BY <1>1, <3>1, FlagsBooked DEF FlagsOf
    <3> QED
      BY <3>1, <3>2, BookedDevice
  <2> QED
    BY <2>1, <2>2, <2>3, <2>4 DEF emac_enc28j60_transmit
<1> QED
  BY <1>2, BesideStep

-------------------------------------------------------------------------------
(* The check of the link. *)
LEMMA NotedBooks ==
  ASSUME NEW kept, NEW d, NEW p, Booked(kept, d, p), NEW seen
  PROVE  Books(kept, d, Note(p, seen).dev)
<1>1. {"dev", "ok"} \subseteq DOMAIN p /\ p.ok \in BOOLEAN /\ Books(kept, d, p.dev)
  BY DEF Booked, IsOutcome
<1>2. Books(kept, d, [p.dev EXCEPT !["link_status"] = seen])
  BY <1>1, OtherBooks DEF RingFields
<1>3. Note(p, seen).dev = [p.dev EXCEPT !["link_status"] = seen] \/ Note(p, seen).dev = p.dev
  BY <1>1 DEF Note
<1> QED
  BY <1>1, <1>2, <1>3

LEMMA LinkPlace ==
  ASSUME PlaceInv, enc28j60_get_link
  PROVE  PlaceInv' /\ (Placed(dev) => Placed(dev')) /\ stack' = stack
<1>0. UNCHANGED <<task, stack>>
  BY DEF enc28j60_get_link
<1>1. Books(Pointers, dev, dev)
  BY PlaceSound, BooksSelf
<1>2. CASE ReadLink \/ ClearFlags \/ EnableReceiver \/ LinkLost
  <2> SUFFICES \E e : Books(Pointers, dev, e) /\ Becomes(e)
    BY <1>0, BesideStep
  <2>1. CASE ReadLink
    <3>1. PICK read \in emac_enc28j60_read_phy_reg(dev), cable \in BOOLEAN :
            Becomes([read.dev EXCEPT !["cable"] = cable])
      BY <2>1 DEF ReadLink, KeptLater
    <3>2. Books(Pointers, dev, read.dev)
      BY <1>1, <3>1, PhyReadBooked, BookedDevice
    <3> QED
      BY <3>1, <3>2, OtherBooks DEF RingFields
  <2>2. CASE ClearFlags
    <3>1. PICK o \in DuplexAndFlags(dev) : Becomes(o.dev)
      BY <2>2 DEF ClearFlags, LinkTurn
    <3> QED
      BY <1>1, <3>1, StartBooked, BookedDevice
  <2>3. CASE EnableReceiver
    <3>1. PICK o \in Enable(dev) : Becomes(o.dev)
      BY <2>3 DEF EnableReceiver, LinkTurn
    <3> QED
      BY <1>1, <3>1, EnableBooked, BookedDevice
  <2>4. CASE LinkLost
    <3> DEFINE d == WithFrame(dev)
    <3>1. PICK p \in StopMac(d) : Becomes(Note(p, link.seen).dev)
      BY <2>4 DEF LinkLost, LastTurn, LinkTurn, Noted, Note
    <3>2. Books(Pointers, dev, d)
      BY <1>1, SlipBooks DEF Books, WithFrame
    <3> HIDE DEF d
    <3>3. Booked(Pointers, dev, p)
      BY <3>1, <3>2, StopBooked
    <3> QED
      BY <3>1, <3>3, NotedBooks
  <2> QED
    BY <1>2, <2>1, <2>2, <2>3, <2>4
<1>3. CASE ResetReadPointer
  <2> DEFINE d == UnderRead(dev)
  <2>1. PICK p \in WritePair(d, "ERDPT", 0) : Becomes(Note(p, link.seen).dev)
    BY <1>3 DEF ResetReadPointer, LastTurn, LinkTurn, Noted, Note
  <2>2. Books(Keep, dev, dev)
    BY PlaceSound, BooksSelf
  <2>3. Books(Keep, dev, d) /\ (task.pc \in {"header", "content"} => "ERDPT" \in d.slips)
    BY <2>2, SlipBooks DEF Books, UnderRead
  <2>4. Sound(d)
    BY <2>3 DEF Books, Ledger, Sound
  <2> HIDE DEF d
  <2>5. "ERDPT" \in DOMAIN BankOf /\ "ERDPT" \notin Keep
    BY RegistersAre DEF Pointers, Keep
  <2>6. Booked(Keep, d, p)
    BY <2>1, <2>4, <2>5, BooksSelf, PairBooked
  <2>7. Books(Keep, d, Note(p, link.seen).dev)
    BY <2>6, NotedBooks
  <2>8. Books(Keep, dev, Note(p, link.seen).dev)
    BY <2>3, <2>7, BooksOn
  <2>9. Books(Keep, dev, dev') /\ dev'.slips = Note(p, link.seen).dev.slips
    BY <2>1, <2>8, BecomesOn, KeepIs
  <2>10. task.pc \in {"header", "content"} => ~InPlace(dev')
    BY <2>3, <2>7, <2>9 DEF Books, Ledger, InPlace, Lossy
  <2> QED
    BY <1>0, <2>9, <2>10, OthersStep
<1> QED
  BY <1>0, <1>2, <1>3 DEF enc28j60_get_link

-------------------------------------------------------------------------------
(* The chip, which writes a packet only where it fits.                      *)
LEMMA WirePlace ==
  ASSUME PlaceInv, Placed(dev), dev.lost = FALSE, Chip
  PROVE  PlaceInv' /\ Placed(dev') /\ stack' = stack
<1>0. UNCHANGED <<task, stack>>
  BY DEF Chip, PacketArrives, FrameSent, FrameCollides
<1>1. Books(Pointers, dev, dev) /\ RingFields \subseteq DOMAIN dev
  BY PlaceSound, BooksSelf DEF Sound, Typed
<1>2. CASE FrameSent \/ FrameCollides
  <2>1. PICK flags \in {{"TXIF"}, {"TXIF", "TXERIF"}}, late \in BOOLEAN, faults \in {dev.faults, dev.faults + 1} :
          /\ Becomes([dev EXCEPT !.econ1 = @ \ {"TXRTS"}, !.eir = @ \cup flags,
                                 !.lateCollision = late, !.faults = faults])
          /\ faults = dev.faults \/ (faults = dev.faults + 1 /\ MayFail(dev))
    <3>1. CASE FrameCollides
      BY <3>1 DEF FrameCollides
    <3>2. CASE FrameSent
      <4>1. [dev EXCEPT !.econ1 = @ \ {"TXRTS"}, !.eir = @ \cup {"TXIF"}, !.lateCollision = FALSE]
              = [dev EXCEPT !.econ1 = @ \ {"TXRTS"}, !.eir = @ \cup {"TXIF"},
                            !.lateCollision = FALSE, !.faults = dev.faults]
        OBVIOUS
      <4> QED
        BY <3>2, <4>1 DEF FrameSent
    <3> QED
      BY <1>2, <3>1, <3>2
  <2> DEFINE cleared == dev.econ1 \ {"TXRTS"}
             raised == dev.eir \cup flags
             a == [dev EXCEPT !["econ1"] = cleared]
             b == [a EXCEPT !["eir"] = raised]
             c == [b EXCEPT !["lateCollision"] = late]
             d == [dev EXCEPT !.econ1 = @ \ {"TXRTS"}, !.eir = @ \cup flags,
                              !.lateCollision = late, !.faults = faults]
  <2>2. Books(Pointers, dev, a)
    <3>1. cleared \subseteq FlagsOf("econ1")
      BY <1>1 DEF Books, Ledger, Typed, FlagsOf
    <3> HIDE DEF cleared
    <3> QED
      BY <1>1, <3>1, FlagBooks
  <2>3. Books(Pointers, dev, b)
    <3>1. raised \subseteq FlagsOf("eir")
      BY <1>1 DEF Books, Ledger, Typed, FlagsOf
    <3> HIDE DEF raised, a
    <3> QED
      BY <2>2, <3>1, FlagBooks
  <2>4. Books(Pointers, dev, c)
    <3> HIDE DEF b
    <3> QED
      BY <2>3, OtherBooks DEF RingFields
  <2>5. c.faults = dev.faults
    BY <1>1 DEF RingFields
  <2>6. d = [c EXCEPT !.faults = faults]
    OBVIOUS
  <2>7. Books(Pointers, dev, d)
    <3>0. [c EXCEPT !.faults = c.faults] = c
      OBVIOUS
    <3> HIDE DEF c, d
    <3>1. CASE faults = dev.faults
      <4>1. d = c
        BY <2>5, <2>6, <3>0, <3>1
      <4> QED
        BY <2>4, <4>1
    <3>2. CASE faults = dev.faults + 1 /\ MayFail(dev)
      <4>1. MayFail(c)
        BY <2>5, <3>2 DEF MayFail
      <4>2. faults = c.faults + 1
        BY <2>5, <3>2
      <4>3. Faulty(c) = [c EXCEPT !.faults = c.faults + 1]
        BY DEF Faulty
      <4>4. d = Faulty(c)
        BY <2>6, <4>2, <4>3
      <4> QED
        BY <2>4, <4>1, <4>4, FaultBooks DEF Books
    <3> QED
      BY <2>1, <3>1, <3>2
  <2>8. Becomes(d)
    BY <2>1
  <2> HIDE DEF d
  <2> QED
    BY <1>0, <2>7, <2>8, BesideStep
<1>3. CASE PacketArrives
  <2> DEFINE e == [dev EXCEPT !.arrived = @ + 1, !.pktcnt = @ + 1]
             from == dev.freed + 1
             next == dev.arrived + 1
  <2>1. /\ Becomes(e) /\ dev.arrived < Count
        /\ FreeSpace(dev) >= ENC28J60_RSV_SIZE + PacketLen[next]
    BY <1>3 DEF PacketArrives, Count
  <2>2. /\ Count \in Nat /\ dev.arrived \in 0 .. Count /\ dev.freed \in 0 .. dev.arrived
        /\ dev.pktcnt \in 0 .. dev.arrived
        /\ InPlace(dev) => dev.pktcnt = dev.arrived - dev.freed
    BY PlaceSound, RingIs DEF DeviceInv
  <2>3. /\ from \in 1 .. Count /\ next \in from .. Count /\ next \in 1 .. Count /\ next \in 1 .. Count + 1
        /\ from \in 1 .. Count + 1
    BY <2>1, <2>2
  <2>4. FreeSpace(dev) = RingSize - 1 - Offset(from, next)
    <3>1. dev.registers.ERXRDPT = enc28j60_next_ptr_align_odd(PacketStart[from])
      BY DEF Placed, Behind
    <3> HIDE DEF from, next
    <3>2. (RingSize + enc28j60_next_ptr_align_odd(PacketStart[from]) - PacketStart[next]) % RingSize
            = RingSize - 1 - Offset(from, next)
      BY <2>3, RoomIs
    <3>3. FreeSpace(dev) = (RingSize + dev.registers.ERXRDPT - PacketStart[next]) % RingSize
      BY DEF FreeSpace, next
    <3> QED
      BY <3>1, <3>2, <3>3
  <2>5. Offset(from, next) + Size(next) < RingSize
    <3> HIDE DEF from, next
    <3>1. Size(next) = ENC28J60_RSV_SIZE + PacketLen[next] /\ Size(next) \in Nat
      BY <2>3, RingIs DEF Size
    <3>2. Offset(from, next) \in 0 .. RingSize - 1 /\ RingSize \in Nat
      BY <2>3, OffsetIs, RingIs
    <3> QED
      BY <2>1, <2>4, <3>1, <3>2
  <2>6. Apart(from, next)
    BY <2>2, <2>3, <2>5, PlaceSound, ArrivalApart DEF DeviceInv
  <2>7. /\ e.arrived = next /\ e.pktcnt = dev.pktcnt + 1 /\ DOMAIN e = DOMAIN dev
        /\ e.bank = dev.bank /\ e.last_bank = dev.last_bank
        /\ e.econ1 = dev.econ1 /\ e.eie = dev.eie /\ e.eir = dev.eir
        /\ e.registers = dev.registers
        /\ e.next_packet_ptr = dev.next_packet_ptr /\ e.packets_remain = dev.packets_remain
        /\ e.freed = dev.freed /\ e.faults = dev.faults /\ e.lost = dev.lost /\ e.slips = dev.slips
    BY <1>1 DEF RingFields
  <2> HIDE DEF e
  <2>8. Sound(e) /\ (InPlace(e) => InPlace(dev))
    BY <2>7, PlaceSound DEF Sound, Typed, Tracked, Located, InPlace
  <2>9. /\ next \in 0 .. Count /\ dev.freed \in 0 .. next /\ dev.pktcnt + 1 \in 0 .. next
        /\ InPlace(dev) => dev.pktcnt + 1 = next - dev.freed
    BY <2>1, <2>2
  <2>10. DeviceInv(e) /\ Placed(e)
    <3>1. /\ e.next_packet_ptr = PacketStart[e.freed + 1]
          /\ e.registers.ERXRDPT \in 0 .. ENC28J60_BUF_RX_END
      BY <2>7, PlaceSound DEF DeviceInv
    <3>2. Apart(e.freed + 1, e.arrived)
      BY <2>6, <2>7
    <3>3. Placed(e)
      BY <2>7 DEF Placed, Behind
    <3>4. /\ e.arrived \in 0 .. Count /\ e.freed \in 0 .. e.arrived /\ e.pktcnt \in 0 .. e.arrived
          /\ InPlace(e) => e.pktcnt = e.arrived - e.freed
      BY <2>7, <2>8, <2>9
    <3> QED
      BY <2>8, <3>1, <3>2, <3>3, <3>4 DEF DeviceInv
  <2>11. Books(Pointers, e, dev') /\ dev'.slips = e.slips
    BY <2>1, <2>10, BecomesBooks DEF DeviceInv
  <2>12. Books(Keep, e, dev')
    BY <2>11, KeepIs, BooksLess
  <2>13. DeviceInv(dev') /\ Placed(dev')
    BY <2>10, <2>12, DeviceKept DEF Placed, Books, Ledger
  <2>14. /\ dev'.arrived = next /\ dev'.freed = dev.freed
         /\ dev'.next_packet_ptr = dev.next_packet_ptr /\ dev'.packets_remain = dev.packets_remain
         /\ dev'.faults = 0 => dev.faults = 0
         /\ InPlace(dev') => InPlace(dev)
         /\ dev'.registers.ERDPT = dev.registers.ERDPT
    <3>1. dev'.faults = 0 => dev.faults = 0
      <4>1. dev.faults \in Nat /\ dev.faults <= dev'.faults
        BY <2>7, <2>11 DEF Books, Ledger
      <4>2. dev'.faults \in Nat
        BY <2>13, RingAssumption DEF DeviceInv, Sound, Typed
      <4> QED
        BY <4>1, <4>2
    <3>2. InPlace(dev') => InPlace(dev)
      BY <2>7, <2>11 DEF InPlace
    <3>3. dev'.registers.ERDPT = dev.registers.ERDPT
      BY <2>7, <2>11 DEF Books, Ledger, Pointers
    <3> QED
      BY <2>7, <2>11, <3>1, <3>2, <3>3 DEF Books, Ledger
  <2>15. dev.freed < next /\ dev.arrived < next /\ dev.arrived \in Nat /\ dev.freed \in Nat /\ next \in Nat
    BY <2>2
  <2> HIDE DEF next
  <2>16. ReceiveInv'
    BY <1>0, <2>14, <2>15, PlaceSound DEF ReceiveInv
  <2>17. HandedInv'
    BY <1>0, <2>14, PlaceSound DEF HandedInv
  <2> QED
    BY <1>0, <2>13, <2>16, <2>17 DEF PlaceInv
<1> QED
  BY <1>0, <1>2, <1>3 DEF Chip

-------------------------------------------------------------------------------
(* The set-up hands the driver a chip whose ring is empty, with ERXRDPT     *)
(* behind the first packet.                                                 *)

Led == {"address", "installed", "duplex", "ready", "running", "stopped"}

SetUpInv ==
  /\ main \in Idle => dev.arrived = 0 /\ dev.packets_remain = FALSE /\ stack = 0
  /\ main \in {"revision", "phy", "install"} => dev.last_bank = NoBank
  /\ main \in Led => Placed(dev)

RingInv == PlaceInv /\ SetUpInv

LEMMA FreshDevice ==
  ASSUME NEW revision, NEW faults \in 0 .. MaxFaults, NEW d, d = NewDevice(revision, faults)
  PROVE  /\ DeviceInv(d) /\ d.arrived = 0 /\ d.packets_remain = FALSE
         /\ d.last_bank = NoBank
<1>1. /\ d.arrived = 0 /\ d.freed = 0 /\ d.pktcnt = 0 /\ d.packets_remain = FALSE
      /\ d.last_bank = NoBank /\ d.next_packet_ptr = 0 /\ d.slips = {} /\ d.lost = FALSE
      /\ d.registers = [ERDPT |-> 0, ERXRDPT |-> 0, MACON3 |-> "half"]
      /\ d.econ1 = {} /\ d.eie = {} /\ d.eir = {} /\ d.faults = faults
  BY DEF NewDevice, ENC28J60_BUF_RX_START
<1>2. RingFields \subseteq DOMAIN d /\ Pointers \subseteq DOMAIN d.registers
  BY <1>1 DEF NewDevice, RingFields, Pointers
<1>3. Sound(d)
  BY <1>1, <1>2 DEF Sound, Typed, Tracked, Located
<1>4. Apart(1, 0)
  BY DEF Apart
<1>5. Count \in Nat /\ ENC28J60_BUF_RX_END \in Nat /\ PacketStart[1] = 0
  BY RingIs, RingAssumption, StartIs
<1>6. DeviceInv(d)
  BY <1>1, <1>3, <1>4, <1>5 DEF DeviceInv
<1> QED
  BY <1>1, <1>6

(* The ring is empty and the task asleep. *)
LEMMA EmptyPlace ==
  ASSUME DeviceInv(dev'), dev'.arrived = 0, dev'.packets_remain = FALSE, task' = IdleTask, stack' = 0
  PROVE  PlaceInv'
<1>1. dev'.freed = 0 /\ Count \in Nat
  BY RingIs DEF DeviceInv
<1>2. {"pc", "status", "packet"} \subseteq DOMAIN task' /\ task'.pc = "wait"
  BY DEF IdleTask
<1>3. ReceiveInv'
  BY <1>2 DEF ReceiveInv
<1>4. HandedInv'
  BY <1>1, <1>2 DEF HandedInv
<1> QED
  BY <1>3, <1>4 DEF PlaceInv

(* A failure of the set-up is only counted. *)
LEMMA FailsBooks ==
  ASSUME PlaceInv, dev' = dev \/ FailsHere
  PROVE  Books(Pointers, dev, dev') /\ dev'.last_bank = dev.last_bank
<1>1. Books(Pointers, dev, dev) /\ RingFields \subseteq DOMAIN dev
  BY PlaceSound, BooksSelf DEF Sound, Typed
<1>2. CASE FailsHere
  <2>1. dev' = Faulty(dev) /\ MayFail(dev)
    BY <1>2 DEF FailsHere, Faulty
  <2>2. Faulty(dev).last_bank = dev.last_bank
    BY <1>1 DEF Faulty, RingFields
  <2> QED
    BY <1>1, <2>1, <2>2, FaultBooks DEF Books
<1> QED
  BY <1>1, <1>2

LEMMA FaultsFresh ==
  ASSUME PlaceInv, dev' = Fresh
  PROVE  /\ DeviceInv(dev') /\ dev'.arrived = 0 /\ dev'.packets_remain = FALSE
         /\ dev'.last_bank = NoBank
<1>1. dev.faults \in 0 .. MaxFaults
  BY PlaceSound DEF Sound, Typed
<1>2. dev' = NewDevice(config.revision, dev.faults)
  BY DEF Fresh
<1> QED
  BY <1>1, <1>2, FreshDevice

(* The first packet is where a chip just set up expects it. *)
LEMMA InstallPlace ==
  ASSUME PlaceInv, dev.arrived = 0, dev.last_bank = NoBank, Install
  PROVE  /\ DeviceInv(dev') /\ dev'.arrived = 0 /\ dev'.packets_remain = dev.packets_remain
         /\ main' \in {"address", "undo"} /\ (main' = "address" => Placed(dev'))
<1>1. PICK o \in IF "phy" \in eth_instance_g[Current].pointers THEN Then(emac_enc28j60_init(dev), enc28j60_init)
                 ELSE {[dev |-> dev, ok |-> FALSE]} :
        dev' = o.dev /\ main' = IF o.ok THEN "address" ELSE "undo"
  BY DEF Install
<1>2. /\ dev.freed = 0 /\ dev.pktcnt = 0 /\ Count \in Nat /\ Sound(dev)
      /\ dev.next_packet_ptr = PacketStart[dev.freed + 1]
      /\ dev.registers.ERXRDPT \in 0 .. ENC28J60_BUF_RX_END
      /\ Apart(dev.freed + 1, dev.arrived)
  BY PlaceSound, RingIs DEF DeviceInv
<1>3. Prepared(dev, o)
  <2>1. CASE o \in Then(emac_enc28j60_init(dev), enc28j60_init)
    BY <1>2, <2>1, InstallPrepared
  <2>2. CASE o = [dev |-> dev, ok |-> FALSE]
    <3>1. Books(Keep, dev, dev)
      BY <1>2, BooksSelf
    <3>2. IsOutcome(o) /\ o.ok = FALSE /\ o.dev = dev
      BY <2>2 DEF IsOutcome
    <3> QED
      BY <3>1, <3>2, NotPrepared
  <2> QED
    BY <1>1, <2>1, <2>2
<1>4. /\ Books({}, dev, dev') /\ o.ok \in BOOLEAN
      /\ dev'.registers.ERXRDPT \in {dev.registers.ERXRDPT, Aligned}
      /\ o.ok = TRUE => dev'.lost = TRUE \/ dev'.registers.ERXRDPT = Aligned
  BY <1>1, <1>3 DEF Prepared
<1>5. Aligned = enc28j60_next_ptr_align_odd(PacketStart[1]) /\ Aligned \in 0 .. ENC28J60_BUF_RX_END
  <2>1. PacketStart[1] = ENC28J60_BUF_RX_START /\ 1 \in 1 .. Count + 1
    BY <1>2, StartIs DEF ENC28J60_BUF_RX_START
  <2> QED
    BY <2>1, AlignedIn DEF Aligned
<1>6. /\ Sound(dev') /\ dev'.arrived = 0 /\ dev'.freed = 0 /\ dev'.pktcnt = 0
      /\ dev'.next_packet_ptr = dev.next_packet_ptr /\ dev'.packets_remain = dev.packets_remain
      /\ Count \in Nat
  BY <1>2, <1>4 DEF Books, Ledger, Sound
<1>7. DeviceInv(dev')
  <2>1. Apart(dev'.freed + 1, dev'.arrived) /\ dev'.next_packet_ptr = PacketStart[dev'.freed + 1]
    BY <1>2, <1>6
  <2>2. dev'.registers.ERXRDPT \in 0 .. ENC28J60_BUF_RX_END
    BY <1>2, <1>4, <1>5
  <2>3. /\ dev'.arrived \in 0 .. Count /\ dev'.freed \in 0 .. dev'.arrived
        /\ dev'.pktcnt \in 0 .. dev'.arrived /\ dev'.pktcnt = dev'.arrived - dev'.freed
    BY <1>6
  <2> QED
    BY <1>6, <2>1, <2>2, <2>3 DEF DeviceInv
<1>8. main' = "address" => Placed(dev')
  <2>1. SUFFICES ASSUME main' = "address" PROVE Placed(dev')
    OBVIOUS
  <2>2. o.ok = TRUE
    BY <1>1, <1>4, <2>1
  <2>3. dev'.freed + 1 = 1
    BY <1>6
  <2> QED
    BY <1>4, <1>5, <2>2, <2>3 DEF Placed, Behind
<1> QED
  BY <1>1, <1>4, <1>6, <1>7, <1>8

LEMMA SetUpPlace ==
  ASSUME TrafficInv, RingInv, InitStep, main \in Idle
  PROVE  RingInv' /\ (main' # "off" => stack' = stack)
<1>1. /\ PlaceInv /\ task = IdleTask /\ stack = 0 /\ dev.arrived = 0 /\ dev.packets_remain = FALSE
      /\ DeviceInv(dev) /\ Sound(dev)
  BY PlaceSound DEF TrafficInv, QuietInv, RingInv, SetUpInv
<1>2. UNCHANGED threads
  BY DEF InitStep, ethernet_init_all, AllocationFails, eth_init_internal, InstallIsrService, InitializeBus,
     esp_eth_mac_new_enc28j60, NewMac, CheckRevision, esp_eth_phy_new_enc28j60, Install, SetAddress,
     UndoInstance, UndoWithoutHandle, KeepInstance, SetFullDuplex, DeinitInstance, FreeBus, Idle, Places
<1>3. task' = IdleTask /\ stack' = 0 /\ UNCHANGED <<task, stack>>
  BY <1>1, <1>2 DEF threads
<1> SUFFICES RingInv'
  BY <1>3
<1>4. ASSUME DeviceInv(dev'), dev'.arrived = 0, dev'.packets_remain = FALSE,
             main' \in {"revision", "phy", "install"} => dev'.last_bank = NoBank,
             main' \in Led => Placed(dev')
      PROVE  RingInv'
  BY <1>3, <1>4, EmptyPlace DEF RingInv, SetUpInv
<1>5. ASSUME Books(Pointers, dev, dev'),
             main' \in {"revision", "phy", "install"} => dev'.last_bank = NoBank,
             main' \in Led => main \in Led
      PROVE  RingInv'
  <2>1. PlaceInv' /\ (Placed(dev) => Placed(dev'))
    BY <1>1, <1>3, <1>5, AsideStep
  <2>2. DeviceInv(dev') /\ dev'.arrived = 0 /\ dev'.packets_remain = FALSE
    BY <1>1, <1>5, <2>1 DEF PlaceInv, Books, Ledger
  <2> QED
    BY <1>4, <1>5, <2>1, <2>2 DEF RingInv, SetUpInv
<1>6. CASE \/ ethernet_init_all \/ AllocationFails \/ eth_init_internal \/ InstallIsrService
           \/ InitializeBus \/ CheckRevision \/ esp_eth_phy_new_enc28j60
           \/ UndoInstance \/ UndoWithoutHandle \/ KeepInstance
  <2>1. dev' = dev \/ FailsHere
    BY <1>6 DEF ethernet_init_all, AllocationFails, eth_init_internal, InstallIsrService, InitializeBus,
                CheckRevision, esp_eth_phy_new_enc28j60, UndoInstance, UndoWithoutHandle, KeepInstance
  <2>2. Books(Pointers, dev, dev') /\ dev'.last_bank = dev.last_bank
    BY <1>1, <2>1, FailsBooks
  <2>3. /\ main' \in {"revision", "phy", "install"} => main \in {"revision", "phy"}
        /\ main' \in Led => main \in Led
    BY <1>6 DEF ethernet_init_all, AllocationFails, eth_init_internal, InstallIsrService, InitializeBus,
                CheckRevision, esp_eth_phy_new_enc28j60, UndoInstance, UndoWithoutHandle, KeepInstance,
                ToError, Led
  <2> QED
    BY <1>5, <2>2, <2>3 DEF RingInv, SetUpInv
<1>7. CASE esp_eth_mac_new_enc28j60
  <2>1. CASE dev' = Fresh /\ main' = "revision"
    BY <1>1, <1>4, <2>1, FaultsFresh DEF Led
  <2>2. CASE FailsHere /\ main' = "unset"
    BY <1>1, <1>5, <2>2, FailsBooks DEF Led
  <2> QED
    BY <1>7, <2>1, <2>2 DEF esp_eth_mac_new_enc28j60, NewMac
<1>8. CASE Install
  <2>1. dev.last_bank = NoBank
    BY <1>8 DEF Install, RingInv, SetUpInv
  <2>2. /\ DeviceInv(dev') /\ dev'.arrived = 0 /\ dev'.packets_remain = FALSE
        /\ main' \in {"address", "undo"} /\ (main' = "address" => Placed(dev'))
    BY <1>1, <1>8, <2>1, InstallPlace
  <2> QED
    BY <1>4, <2>2 DEF Led
<1>9. CASE SetAddress
  <2>1. PICK o \in TouchPair(dev, "MAADR") : dev' = o.dev
    BY <1>9 DEF SetAddress, enc28j60_set_mac_addr
  <2>2. main = "address" /\ main' \in {"installed", "undo"}
    BY <1>9 DEF SetAddress
  <2>3. "MAADR" \in DOMAIN BankOf /\ "MAADR" \notin Pointers
    BY RegistersAre DEF Registers, Pointers
  <2>4. Books(Pointers, dev, dev')
    BY <1>1, <2>1, <2>3, BooksSelf, TouchBooked, BookedDevice
  <2> QED
    BY <1>5, <2>2, <2>4 DEF Led
<1>10. CASE SetFullDuplex
  <2>1. PICK o \in enc28j60_set_duplex(dev, "full") : dev' = o.dev
    BY <1>10 DEF SetFullDuplex
  <2>2. main = "duplex" /\ main' \in {"ready", "aborted"}
    BY <1>10 DEF SetFullDuplex
  <2>3. Books(Pointers, dev, dev')
    BY <1>1, <2>1, BooksSelf, DuplexBooked, BookedDevice
  <2> QED
    BY <1>5, <2>2, <2>3 DEF Led
<1>11. CASE DeinitInstance \/ FreeBus
  BY <1>11 DEF DeinitInstance, FreeBus, Idle
<1> QED
  BY <1>6, <1>7, <1>8, <1>9, <1>10, <1>11 DEF InitStep

(* What a step promises of the ring and of the stack. *)
HandsOver ==
  stack' # stack /\ main' # "off" => stack' > stack /\ (dev'.faults = 0 => stack' = stack + 1)

LEMMA LaterPlace ==
  ASSUME RingInv, PlaceInv', Placed(dev) => Placed(dev'), main' \notin Idle,
         main' \in Led => main \in Led
  PROVE  RingInv'
<1>1. main' \notin {"revision", "phy", "install"}
  BY DEF Idle, Places
<1> QED
  BY <1>1 DEF RingInv, SetUpInv

LEMMA StopPlace ==
  ASSUME PlaceInv, Stop
  PROVE  PlaceInv' /\ (Placed(dev) => Placed(dev'))
<1>1. PICK o \in IF dev.link_status = "DOWN" THEN Done(dev) ELSE StopMac(WithFrame(dev)) :
        dev' = [o.dev EXCEPT !["link_status"] = "DOWN"]
  BY DEF Stop
<1>2. UNCHANGED <<task, stack>>
  BY DEF Stop, threads
<1>3. Books(Pointers, dev, dev)
  BY PlaceSound, BooksSelf
<1>4. Books(Pointers, dev, o.dev)
  <2>1. CASE dev.link_status = "DOWN"
    BY <1>1, <1>3, <2>1 DEF Done
  <2>2. CASE dev.link_status # "DOWN"
    <3>1. Books(Pointers, dev, WithFrame(dev))
      BY <1>3, SlipBooks DEF Books, WithFrame
    <3> QED
      BY <1>1, <2>2, <3>1, StopBooked, BookedDevice
  <2> QED
    BY <2>1, <2>2
<1>5. Books(Pointers, dev, dev')
  BY <1>1, <1>4, OtherBooks DEF RingFields
<1> QED
  BY <1>2, <1>5, AsideStep

LEMMA RingSteps ==
  ASSUME TrafficInv, RingInv, [Next]_vars
  PROVE  RingInv' /\ HandsOver
<1>0. PlaceInv /\ dev.lost \in BOOLEAN
  BY PlaceSound DEF RingInv, Sound, Typed
<1>1. CASE UNCHANGED vars
  <2>1. UNCHANGED <<dev, task, stack, main>>
    BY <1>1 DEF vars, linkVars, macVars, initVars
  <2> QED
    BY <2>1 DEF HandsOver, RingInv, PlaceInv, DeviceInv, ReceiveInv, HandedInv, SetUpInv
<1>2. CASE InitStep /\ main \in Idle
  BY <1>2, SetUpPlace DEF HandsOver
<1>3. CASE DeinitInstance
  <2>1. UNCHANGED <<task, stack>> /\ main' = "deinit" /\ (dev' = dev \/ FailsHere)
    BY <1>3 DEF DeinitInstance, threads
  <2>2. PlaceInv' /\ (Placed(dev) => Placed(dev'))
    BY <1>0, <2>1, FailsBooks, AsideStep
  <2> QED
    BY <2>1, <2>2, LaterPlace DEF HandsOver, Idle, Places, Led
<1>4. CASE FreeBus
  <2>1. dev' = Fresh /\ task' = IdleTask /\ stack' = 0 /\ main' = "off"
    BY <1>4 DEF FreeBus
  <2>2. /\ DeviceInv(dev') /\ dev'.arrived = 0 /\ dev'.packets_remain = FALSE
    BY <1>0, <2>1, FaultsFresh
  <2>3. PlaceInv'
    BY <2>1, <2>2, EmptyPlace
  <2> QED
    BY <2>1, <2>2, <2>3 DEF RingInv, SetUpInv, HandsOver, Led
<1>5. CASE InitStep /\ main \notin Idle
  <2>1. main # "off" /\ main # "internal" /\ main # "isr" /\ main # "bus" /\ main # "mac"
        /\ main # "revision" /\ main # "phy" /\ main # "install" /\ main # "address"
        /\ main # "installed" /\ main # "undo" /\ main # "unset" /\ main # "duplex"
    BY <1>5 DEF Idle, Places
  <2>2. DeinitInstance \/ FreeBus
    BY <1>5, <2>1 DEF InitStep, ethernet_init_all, AllocationFails, eth_init_internal, InstallIsrService,
         InitializeBus, esp_eth_mac_new_enc28j60, NewMac, CheckRevision, esp_eth_phy_new_enc28j60,
         Install, SetAddress, UndoInstance, UndoWithoutHandle, KeepInstance, SetFullDuplex
  <2> QED
    BY <1>3, <1>4, <2>2
<1>6. CASE Start \/ ethernet_deinit_all
  <2>1. UNCHANGED <<dev, task, stack>>
    BY <1>6 DEF Start, ethernet_deinit_all, linkVars, macVars
  <2>2. \/ main' = "deinit"
        \/ main = "ready" /\ main' = "running"
    BY <1>6 DEF Start, ethernet_deinit_all
  <2>3. PlaceInv' /\ (Placed(dev) => Placed(dev'))
    BY <1>0, <2>1 DEF PlaceInv, DeviceInv, ReceiveInv, HandedInv
  <2> QED
    BY <2>1, <2>2, <2>3, LaterPlace DEF HandsOver, Idle, Places, Led
<1>7. CASE Stop
  <2>1. UNCHANGED <<task, stack>> /\ main = "running" /\ main' \in {"stopped", "aborted"}
    BY <1>7 DEF Stop, threads
  <2>2. PlaceInv' /\ (Placed(dev) => Placed(dev'))
    BY <1>0, <1>7, StopPlace
  <2> QED
    BY <2>1, <2>2, LaterPlace DEF HandsOver, Idle, Places, Led
<1>8. CASE dev.lost = FALSE /\ (Task \/ Sender \/ Link \/ Wire)
  <2>1. main \in {"running", "stopped"} /\ main' = main /\ (Wire => main = "running")
    BY <1>8 DEF Task, Sender, Link, Wire, initVars
  <2>2. Placed(dev)
    BY <2>1 DEF RingInv, SetUpInv, Led
  <2>3. PlaceInv' /\ (Placed(dev) => Placed(dev')) /\ HandsOver
    <3>1. CASE Task
      BY <1>0, <1>8, <3>1, TaskPlace DEF Task, HandsOver
    <3>2. CASE Sender
      BY <1>0, <3>2, SenderPlace DEF Sender, HandsOver
    <3>3. CASE Link
      BY <1>0, <3>3, LinkPlace DEF Link, HandsOver
    <3>4. CASE Wire
      BY <1>0, <1>8, <2>2, <3>4, WirePlace DEF Wire, HandsOver
    <3> QED
      BY <1>8, <3>1, <3>2, <3>3, <3>4
  <2> QED
    BY <2>1, <2>3, LaterPlace DEF Idle, Places
<1> QED
  BY <1>0, <1>1, <1>2, <1>5, <1>6, <1>7, <1>8 DEF Next

LEMMA RingStart == Init => RingInv
<1> SUFFICES ASSUME Init PROVE RingInv
  OBVIOUS
<1>1. dev = NewDevice(config.revision, 0) /\ task = IdleTask /\ stack = 0 /\ main = "off"
  BY DEF Init, EthernetInitInit, MacInit
<1>2. 0 \in 0 .. MaxFaults
  BY RingAssumption
<1>3. /\ DeviceInv(dev) /\ dev.arrived = 0 /\ dev.packets_remain = FALSE
  BY <1>1, <1>2, FreshDevice
<1>4. dev.freed = 0 /\ Count \in Nat
  BY <1>3, RingIs DEF DeviceInv
<1>5. {"pc", "status", "packet"} \subseteq DOMAIN task /\ task.pc = "wait"
  BY <1>1 DEF IdleTask
<1>6. ReceiveInv
  BY <1>3, <1>5 DEF ReceiveInv
<1>7. HandedInv
  BY <1>1, <1>4, <1>5 DEF HandedInv
<1> QED
  BY <1>1, <1>3, <1>6, <1>7 DEF RingInv, PlaceInv, SetUpInv, Led

-------------------------------------------------------------------------------
(* What is left of the types. *)

Named(n) == {<<"handles", 0>>} \cup ({"mac", "phy", "driver"} \X (1 .. n))

BoundsInv ==
  /\ result \in {"none", "error", "ready"}
  /\ heap \subseteq Named(config.number)
  /\ sender.frame \in 0 .. MaxFrames

LEMMA HeapBound ==
  ASSUME ObjectsInv, BoundsInv, [Next]_vars
  PROVE  config' = config /\ heap' \subseteq Named(config.number)
<1>1. config' = config
  BY DEF Next, vars, initVars, linkVars, InitStep, ethernet_init_all, AllocationFails, eth_init_internal, InstallIsrService,
     InitializeBus, esp_eth_mac_new_enc28j60, NewMac, CheckRevision, esp_eth_phy_new_enc28j60, Install, SetAddress,
     UndoInstance, UndoWithoutHandle, KeepInstance, SetFullDuplex, DeinitInstance, FreeBus, ToError,
     Start, Stop, ethernet_deinit_all, Task, Sender, Link, Wire
<1>2. CASE heap' \subseteq heap
  BY <1>1, <1>2 DEF BoundsInv
<1>3. CASE ethernet_init_all
  BY <1>1, <1>3 DEF BoundsInv, Named, ethernet_init_all
<1>4. CASE /\ main \in {"internal", "mac", "phy", "install"}
           /\ heap' \subseteq heap \cup ({"mac", "phy", "driver"} \X {Current})
  <2>1. Current \in 1 .. config.number
    BY <1>4 DEF ObjectsInv, CountInv, Current, InHand
  <2> QED
    BY <1>1, <1>4, <2>1 DEF BoundsInv, Named
<1>5. CASE eth_init_internal \/ esp_eth_mac_new_enc28j60 \/ esp_eth_phy_new_enc28j60 \/ Install
  BY <1>2, <1>4, <1>5 DEF eth_init_internal, esp_eth_mac_new_enc28j60, NewMac, esp_eth_phy_new_enc28j60, Install
<1>6. CASE UNCHANGED vars \/ Start \/ Stop \/ ethernet_deinit_all \/ Task \/ Sender \/ Link \/ Wire
  BY <1>2, <1>6 DEF vars, initVars, Start, Stop, ethernet_deinit_all, Task, Sender, Link, Wire
<1>7. CASE \/ AllocationFails \/ InstallIsrService \/ InitializeBus \/ CheckRevision \/ SetAddress
           \/ UndoInstance \/ UndoWithoutHandle \/ KeepInstance \/ SetFullDuplex
           \/ DeinitInstance \/ FreeBus
  BY <1>2, <1>7 DEF AllocationFails, InstallIsrService, InitializeBus, CheckRevision, SetAddress,
     UndoInstance, UndoWithoutHandle, KeepInstance, SetFullDuplex, DeinitInstance, FreeBus, ToError,
     DeleteObjects
<1> QED
  BY <1>1, <1>3, <1>5, <1>6, <1>7 DEF Next, InitStep

LEMMA FrameBound ==
  ASSUME BoundsInv, [Next]_vars
  PROVE  sender'.frame \in 0 .. MaxFrames
<1>0. MaxFrames \in Nat /\ sender.frame \in 0 .. MaxFrames
  BY FramesAssumption DEF BoundsInv
<1>1. CASE sender' = sender
  BY <1>0, <1>1
<1>2. CASE InitStep
  <2>1. sender' = sender \/ sender' = IdleSender
    BY <1>2 DEF InitStep, threads, ethernet_init_all, AllocationFails, eth_init_internal, InstallIsrService,
       InitializeBus, esp_eth_mac_new_enc28j60, NewMac, CheckRevision, esp_eth_phy_new_enc28j60, Install,
       SetAddress, UndoInstance, UndoWithoutHandle, KeepInstance, SetFullDuplex, DeinitInstance, FreeBus
  <2> QED
    BY <1>0, <2>1 DEF IdleSender
<1>3. CASE Sender
  <2>1. \/ sender'.frame = sender.frame
        \/ sender.frame < MaxFrames /\ sender'.frame = sender.frame + 1
    BY <1>3 DEF Sender, emac_enc28j60_transmit, TakeSemaphore, TakeExpires, FillBuffer, Send, Called,
       CheckTransmitter, SenderStep
  <2> QED
    BY <1>0, <2>1
<1>4. CASE UNCHANGED vars \/ Start \/ Stop \/ ethernet_deinit_all \/ Task \/ Link \/ Wire
  <2>1. sender' = sender
    BY <1>4 DEF vars, linkVars, macVars, threads, Start, Stop, ethernet_deinit_all, Task, Link, Wire,
       emac_enc28j60_task, Wake, ReadStatus, PointAtHeader, ReadHeader, FreePacket, CountPackets,
       TransmitError, TransmitReady, RestoreInterrupts, TaskStep, enc28j60_get_link,
       Chip, PacketArrives, FrameSent, FrameCollides
  <2> QED
    BY <1>1, <2>1
<1> QED
  BY <1>2, <1>3, <1>4 DEF Next

LEMMA BoundsSteps ==
  ASSUME ObjectsInv, BoundsInv, [Next]_vars
  PROVE  BoundsInv'
<1>1. result' \in {"none", "error", "ready"}
  BY DEF BoundsInv, Next, vars, initVars, linkVars, InitStep, ethernet_init_all, AllocationFails, eth_init_internal,
     InstallIsrService, InitializeBus, esp_eth_mac_new_enc28j60, NewMac, CheckRevision, esp_eth_phy_new_enc28j60,
     Install, SetAddress, UndoInstance, UndoWithoutHandle, KeepInstance, SetFullDuplex, DeinitInstance, FreeBus,
     ToError, Start, Stop, ethernet_deinit_all, Task, Sender, Link, Wire
<1> QED
  BY <1>1, HeapBound, FrameBound DEF BoundsInv

LEMMA BoundsStart == Init => BoundsInv
  BY FramesAssumption DEF Init, EthernetInitInit, MacInit, IdleSender, BoundsInv

WholeInv == InductiveInv /\ RingInv /\ BoundsInv

LEMMA RingImplies == WholeInv => RxInStep
<1> SUFFICES ASSUME WholeInv PROVE RxInStep
  OBVIOUS
<1>1. InductiveInv /\ RingInv /\ BoundsInv /\ PlaceInv /\ DeviceInv(dev) /\ Sound(dev) /\ HandedInv
  BY PlaceSound DEF WholeInv, RingInv
<1>2. /\ Count \in Nat /\ dev.arrived \in 0 .. Count /\ dev.freed \in 0 .. dev.arrived
      /\ dev.pktcnt \in 0 .. dev.arrived
      /\ dev.next_packet_ptr = PacketStart[dev.freed + 1]
      /\ dev.registers.ERXRDPT \in 0 .. ENC28J60_BUF_RX_END
      /\ Apart(dev.freed + 1, dev.arrived)
      /\ InPlace(dev) => dev.pktcnt = dev.arrived - dev.freed
  BY <1>1, RingIs DEF DeviceInv
<1>3. TypeOK
  <2>1. /\ main \in Places /\ eth_cnt_g \in 0 .. config.number /\ tx_ready_sem \in {0, 1}
    BY <1>1 DEF InductiveInv, ObjectsInv, CountInv, TrafficInv, ThreadsInv
  <2>2. dev.pktcnt \in 0 .. Len(PacketLen) /\ stack \in 0 .. Len(PacketLen)
    <3>1. dev.pktcnt \in 0 .. Count /\ stack \in 0 .. Count
      BY <1>1, <1>2 DEF HandedInv
    <3> QED
      BY <3>1 DEF Count
  <2>3. dev.next_packet_ptr \in 0 .. ENC28J60_BUF_RX_END /\ dev.next_packet_ptr % 2 = 0
    <3>1. dev.freed + 1 \in 1 .. Count + 1
      BY <1>2
    <3> QED
      BY <1>2, <3>1, StartIs
  <2>4. /\ dev.eir \subseteq {"TXIF", "TXERIF"}
        /\ dev.eie \subseteq {"PKTIE", "INTIE", "TXIE", "TXERIE"}
        /\ dev.econ1 \subseteq {"RXEN", "TXRTS", "TXRST"}
        /\ dev.faults \in 0 .. MaxFaults
    BY <1>1 DEF Sound, Typed
  <2>5. /\ result \in {"none", "error", "ready"} /\ sender.frame \in 0 .. MaxFrames
        /\ heap \subseteq {<<"handles", 0>>} \cup ({"mac", "phy", "driver"} \X (1 .. config.number))
    BY <1>1 DEF BoundsInv, Named
  <2> QED
    BY <1>2, <2>1, <2>2, <2>3, <2>4, <2>5 DEF TypeOK, Places
<1>4. dev.last_bank # NoBank /\ "bank" \notin dev.slips => dev.bank = dev.last_bank
  BY <1>1 DEF Sound, Tracked
<1>5. ASSUME dev.slips \cap {"bank", "count", "ERDPT"} = {}
      PROVE  /\ ~dev.lost
             /\ dev.next_packet_ptr = PacketStart[dev.freed + 1]
             /\ dev.pktcnt = dev.arrived - dev.freed
             /\ \A i \in dev.freed + 1 .. dev.arrived : Intact(dev, i)
  <2>1. InPlace(dev)
    BY <1>5 DEF InPlace, Lossy
  <2>2. ~dev.lost
    BY <1>1, <2>1 DEF Sound, Located
  <2>3. ASSUME NEW i \in dev.freed + 1 .. dev.arrived PROVE Intact(dev, i)
    <3>1. dev.freed + 1 \in 1 .. Count /\ dev.arrived \in dev.freed + 1 .. Count
      BY <1>2, <2>3
    <3> QED
      BY <1>2, <2>3, <3>1, ApartIntact
  <2> QED
    BY <1>2, <2>1, <2>2, <2>3
<1> QED
  BY <1>3, <1>4, <1>5 DEF RxInStep

-------------------------------------------------------------------------------
(* The theorems.                                                            *)

(* The invariant of ethernet_init.c's bookkeeping, of the transmitter's     *)
(* semaphore and of the link holds in every behaviour, with or without       *)
(* fairness.                                                                *)
THEOREM Invariance == FairSpec => []InductiveInv
<1>1. Init => InductiveInv
  BY ObjectsStart, TrafficStart DEF InductiveInv
<1>2. InductiveInv /\ [Next]_vars => InductiveInv'
  BY ObjectsSteps, TrafficSteps DEF InductiveInv
<1> QED
  BY <1>1, <1>2, PTL DEF FairSpec

(* ethernet_deinit_all and the error path of eth_init_spi delete only what  *)
(* exists, and an initialisation that failed leaves nothing behind but for  *)
(* a driver that could not be uninstalled and a constructor's device.       *)
THEOREM ObjectsKept == FairSpec => []ObjectsAccounted
<1>1. InductiveInv => ObjectsAccounted
  BY ObjectsImply DEF InductiveInv
<1> QED
  BY <1>1, Invariance, PTL

(* The semaphore of emac_enc28j60_transmit is there only when the           *)
(* transmitter is at rest, unless a caller has given up waiting or the MAC  *)
(* has been stopped with a frame in hand.                                   *)
THEOREM SemaphoreReady == FairSpec => []SemaphoreMeansReady
<1>1. InductiveInv => SemaphoreMeansReady
  BY DEF InductiveInv, TrafficInv, TransmitInv, Astray, FrameInv, NoFrame, SemaphoreMeansReady
<1> QED
  BY <1>1, Invariance, PTL

(* When enc28j60_get_link has noted that the link is up, the MAC receives in *)
(* the PHY's duplex mode, with PKTIE and TXERIE set, whatever failed before  *)
(* but a stop that was half done or an access to another bank.               *)
THEOREM LinkFollowed == FairSpec => []MacFollowsLink
<1>1. InductiveInv => MacFollowsLink
  BY DEF InductiveInv, TrafficInv, LinkInv, Receives, InDuplex, MacFollowsLink
<1> QED
  BY <1>1, Invariance, PTL

(* All of it together is inductive. *)
THEOREM WholeInvariance == FairSpec => []WholeInv
<1>1. Init => WholeInv
  BY ObjectsStart, TrafficStart, RingStart, BoundsStart DEF InductiveInv, WholeInv
<1>2. WholeInv /\ [Next]_vars => WholeInv'
  BY ObjectsSteps, TrafficSteps, RingSteps, BoundsSteps DEF InductiveInv, WholeInv
<1> QED
  BY <1>1, <1>2, PTL DEF FairSpec

(* Whatever fails and however the threads interleave, the bank the driver   *)
(* of the ENC28J60 believes selected is the selected one, it keeps its      *)
(* place in the ring and the chip writes over no packet that has not been   *)
(* freed, but for the failures that slips names.                            *)
THEOREM RingKept == FairSpec => []RxInStep
<1>1. WholeInv => RxInStep
  BY RingImplies
<1> QED
  BY <1>1, WholeInvariance, PTL

(* emac_enc28j60_receive hands the stack every packet at most once and in   *)
(* the order of arrival, and without a failure every one.                   *)
THEOREM StackFed == FairSpec => StackInOrder
<1>1. WholeInv /\ [Next]_vars =>
        [stack' # stack /\ main' # "off" =>
           stack' > stack /\ (dev'.faults = 0 => stack' = stack + 1)]_vars
  BY RingSteps DEF WholeInv, InductiveInv, HandsOver
<1> QED
  BY <1>1, WholeInvariance, PTL DEF FairSpec, StackInOrder

===============================================================================
