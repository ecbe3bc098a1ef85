------------------------------ MODULE Enc28j60Chip ------------------------------
(***************************************************************************)
(* The ENC28J60 Ethernet controller as its driver reaches it over SPI: the *)
(* control registers in four banks, the ring of the receive buffer, and    *)
(* the register accesses of esp_eth_mac_enc28j60.c, each of which may fail *)
(* (the transfer, or the wait for spi_lock or reg_trans_lock).             *)
(*                                                                         *)
(* A device record holds the chip and the driver's emac_enc28j60_t.  A     *)
(* driver function maps a record to the set of its outcomes; Then is the   *)
(* MAC_CHECK that goes on only after a success.  The registers ECON1,      *)
(* ECON2, EIE and EIR are in every bank: only a register access depends on *)
(* the selected bank, and it holds reg_trans_lock, so that such an access  *)
(* with its switch is one step.                                            *)
(***************************************************************************)
EXTENDS Naturals, Sequences, FiniteSets

CONSTANTS
  ENC28J60_BUF_RX_END,     \* the ring is 0 .. ENC28J60_BUF_RX_END
  ENC28J60_RSV_SIZE,       \* the header in front of every packet
  PacketLen,               \* the packets that will arrive, padded to even lengths
  MaxFaults                \* bound on the failures of one history

ASSUME RingAssumption ==
  /\ ENC28J60_BUF_RX_END \in Nat /\ ENC28J60_BUF_RX_END % 2 = 1
  /\ ENC28J60_RSV_SIZE \in Nat /\ ENC28J60_RSV_SIZE % 2 = 0
  /\ PacketLen \in Seq(Nat \ {0})
  /\ \A i \in DOMAIN PacketLen : PacketLen[i] % 2 = 0
  /\ MaxFaults \in Nat

ENC28J60_BUF_RX_START == 0
RingSize == ENC28J60_BUF_RX_END + 1
NoBank == 255

ENC28J60_REV_B1 == 2
ENC28J60_REV_B5 == 5
ENC28J60_REV_B7 == 6

(* The banks of enc28j60.h: bits 8 to 11 of a register's address. *)
BankOf ==
  [ERDPT |-> 0, EWRPT |-> 0, ETXST |-> 0, ETXND |-> 0, ERXST |-> 0, ERXND |-> 0, ERXRDPT |-> 0,
   EHT |-> 1, ERXFCON |-> 1, EPKTCNT |-> 1,
   MACON1 |-> 2, MACON3 |-> 2, MACON4 |-> 2, MABBIPG |-> 2, MAIPG |-> 2,
   MICMD |-> 2, MIREGADR |-> 2, MIWR |-> 2, MIRD |-> 2,
   MAADR |-> 3, MISTAT |-> 3, EREVID |-> 3]

-------------------------------------------------------------------------------
(* Where the chip puts packet i: one behind the other, around the ring. *)
PacketStart[i \in 1 .. Len(PacketLen) + 1] ==
  IF i = 1 THEN ENC28J60_BUF_RX_START
  ELSE (PacketStart[i - 1] + ENC28J60_RSV_SIZE + PacketLen[i - 1]) % RingSize

Slots(i) ==
  {(PacketStart[i] + k) % RingSize : k \in 0 .. ENC28J60_RSV_SIZE + PacketLen[i] - 1}

(* The room between the chip's write pointer and ERXRDPT, which it never passes. *)
FreeSpace(d) ==
  (RingSize + d.registers.ERXRDPT - PacketStart[d.arrived + 1]) % RingSize

(* The packet whose header is read at an address; 0 is garbage. *)
PacketAt(d, address) ==
  LET here == {i \in 1 .. d.arrived : PacketStart[i] = address}
  IN  IF here = {} THEN 0 ELSE CHOOSE i \in here : \A j \in here : j <= i

Intact(d, i) == \A j \in i + 1 .. d.arrived : Slots(i) \cap Slots(j) = {}

-------------------------------------------------------------------------------
(* esp_eth_mac_new_enc28j60's record, and the chip as it was left. *)
NewDevice(revision, faults) ==
  [ \* the chip
    revisionID |-> revision, bank |-> 0, econ1 |-> {}, eie |-> {}, eir |-> {},
    registers |-> [ERDPT |-> 0, ERXRDPT |-> 0, MACON3 |-> "half"],
    pktcnt |-> 0, arrived |-> 0, lateCollision |-> FALSE,
    phy |-> [power |-> TRUE, duplex |-> "half", loopback |-> TRUE], cable |-> FALSE,
    \* the driver
    last_bank |-> NoBank, next_packet_ptr |-> ENC28J60_BUF_RX_START,
    packets_remain |-> FALSE, revision |-> 0, link_status |-> "DOWN",
    notified |-> FALSE,
    \* the history: failures, the packets freed, what may have lost the driver's
    \* place in the ring or the interrupts, and that a garbage read has lost it
    faults |-> faults, freed |-> 0, slips |-> {}, lost |-> FALSE]

Done(d) == {[dev |-> d, ok |-> TRUE]}

MayFail(d) == d.faults < MaxFaults
Failed(d) == IF MayFail(d) THEN {[dev |-> [d EXCEPT !.faults = @ + 1], ok |-> FALSE]} ELSE {}

(* MAC_CHECK: the next call after a success, the way out after a failure. *)
Then(outcomes, Next(_)) ==
  UNION {IF o.ok THEN Next(o.dev) ELSE {o} : o \in outcomes}

(* One SPI transaction, under spi_lock, that makes e of d. *)
Transaction(d, e) == Done(e) \cup Failed(d)

Slip(d, cause) == [d EXCEPT !.slips = @ \cup {cause}]

enc28j60_do_bitwise_set(d, register, bits) == Transaction(d, [d EXCEPT ![register] = @ \cup bits])
enc28j60_do_bitwise_clr(d, register, bits) == Transaction(d, [d EXCEPT ![register] = @ \ bits])

(* A register that is not in the selected bank is another register. *)
enc28j60_do_register_write(d, register, value) ==
  Transaction(d, IF d.bank # BankOf[register] THEN [d EXCEPT !.lost = TRUE]
                 ELSE IF register \in DOMAIN d.registers
                      THEN [d EXCEPT !.registers[register] = value] ELSE d)
enc28j60_do_register_read(d, register) ==
  Transaction(d, IF d.bank # BankOf[register] THEN [d EXCEPT !.lost = TRUE] ELSE d)

enc28j60_do_memory_write(d) == Transaction(d, d)
(* ERDPT moves on with the bytes read; the driver writes it anew before it *)
(* reads again, and what is left in it is not kept.                        *)
enc28j60_do_memory_read(d) == Transaction(d, [d EXCEPT !.registers.ERDPT = 0])

(* The chip is as after power-on: bank 0, no interrupts. *)
enc28j60_do_reset(d) ==
  Transaction(d, [d EXCEPT !.bank = 0, !.econ1 = {}, !.eie = {}, !.eir = {}, !.pktcnt = 0])

(* The cache of the bank is set once both transactions are through; a set   *)
(* that fails leaves the chip in bank 0.                                    *)
enc28j60_switch_register_bank(d, bank) ==
  IF bank = d.last_bank THEN Done(d)
  ELSE Then(Transaction(d, [d EXCEPT !.bank = 0]), LAMBDA c :
            {IF o.ok THEN [o EXCEPT !.dev.last_bank = bank]
             ELSE [o EXCEPT !.dev = Slip(@, "bank")]
               : o \in Transaction(c, [c EXCEPT !.bank = bank])})

enc28j60_register_write(d, register, value) ==
  Then(enc28j60_switch_register_bank(d, BankOf[register]), LAMBDA s :
       enc28j60_do_register_write(s, register, value))
enc28j60_register_read(d, register) ==
  Then(enc28j60_switch_register_bank(d, BankOf[register]), LAMBDA s :
       enc28j60_do_register_read(s, register))

(* The low byte, then the high byte, with which the value takes effect. *)
WritePair(d, register, value) ==
  Then(enc28j60_register_write(d, register, d.registers[register]), LAMBDA low :
       enc28j60_register_write(low, register, value))
TouchPair(d, register) ==
  Then(enc28j60_register_write(d, register, 0), LAMBDA low :
       enc28j60_register_write(low, register, 0))
===============================================================================
