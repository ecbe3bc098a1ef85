------------------------------ MODULE Enc28j60Phy -------------------------------
(***************************************************************************)
(* The rest of esp_eth_mac_enc28j60.c, what the Ethernet driver calls to   *)
(* set the chip up and to start and stop it, and esp_eth_phy_enc28j60.c,   *)
(* with the check of the link the driver's timer makes: the thread link.   *)
(* esp_eth itself, which is not in the repository, is modelled by what the *)
(* two drivers use of it: on_state_changed calls set_speed, set_duplex and *)
(* set_link of the MAC, and phy_reg_read and phy_reg_write the MAC's.      *)
(***************************************************************************)
EXTENDS Enc28j60Mac

VARIABLE link              \* enc28j60_get_link: place, what it has read

linkVars == <<macVars, link>>

IdleLink == [pc |-> "idle", seen |-> "DOWN"]

-------------------------------------------------------------------------------
(* The registers of the PHY, behind MIREGADR, MIWR, MIRD and MISTAT.  A PHY  *)
(* that stays busy is a failure like the others.                             *)
WaitNotBusy(d) == enc28j60_register_read(d, "MISTAT")

emac_enc28j60_write_phy_reg(d, phy) ==
  Then(WaitNotBusy(d), LAMBDA a :
  Then(enc28j60_register_write(a, "MIREGADR", 0), LAMBDA b :
  Then(enc28j60_register_write(b, "MIWR", 0), LAMBDA c :
  Then({IF o.ok THEN [o EXCEPT !.dev.phy = phy] ELSE o
          : o \in enc28j60_register_write(c, "MIWR", 0)}, WaitNotBusy))))

emac_enc28j60_read_phy_reg(d) ==
  Then(WaitNotBusy(d), LAMBDA a :
  Then(enc28j60_register_write(a, "MIREGADR", 0), LAMBDA b :
  Then(enc28j60_register_write(b, "MICMD", 1), LAMBDA c :
  Then(WaitNotBusy(c), LAMBDA e :
  Then(enc28j60_register_write(e, "MICMD", 0), LAMBDA f :
  Then(enc28j60_register_read(f, "MIRD"), LAMBDA g : enc28j60_register_read(g, "MIRD")))))))

(* A bit of a PHY register set anew, the others kept. *)
UpdatePhy(d, phy) ==
  Then(emac_enc28j60_read_phy_reg(d), LAMBDA r : emac_enc28j60_write_phy_reg(r, phy))

enc28j60_pwrctl_on(d) ==
  Then(UpdatePhy(d, [d.phy EXCEPT !.power = TRUE]), emac_enc28j60_read_phy_reg)

(* The reset sets the PHY's registers back; it is through at the first look. *)
enc28j60_reset(d) ==
  LET down == [d EXCEPT !.link_status = "DOWN"]
  IN  Then(emac_enc28j60_write_phy_reg(down, [power |-> TRUE, duplex |-> "half", loopback |-> TRUE]),
           emac_enc28j60_read_phy_reg)

enc28j60_set_duplex(d, duplex) ==
  LET down == [d EXCEPT !.link_status = "DOWN"]
  IN  UpdatePhy(down, [d.phy EXCEPT !.duplex = duplex])

enc28j60_init(d) ==
  Then(enc28j60_pwrctl_on(d), LAMBDA a :
  Then(enc28j60_reset(a), LAMBDA b :
  Then(emac_enc28j60_read_phy_reg(b), LAMBDA id1 :
  Then(emac_enc28j60_read_phy_reg(id1), LAMBDA id2 :
       UpdatePhy(id2, [id2.phy EXCEPT !.loopback = FALSE])))))

-------------------------------------------------------------------------------
(* The MAC as the Ethernet driver sets it up. *)
enc28j60_verify_id(d) ==
  Then({IF o.ok THEN [o EXCEPT !.dev.revision = o.dev.revisionID] ELSE o
          : o \in enc28j60_register_read(d, "EREVID")}, LAMBDA r :
       {[dev |-> r, ok |-> r.revision \in ENC28J60_REV_B1 .. ENC28J60_REV_B7]})

(* Six and seven registers of one bank.  The first write may have to switch *)
(* to it; of the others, each fails as the second does.                     *)
enc28j60_set_mac_addr(d) == TouchPair(d, "MAADR")
enc28j60_clear_multicast_table(d) == TouchPair(d, "EHT")

enc28j60_setup_default(d) ==
  Then(TouchPair(d, "ERXST"), LAMBDA a :
  Then(TouchPair(a, "ERXND"), LAMBDA b :
  Then(WritePair(b, "ERXRDPT", enc28j60_next_ptr_align_odd(ENC28J60_BUF_RX_START)), LAMBDA c :
  Then(TouchPair(c, "ETXST"), LAMBDA e :
  Then(enc28j60_register_write(e, "ERXFCON", 0), LAMBDA f :
  Then(enc28j60_register_write(f, "MACON1", 0), LAMBDA g :
  Then(enc28j60_register_write(g, "MACON3", "half"), LAMBDA h :
  Then(enc28j60_register_write(h, "MACON4", 0), LAMBDA i :
  Then(enc28j60_register_write(i, "MABBIPG", 18), LAMBDA j : TouchPair(j, "MAIPG"))))))))))

emac_enc28j60_init(d) ==
  Then(enc28j60_do_reset(d), LAMBDA a :
  Then(enc28j60_verify_id(a), LAMBDA b :
  Then(enc28j60_setup_default(b), enc28j60_clear_multicast_table)))

emac_enc28j60_set_duplex(d, duplex) ==
  Then(enc28j60_register_read(d, "MACON3"), LAMBDA a :
  Then(enc28j60_register_write(a, "MABBIPG", IF duplex = "half" THEN 18 ELSE 21), LAMBDA b :
       enc28j60_register_write(b, "MACON3", duplex)))

-------------------------------------------------------------------------------
(* The check of the link.  link_status keeps its value until all that it    *)
(* stands for has been done, so that the next check does the rest again.    *)
LinkTurn(outcomes, done) ==
  \E o \in outcomes :
    /\ Becomes(o.dev)
    /\ link' = IF o.ok THEN [link EXCEPT !.pc = done] ELSE IdleLink

Noted(outcomes, seen) ==
  {IF o.ok THEN [o EXCEPT !.dev.link_status = seen] ELSE o : o \in outcomes}

LastTurn(outcomes) == LinkTurn(Noted(outcomes, link.seen), "idle")

KeptAtOnce(d, seen) == [d EXCEPT !.link_status = seen]
KeptLater(d, seen) == d

(* The cable may have been plugged or unplugged since the last check. *)
ReadLink ==
  /\ link.pc = "idle"
  /\ \E read \in emac_enc28j60_read_phy_reg(dev), cable \in BOOLEAN :
       LET seen == IF cable THEN "UP" ELSE "DOWN"
           looked == [read.dev EXCEPT !.cable = cable]
           changed == read.ok /\ seen # looked.link_status
       IN  /\ Becomes(IF changed THEN KeptLater(looked, seen) ELSE looked)
           /\ link' = [pc |-> IF ~changed THEN "idle"
                              ELSE IF seen = "UP" THEN "duplex" ELSE "stop",
                       seen |-> seen]

(* emac_enc28j60_start *)
DuplexAndFlags(d) ==
  Then(emac_enc28j60_set_duplex(d, d.phy.duplex), LAMBDA e :
       enc28j60_do_bitwise_clr(e, "eir", {"TXIF", "TXERIF"}))

ClearFlags ==
  /\ link.pc = "duplex"
  /\ LinkTurn(DuplexAndFlags(dev), "enable")

Enable(d) ==
  Then(enc28j60_do_bitwise_set(d, "eie", {"PKTIE", "INTIE", "TXERIE"}), LAMBDA e :
       enc28j60_do_bitwise_set(e, "econ1", {"RXEN"}))

EnableReceiver ==
  /\ link.pc = "enable"
  /\ LinkTurn(Enable(dev), "pointer")

(* The pointer may be taken from under the task's read. *)
UnderRead(d) ==
  IF task.pc \in {"header", "content"} THEN Slip(d, "ERDPT") ELSE d

ResetReadPointer ==
  /\ link.pc = "pointer"
  /\ LastTurn(WritePair(UnderRead(dev), "ERDPT", 0))

(* emac_enc28j60_stop.  Half a stop is not undone when the cable comes back, *)
(* and TXIE goes with the rest: a frame in hand no longer gives the          *)
(* semaphore back in its turn.                                               *)
StopMac(d) ==
  Then(enc28j60_do_bitwise_clr(d, "eie", {"PKTIE", "INTIE", "TXIE", "TXERIE"}), LAMBDA e :
       {IF o.ok THEN o ELSE [o EXCEPT !.dev = Slip(@, "stop")]
          : o \in enc28j60_do_bitwise_clr(e, "econ1", {"RXEN"})})

WithFrame(d) == IF tx_ready_sem = 0 THEN Slip(d, "frame") ELSE d

LinkLost ==
  /\ link.pc = "stop"
  /\ LastTurn(StopMac(WithFrame(dev)))

enc28j60_get_link ==
  /\ UNCHANGED <<tx_ready_sem, task, sender, stack>>
  /\ ReadLink \/ ClearFlags \/ EnableReceiver \/ ResetReadPointer \/ LinkLost
===============================================================================
