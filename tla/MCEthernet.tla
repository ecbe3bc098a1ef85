------------------------------- MODULE MCEthernet -------------------------------
(* Instance of Ethernet for TLC: a ring of 16 bytes in which the header of   *)
(* the third packet goes around the end, and which does not hold all three;  *)
(* one module with traffic or two without; no chip, and a chip whose late    *)
(* collisions are retransmitted; a clock too slow for the errata and one     *)
(* that is not.                                                              *)
EXTENDS Ethernet

MCPacketLen == <<2, 4, 2>>

===============================================================================
