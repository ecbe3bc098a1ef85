----------------------------- MODULE MCFrameReader -----------------------------
(* Instance of FrameReader for TLC: a frame without 0xF4 in its data and one  *)
(* whose movement distance has it as its low byte.                            *)
EXTENDS FrameReader

MCFrames == {[id |-> 1, alias |-> 0], [id |-> 2, alias |-> 10]}
===============================================================================
