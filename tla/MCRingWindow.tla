---------------------------- MODULE MCRingWindow ----------------------------
(* Windows of three samples of 12 bits, for TLC. *)
EXTENDS RingWindow

MCSample == -3 .. 4
=============================================================================
