--------------------------- MODULE MCBroadcastOnce ---------------------------
(* A small instance of BroadcastOnce for TLC.                               *)
EXTENDS BroadcastOnce

CONSTANTS r1, r2, r3

MCReceivers == {r1, r2, r3}
=============================================================================
