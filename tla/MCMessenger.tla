----------------------------- MODULE MCMessenger -----------------------------
(* A small instance of Messenger for TLC.                                  *)
EXTENDS Messenger

CONSTANTS r1, r2

MCRequests == {r1, r2}
=============================================================================
