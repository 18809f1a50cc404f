------------------------- MODULE MCControllerClient --------------------------
(* A small instance of ControllerClient for TLC.                           *)
EXTENDS ControllerClient, TLC

CONSTANTS a1, a2, a3, lb, b1, b2, c1, c2, r1, s1

MCInitAddr == b1 :> a1 @@ b2 :> a2

\* Administrative calls, and metadata requests of other parts of the program.
MCPrograms == {[calls |-> {c1, c2}, trouble |-> 1],
               [calls |-> {c1, r1}, trouble |-> 1],
               [calls |-> {r1, s1}, trouble |-> 2],
               [calls |-> {c1}, trouble |-> 2]}
=============================================================================
