------------------------------ MODULE OnceCell ------------------------------
(***************************************************************************)
(* What the one-shot broadcast channel promises its users (the comments in *)
(* src/client/producer/broadcast.rs): one value, or the news that the      *)
(* sender is gone, is published once and never changes, and every receive()*)
(* returns exactly that.                                                   *)
(***************************************************************************)

CONSTANTS Receivers, Values, None, Dropped

VARIABLES value,   \* what was published, None before
          answer   \* what each receiver's last receive() returned

vars == <<value, answer>>

Init ==
    /\ value = None
    /\ answer = [r \in Receivers |-> None]

Publish ==
    /\ value = None
    /\ value' \in Values \cup {Dropped}
    /\ UNCHANGED answer

Answer(r) ==
    /\ value # None
    /\ answer' = [answer EXCEPT ![r] = value]
    /\ UNCHANGED value

\* A receiver forgets its last answer when it asks again.
Ask(r) ==
    /\ answer' = [answer EXCEPT ![r] = None]
    /\ UNCHANGED value

Next == Publish \/ \E r \in Receivers : Answer(r) \/ Ask(r)

Spec == Init /\ [][Next]_vars
=============================================================================
