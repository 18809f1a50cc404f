------------------------- MODULE BroadcastOnceProofs -------------------------
(***************************************************************************)
(* Proofs about BroadcastOnce for any set of receivers and values: the     *)
(* expect in receive() never fails, no wakeup is lost, and the channel     *)
(* implements OnceCell.                                                    *)
(***************************************************************************)
EXTENDS BroadcastOnce, TLAPS

\* A value is stored exactly when the sender has started to publish.
StoredOnce == sender = "live" <=> data = None

\* Only a completed Notified future lets a receiver past its sleep, and futures
\* are completed after the value was stored.
WokenHasValue ==
    \A r \in Receivers : permit[r] \/ rpc[r] = "woken" => data # None

\* A receiver that subscribed before the announcement is announced to.
SubscribedEarly ==
    \A r \in Receivers :
        rpc[r] \in {"peeked", "waiting"} /\ ~permit[r] => sender \in {"live", "stored"}

IInv ==
    /\ TypeOK
    /\ NoPanic
    /\ StoredOnce
    /\ WokenHasValue
    /\ SubscribedEarly

\* The invariant holds for a new channel.
LEMMA IInvInit == Init => IInv
  BY BroadcastAssumption
  DEF Init, IInv, TypeOK, NoPanic, StoredOnce, WokenHasValue, SubscribedEarly

\* Every step of sender and receivers preserves the invariant.
LEMMA IInvStep == IInv /\ [Next]_vars => IInv'
<1> SUFFICES ASSUME IInv, [Next]_vars
             PROVE  IInv'
  OBVIOUS
<1> USE BroadcastAssumption
        DEF IInv, TypeOK, NoPanic, StoredOnce, WokenHasValue, SubscribedEarly, Locked,
            Subscribed
<1>1. ASSUME NEW v \in Values, Broadcast(v) PROVE IInv'
  BY <1>1 DEF Broadcast
<1>2. CASE DropSender
  BY <1>2 DEF DropSender
<1>3. CASE NotifyWaiters
  BY <1>3 DEF NotifyWaiters
<1>4. CASE Unlock
  BY <1>4 DEF Unlock
<1>5. ASSUME NEW r \in Receivers, Subscribe(r) PROVE IInv'
  BY <1>5 DEF Subscribe
<1>6. ASSUME NEW r \in Receivers, Peek(r) PROVE IInv'
  BY <1>6 DEF Peek
<1>7. ASSUME NEW r \in Receivers, Wake(r) PROVE IInv'
  BY <1>7 DEF Wake
<1>8. ASSUME NEW r \in Receivers, PeekAgain(r) PROVE IInv'
  BY <1>8 DEF PeekAgain
<1>9. ASSUME NEW r \in Receivers, Cancel(r) PROVE IInv'
  BY <1>9 DEF Cancel
<1>10. ASSUME NEW r \in Receivers, Poll(r) PROVE IInv'
  BY <1>10 DEF Poll
<1>11. CASE UNCHANGED vars
  BY <1>11 DEF vars
<1> QED
  BY <1>1, <1>2, <1>3, <1>4, <1>5, <1>6, <1>7, <1>8, <1>9, <1>10,
     <1>11
  DEF Next, SenderStep, ReceiverStep

\* The invariant holds in every reachable state.
LEMMA IInvInvariant == Spec => []IInv
  BY IInvInit, IInvStep, PTL DEF Spec

\* A woken receive() always finds a value (broadcast.rs: "just got notified").
THEOREM NeverPanics == Spec => []NoPanic
<1>1. IInv => NoPanic
  BY DEF IInv
<1> QED
  BY <1>1, IInvInvariant, PTL

\* No receiver sleeps through the announcement of the value.
THEOREM WakeupsArrive == Spec => []NoLostWakeup
<1>1. IInv => NoLostWakeup
  BY DEF IInv, TypeOK, SubscribedEarly, NoLostWakeup
<1> QED
  BY <1>1, IInvInvariant, PTL

\* The channel implements the one-shot cell: the value is published once, never
\* changes, and every receive() returns it.
THEOREM Refinement == Spec => ImplementsOnceCell
<1>1. Init => Cell!Init
  BY DEF Init, Cell!Init
<1>2. IInv /\ [Next]_vars => [Cell!Next]_Cell!vars
  <2> SUFFICES ASSUME IInv, [Next]_vars
               PROVE  Cell!Next \/ UNCHANGED <<data, got>>
    BY DEF Cell!vars
  <2> USE BroadcastAssumption
  <2>1. ASSUME NEW v \in Values, Broadcast(v) PROVE Cell!Publish
    BY <2>1 DEF Broadcast, Cell!Publish, IInv, StoredOnce
  <2>2. CASE DropSender
    BY <2>2 DEF DropSender, Cell!Next, Cell!Publish, IInv, StoredOnce
  <2>3. CASE NotifyWaiters \/ Unlock
    BY <2>3 DEF NotifyWaiters, Unlock
  <2>4. ASSUME NEW r \in Receivers, Subscribe(r) PROVE Cell!Ask(r)
    BY <2>4 DEF Subscribe, Cell!Ask
  <2>5. ASSUME NEW r \in Receivers, Peek(r) PROVE Cell!Answer(r) \/ UNCHANGED <<data, got>>
    BY <2>5 DEF Peek, Cell!Answer
  <2>6. ASSUME NEW r \in Receivers, PeekAgain(r) PROVE Cell!Answer(r)
    BY <2>6 DEF PeekAgain, Cell!Answer, IInv, WokenHasValue
  <2>7. ASSUME NEW r \in Receivers, Wake(r) \/ Poll(r) \/ Cancel(r)
        PROVE  UNCHANGED <<data, got>>
    BY <2>7 DEF Wake, Poll, Cancel
  <2>8. CASE UNCHANGED vars
    BY <2>8 DEF vars
  <2> QED
    BY <2>1, <2>2, <2>3, <2>4, <2>5, <2>6, <2>7, <2>8
    DEF Next, SenderStep, ReceiverStep, Cell!Next
<1> QED
  BY <1>1, <1>2, IInvInvariant, PTL DEF Spec, ImplementsOnceCell, Cell!Spec
=============================================================================
