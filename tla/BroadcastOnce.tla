---------------------------- MODULE BroadcastOnce ----------------------------
(***************************************************************************)
(* The one-shot broadcast channel between the flush task of a batch and the*)
(* produce() calls of that batch (src/client/producer/broadcast.rs), at the*)
(* grain of its lock and of tokio's Notify.  Publishing (broadcast, or drop*)
(* without a value) stores the value under the write lock, calls           *)
(* notify_waiters and unlocks; receive() creates a Notified future, peeks  *)
(* under the read lock, awaits the future and peeks again.                 *)
(***************************************************************************)

CONSTANTS Receivers, Values, None, Dropped

ASSUME BroadcastAssumption ==
    /\ Dropped # None
    /\ None \notin Values
    /\ Dropped \notin Values
    /\ "panic" \notin Values \cup {None, Dropped}

VARIABLES
    data,    \* Shared::data
    sender,  \* "live", "stored" and "notified" (lock held), "unlocked", "gone"
    rpc,     \* each receiver: "idle", "subscribed", "peeked", "waiting", "woken"
    permit,  \* the receiver's Notified future has been completed
    got      \* what its last receive() returned

vars == <<data, sender, rpc, permit, got>>

\* The states of a receiver in which its Notified future exists.
Subscribed == {"subscribed", "peeked", "waiting"}

Locked == sender \in {"stored", "notified"}

TypeOK ==
    /\ data \in Values \cup {None, Dropped}
    /\ sender \in {"live", "stored", "notified", "unlocked", "gone"}
    /\ rpc \in [Receivers -> {"idle", "subscribed", "peeked", "waiting", "woken"}]
    /\ permit \in [Receivers -> BOOLEAN]
    /\ got \in [Receivers -> Values \cup {None, Dropped, "panic"}]

Init ==
    /\ data = None
    /\ sender = "live"
    /\ rpc = [r \in Receivers |-> "idle"]
    /\ permit = [r \in Receivers |-> FALSE]
    /\ got = [r \in Receivers |-> None]

-----------------------------------------------------------------------------
(* The sender                                                              *)

\* broadcast(v): take the write lock and store the value.
Broadcast(v) ==
    /\ sender = "live"
    /\ sender' = "stored"
    /\ data' = v
    /\ UNCHANGED <<rpc, permit, got>>

\* Variant: the drop handler does not look whether a value was published.
DropAlways ==
    /\ sender \in {"live", "unlocked"}
    /\ sender' = "stored"
    /\ data' = Dropped
    /\ UNCHANGED <<rpc, permit, got>>

\* Drop: publish the error unless broadcast() has published a value.
DropSender ==
    /\ \/ /\ sender = "live"
          /\ sender' = "stored"
          /\ data' = Dropped
       \/ /\ sender = "unlocked"
          /\ sender' = "gone"
          /\ UNCHANGED data
    /\ UNCHANGED <<rpc, permit, got>>

\* Variant: only the receivers that already sleep are woken.
NotifySleeping ==
    /\ sender = "stored"
    /\ sender' = "notified"
    /\ permit' = [r \in Receivers |-> permit[r] \/ rpc[r] = "waiting"]
    /\ UNCHANGED <<data, rpc, got>>

\* notify_waiters: completes every Notified future that exists, polled or not.
NotifyWaiters ==
    /\ sender = "stored"
    /\ sender' = "notified"
    /\ permit' = [r \in Receivers |-> permit[r] \/ rpc[r] \in Subscribed]
    /\ UNCHANGED <<data, rpc, got>>

\* Variant: the lock is kept until no receiver is about to look.
UnlockLast ==
    /\ sender = "notified"
    /\ \A r \in Receivers : rpc[r] \notin {"subscribed", "woken"}
    /\ sender' = "unlocked"
    /\ UNCHANGED <<data, rpc, permit, got>>

\* The guard of broadcast() or drop() is released.
Unlock ==
    /\ sender = "notified"
    /\ sender' = "unlocked"
    /\ UNCHANGED <<data, rpc, permit, got>>

-----------------------------------------------------------------------------
(* The receivers                                                           *)

\* receive(): create the Notified future.
Subscribe(r) ==
    /\ rpc[r] = "idle"
    /\ rpc' = [rpc EXCEPT ![r] = "subscribed"]
    /\ permit' = [permit EXCEPT ![r] = FALSE]
    /\ got' = [got EXCEPT ![r] = None]
    /\ UNCHANGED <<data, sender>>

\* peek(): return the value if there is one, else go on to await the future.
Peek(r) ==
    /\ rpc[r] = "subscribed"
    /\ ~Locked
    /\ \/ /\ data # None
          /\ got' = [got EXCEPT ![r] = data]
          /\ rpc' = [rpc EXCEPT ![r] = "idle"]
       \/ /\ data = None
          /\ rpc' = [rpc EXCEPT ![r] = "peeked"]
          /\ UNCHANGED got
    /\ UNCHANGED <<data, sender, permit>>

\* The first poll of the Notified future queues the receiver as a waiter.
Poll(r) ==
    /\ rpc[r] = "peeked"
    /\ rpc' = [rpc EXCEPT ![r] = "waiting"]
    /\ UNCHANGED <<data, sender, permit, got>>

Wake(r) ==
    /\ rpc[r] = "waiting"
    /\ permit[r]
    /\ rpc' = [rpc EXCEPT ![r] = "woken"]
    /\ UNCHANGED <<data, sender, permit, got>>

\* self.peek().expect("just got notified")
PeekAgain(r) ==
    /\ rpc[r] = "woken"
    /\ ~Locked
    /\ got' = [got EXCEPT ![r] = IF data = None THEN "panic" ELSE data]
    /\ rpc' = [rpc EXCEPT ![r] = "idle"]
    /\ UNCHANGED <<data, sender, permit>>

\* The receive() future is dropped, as by the select! in produce().
Cancel(r) ==
    /\ rpc[r] # "idle"
    /\ rpc' = [rpc EXCEPT ![r] = "idle"]
    /\ UNCHANGED <<data, sender, permit, got>>

-----------------------------------------------------------------------------

SenderStep == (\E v \in Values : Broadcast(v)) \/ DropSender \/ NotifyWaiters \/ Unlock

ReceiverStep(r) == Peek(r) \/ Poll(r) \/ Wake(r) \/ PeekAgain(r)

Next ==
    \/ SenderStep
    \/ \E r \in Receivers : ReceiverStep(r) \/ Subscribe(r) \/ Cancel(r)

Spec == Init /\ [][Next]_vars

\* A started publication is finished and a receiver that can move is polled.
\* Nobody is forced to publish, to call receive() or to give up.
FairSpec ==
    /\ Spec
    /\ WF_vars(NotifyWaiters \/ Unlock)
    /\ \A r \in Receivers : WF_vars(ReceiverStep(r))

-----------------------------------------------------------------------------
(* Properties                                                              *)

\* The expect("just got notified") never fails: a receiver that was woken finds a
\* value.
NoPanic == \A r \in Receivers : got[r] # "panic"

\* No wakeup is lost: a receiver that will sleep although a value was published and
\* announced has its Notified future completed (notified() comes before peek()).
NoLostWakeup ==
    \A r \in Receivers :
        rpc[r] \in {"peeked", "waiting"} /\ sender \notin {"live", "stored"} => permit[r]

\* The channel implements the one-shot cell its users rely on.
Cell == INSTANCE OnceCell WITH value <- data, answer <- got

ImplementsOnceCell == Cell!Spec

\* No lost wakeup: once a value is stored, every receive() in progress returns (or
\* is dropped), also one that subscribed or peeked just before.
ReceiveReturns ==
    \A r \in Receivers :
        (data # None /\ rpc[r] # "idle") ~> (rpc[r] = "idle")
=============================================================================
