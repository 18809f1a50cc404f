---------------------------- MODULE BatchProducer ----------------------------
(***************************************************************************)
(* The batching producer (src/client/producer.rs, producer/batch.rs,       *)
(* producer/aggregator.rs).  produce() calls share one ProducerInner behind*)
(* a mutex; the first call of a batch spawns a linger task that flushes    *)
(* that batch, a batch that is full is flushed by the call that does not   *)
(* fit, and flush() flushes by hand.  A flush moves the aggregated records *)
(* into a background task that calls the Kafka client and broadcasts the   *)
(* result to the calls of the batch.                                       *)
(*                                                                         *)
(* Every element of Callers is one produce() call with one record, every   *)
(* element of Flushers one flush() call.  Each critical section of the     *)
(* mutex is one action.  The broadcast channel of a batch is the field     *)
(* `result` (module BroadcastOnce models it in detail).                    *)
(***************************************************************************)
EXTENDS Integers, Sequences, FiniteSets

CONSTANTS
    Callers,
    Flushers,
    RecordSize,     \* approximate_size() of each caller's record
    MaxBatchSize,   \* RecordAggregator::max_batch_size
    ClockMod,       \* flush_clock wraps at this value (2^64 in the code)
    AggregatorErrors,  \* the aggregator is a custom one that may fail
    ClientErrors,      \* the Kafka client may fail or panic
    Cancellable        \* the calls whose futures may be dropped

ASSUME ProducerAssumption ==
    /\ RecordSize \in [Callers -> Nat \ {0}]
    /\ MaxBatchSize \in Nat
    /\ ClockMod \in Nat \ {0}
    /\ {AggregatorErrors, ClientErrors} \subseteq BOOLEAN
    /\ Cancellable \subseteq Callers \cup Flushers

VARIABLES
    inner,     \* the ProducerInner: current aggregator, clock, linger flag, tasks
    batches,   \* every BatchBuilder so far, the current one last
    pc,        \* each produce() call
    handle,    \* its ResultHandle: batch and tag
    outcome,   \* what it returned
    linger,    \* its linger task
    token,     \* the flush token of that task
    fpc,       \* each flush() call
    awaiting,  \* the tasks a flush() call still has to look at
    joining,   \* the task a flush() call is suspended on, 0 if none
    owed,      \* history: writes pending when the flush() call took the lock
    log,       \* the partition (external)
    alive      \* "up", then "released" with the BatchProducer, then "dropped"

vars == <<inner, batches, pc, handle, outcome, linger, token, fpc, awaiting,
          joining, owed, log, alive>>
caller_vars  == <<pc, handle, outcome, linger, token>>
flusher_vars == <<fpc, awaiting, joining, owed>>

Pending  == [kind |-> "pending", offsets |-> <<>>]
NewBatch == [result |-> Pending, task |-> "none", records |-> <<>>]
TaskDone == {"finished", "panicked", "aborted"}
Active   == {"lingering", "waiting"}

Current == Len(batches)

\* Variant: a task that panicked does not count as ended.
FinishedCleanly(b) == batches[b].task = "finished"

\* JoinHandle::is_finished of a batch's flush task.
IsFinished(b) == batches[b].task \in TaskDone

\* Writes handed to a background task that has not come to an end.
PendingWrites == {b \in 1 .. Current : batches[b].task \notin TaskDone \cup {"none"}}

TypeOK ==
    /\ inner.records \in Seq(Callers)
    /\ inner.batch_size \in Nat
    /\ inner.flush_clock \in 0 .. ClockMod - 1
    /\ inner.has_linger_waiter \in BOOLEAN
    /\ inner.pending_flushes \subseteq 1 .. Current
    /\ \A b \in 1 .. Current :
          /\ batches[b].result.kind \in {"pending", "ok", "client_error", "dropped"}
          /\ batches[b].task \in {"none", "producing", "written"} \cup TaskDone
          /\ batches[b].records \in Seq(Callers)
    /\ pc \in [Callers -> {"idle", "lingering", "waiting", "done", "cancelled"}]
    /\ \A c \in Callers : handle[c].batch \in 0 .. Current /\ handle[c].tag \in Nat
    /\ outcome \in [Callers -> {"none", "ok", "aggregator_error", "too_large",
                                "client_error", "flush_error"}]
    /\ linger \in [Callers -> {"none", "sleeping", "ok", "error"}]
    /\ token \in [Callers -> 0 .. ClockMod - 1]
    /\ fpc \in [Flushers -> {"idle", "awaiting", "ok", "error", "panic", "cancelled"}]
    /\ \A f \in Flushers : /\ awaiting[f] \cup owed[f] \subseteq 1 .. Current
                           /\ joining[f] \in 0 .. Current
    /\ log \in Seq(Callers)
    /\ alive \in {"up", "released", "dropped"}

Init ==
    /\ inner = [records |-> <<>>, batch_size |-> 0, flush_clock |-> 0,
                has_linger_waiter |-> FALSE, pending_flushes |-> {}]
    /\ batches = <<NewBatch>>
    /\ pc = [c \in Callers |-> "idle"]
    /\ handle = [c \in Callers |-> [batch |-> 0, tag |-> 0]]
    /\ outcome = [c \in Callers |-> "none"]
    /\ linger = [c \in Callers |-> "none"]
    /\ token = [c \in Callers |-> 0]
    /\ fpc = [f \in Flushers |-> "idle"]
    /\ awaiting = [f \in Flushers |-> {}]
    /\ joining = [f \in Flushers |-> 0]
    /\ owed = [f \in Flushers |-> {}]
    /\ log = <<>>
    /\ alive = "up"

-----------------------------------------------------------------------------
(* ProducerInner::flush and BatchBuilder::background_flush, as functions of *)
(* the state: `ok` says whether the aggregator's flush succeeds.            *)

\* Aggregator::flush fails only in custom aggregators.
FlushResults == IF AggregatorErrors THEN BOOLEAN ELSE {TRUE}

\* A failed flush leaves the records in the aggregator and drops the channel of
\* the batch; an empty batch is answered at once; otherwise a task takes it.
BackgroundFlush(i, bs, ok) ==
    Append([bs EXCEPT ![Len(bs)] =
              IF ~ok THEN [@ EXCEPT !.result.kind = "dropped"]
              ELSE IF i.records = <<>> THEN [@ EXCEPT !.result.kind = "ok"]
              ELSE [@ EXCEPT !.task = "producing", !.records = i.records]],
           NewBatch)

\* Variant: the aggregator is flushed but not emptied.
RecordsKept(i, ok) == i.records

\* RecordAggregator::flush takes the state.
RecordsAfterFlush(i, ok) == IF ok THEN <<>> ELSE i.records

\* Variant: earlier flush tasks are forgotten.
ForgetTasks(i, bs) == {}

\* pending_flushes.retain_mut(|t| !t.is_finished())
RetainUnfinished(i, bs) == {b \in i.pending_flushes : bs[b].task \notin TaskDone}

\* Variant: the linger flag survives the flush.
FlagKept(i) == i.has_linger_waiter

\* The "need a flusher" flag is reset for the new batch.
FlagAfterFlush(i) == FALSE

\* flush_clock.wrapping_add(1)
ClockAfterFlush(i) == (i.flush_clock + 1) % ClockMod

FlushInner(i, bs, ok) ==
    [records |-> RecordsAfterFlush(i, ok),
     batch_size |-> IF ok THEN 0 ELSE i.batch_size,
     flush_clock |-> ClockAfterFlush(i),
     has_linger_waiter |-> FlagAfterFlush(i),
     pending_flushes |-> RetainUnfinished(i, bs)
                         \cup (IF ok /\ i.records # <<>> THEN {Len(bs)} ELSE {})]

-----------------------------------------------------------------------------
(* produce()                                                               *)

Return(c, o) ==
    /\ pc' = [pc EXCEPT ![c] = "done"]
    /\ outcome' = [outcome EXCEPT ![c] = o]

Fits(i, c) == i.batch_size + RecordSize[c] <= MaxBatchSize

\* RecordAggregator::try_push: the tag is the index of the record in the batch.
PushInner(i, c) ==
    [i EXCEPT !.records = Append(@, c),
              !.batch_size = @ + RecordSize[c],
              !.has_linger_waiter = TRUE]

\* Variant: the tag is taken after the record was added.
TagAfterPush(i) == Len(i.records) + 1

TagOf(i) == Len(i.records)

\* The end of ProducerInner::try_push, with i the inner state and b the batch
\* the record goes to: the first call of a batch gets the linger role.
Accept(c, i, b) ==
    /\ inner' = PushInner(i, c)
    /\ handle' = [handle EXCEPT ![c] = [batch |-> b, tag |-> TagOf(i)]]
    /\ \/ /\ i.has_linger_waiter
          /\ pc' = [pc EXCEPT ![c] = "waiting"]
          /\ UNCHANGED <<linger, token>>
       \/ /\ ~i.has_linger_waiter
          /\ pc' = [pc EXCEPT ![c] = "lingering"]
          /\ linger' = [linger EXCEPT ![c] = "sleeping"]
          /\ token' = [token EXCEPT ![c] = i.flush_clock]
    /\ UNCHANGED outcome

\* Aggregator::try_push fails (custom aggregators): nothing was pushed.
ProduceError(c) ==
    /\ pc[c] = "idle" /\ alive = "up"
    /\ AggregatorErrors
    /\ Return(c, "aggregator_error")
    /\ UNCHANGED <<inner, batches, handle, linger, token, flusher_vars, log, alive>>

\* The record fits the current batch.
ProduceFits(c) ==
    /\ pc[c] = "idle" /\ alive = "up"
    /\ Fits(inner, c)
    /\ Accept(c, inner, Current)
    /\ UNCHANGED <<batches, flusher_vars, log, alive>>

\* The record does not fit: flush, and try once more on the new batch.
ProduceNoCapacity(c) ==
    /\ pc[c] = "idle" /\ alive = "up"
    /\ ~Fits(inner, c)
    /\ \E ok \in FlushResults :
          LET i == FlushInner(inner, batches, ok) IN
          /\ batches' = BackgroundFlush(inner, batches, ok)
          /\ \/ /\ ok /\ Fits(i, c)
                /\ Accept(c, i, Current + 1)
             \/ /\ \/ ok /\ ~Fits(i, c) /\ Return(c, "too_large")
                   \/ AggregatorErrors /\ Return(c, "aggregator_error")
                /\ inner' = i
                /\ UNCHANGED <<handle, linger, token>>
    /\ UNCHANGED <<flusher_vars, log, alive>>

\* Variant: the token is not compared.
LingerFireAlways(c) ==
    /\ linger[c] = "sleeping"
    /\ \E ok \in FlushResults :
          /\ inner' = FlushInner(inner, batches, ok)
          /\ batches' = BackgroundFlush(inner, batches, ok)
          /\ linger' = [linger EXCEPT ![c] = IF ok THEN "ok" ELSE "error"]
    /\ UNCHANGED <<pc, handle, outcome, token, flusher_vars, log, alive>>

\* The linger task wakes up and flushes the batch if its token still matches.
\* It runs on its own, whatever became of the call that spawned it.
LingerFire(c) ==
    /\ linger[c] = "sleeping"
    /\ \/ /\ token[c] # inner.flush_clock
          /\ linger' = [linger EXCEPT ![c] = "ok"]
          /\ UNCHANGED <<inner, batches>>
       \/ /\ token[c] = inner.flush_clock
          /\ \E ok \in FlushResults :
                /\ inner' = FlushInner(inner, batches, ok)
                /\ batches' = BackgroundFlush(inner, batches, ok)
                /\ linger' = [linger EXCEPT ![c] = IF ok THEN "ok" ELSE "error"]
    /\ UNCHANGED <<pc, handle, outcome, token, flusher_vars, log, alive>>

\* The select! arm on the linger task.
LingerJoined(c) ==
    /\ pc[c] = "lingering"
    /\ \/ /\ linger[c] = "ok"
          /\ pc' = [pc EXCEPT ![c] = "waiting"]
          /\ UNCHANGED outcome
       \/ /\ linger[c] = "error"
          /\ Return(c, "aggregator_error")
    /\ UNCHANGED <<inner, batches, handle, linger, token, flusher_vars, log, alive>>

\* handle.wait() and handle.result(): the batch's result is published.
HandleReady(c) ==
    /\ pc[c] \in Active
    /\ LET kind == batches[handle[c].batch].result.kind IN
       \/ kind = "ok" /\ Return(c, "ok")
       \/ kind = "ok" /\ AggregatorErrors /\ Return(c, "aggregator_error")
       \/ kind = "client_error" /\ Return(c, "client_error")
       \/ kind = "dropped" /\ Return(c, "flush_error")
    /\ UNCHANGED <<inner, batches, handle, linger, token, flusher_vars, log, alive>>

\* The produce() future is dropped; the linger task is detached.
CancelProduce(c) ==
    /\ c \in Cancellable
    /\ pc[c] \in Active
    /\ pc' = [pc EXCEPT ![c] = "cancelled"]
    /\ UNCHANGED <<inner, batches, handle, outcome, linger, token, flusher_vars,
                   log, alive>>

-----------------------------------------------------------------------------
(* The background task of a batch, around the Kafka client (external)      *)

\* Batch x with what its channel holds and how far its task is.
WithResult(x, kind, offsets, task) ==
    [result |-> [kind |-> kind, offsets |-> offsets], task |-> task, records |-> x.records]

\* The channel of batch b gets its one value and the task ends.
Conclude(b, kind, offsets, end) ==
    batches' = [batches EXCEPT ![b] = WithResult(@, kind, offsets, end)]

\* client.produce reaches the broker: the records are appended as one run.
TaskWrite(b) ==
    /\ batches[b].task = "producing"
    /\ log' = log \o batches[b].records
    /\ batches' = [batches EXCEPT ![b] =
                     WithResult(@, "pending", [k \in 1 .. Len(@.records) |-> Len(log) + k],
                                "written")]
    /\ UNCHANGED <<inner, caller_vars, flusher_vars, alive>>

\* client.produce returned the offsets; broadcast them.
TaskBroadcast(b) ==
    /\ batches[b].task = "written"
    /\ Conclude(b, "ok", batches[b].result.offsets, "finished")
    /\ UNCHANGED <<inner, caller_vars, flusher_vars, log, alive>>

\* client.produce failed, before or after the broker appended the records.
TaskError(b) ==
    /\ ClientErrors
    /\ batches[b].task \in {"producing", "written"}
    /\ Conclude(b, "client_error", <<>>, "finished")
    /\ UNCHANGED <<inner, caller_vars, flusher_vars, log, alive>>

\* client.produce panicked: the unwound task drops the channel.
TaskPanic(b) ==
    /\ ClientErrors
    /\ batches[b].task \in {"producing", "written"}
    /\ Conclude(b, "dropped", <<>>, "panicked")
    /\ UNCHANGED <<inner, caller_vars, flusher_vars, log, alive>>

TaskStep(b) == TaskWrite(b) \/ TaskBroadcast(b) \/ TaskError(b) \/ TaskPanic(b)

-----------------------------------------------------------------------------
(* BatchProducer::flush                                                    *)

\* Flush under the lock and take the list of outstanding tasks.
ManualFlush(f) ==
    /\ fpc[f] = "idle" /\ alive = "up"
    /\ \E ok \in FlushResults :
          LET i == FlushInner(inner, batches, ok) IN
          /\ batches' = BackgroundFlush(inner, batches, ok)
          /\ owed' = [owed EXCEPT ![f] =
                        PendingWrites \cup (IF inner.records # <<>> THEN {Current} ELSE {})]
          /\ \/ /\ ok
                /\ inner' = [i EXCEPT !.pending_flushes = {}]
                /\ awaiting' = [awaiting EXCEPT ![f] = i.pending_flushes]
                /\ fpc' = [fpc EXCEPT ![f] = "awaiting"]
             \/ /\ ~ok
                /\ inner' = i
                /\ fpc' = [fpc EXCEPT ![f] = "error"]
                /\ UNCHANGED awaiting
    /\ UNCHANGED <<caller_vars, joining, log, alive>>

\* The loop over the outstanding tasks, in the order they were spawned: skip a
\* finished one, else suspend on it.
FlushCheck(f) ==
    /\ fpc[f] = "awaiting" /\ joining[f] = 0
    /\ \/ /\ awaiting[f] = {}
          /\ fpc' = [fpc EXCEPT ![f] = "ok"]
          /\ UNCHANGED <<awaiting, joining>>
       \/ \E b \in awaiting[f] :
             /\ \A b2 \in awaiting[f] : b <= b2
             /\ awaiting' = [awaiting EXCEPT ![f] = @ \ {b}]
             /\ joining' = [joining EXCEPT ![f] = IF IsFinished(b) THEN 0 ELSE b]
             /\ UNCHANGED fpc
    /\ UNCHANGED <<inner, batches, caller_vars, owed, log, alive>>

\* t.await.expect("flush task panic")
FlushJoin(f) ==
    /\ fpc[f] = "awaiting" /\ joining[f] # 0
    /\ IsFinished(joining[f])
    /\ joining' = [joining EXCEPT ![f] = 0]
    /\ fpc' = [fpc EXCEPT ![f] =
                 IF batches[joining[f]].task = "finished" THEN "awaiting" ELSE "panic"]
    /\ UNCHANGED <<inner, batches, caller_vars, awaiting, owed, log, alive>>

\* The flush() future is dropped, and with it the handles it took.
CancelFlush(f) ==
    /\ f \in Cancellable
    /\ fpc[f] = "awaiting"
    /\ fpc' = [fpc EXCEPT ![f] = "cancelled"]
    /\ UNCHANGED <<inner, batches, caller_vars, awaiting, joining, owed, log, alive>>

-----------------------------------------------------------------------------
(* Drop                                                                    *)

\* The BatchProducer is dropped; produce() and flush() borrow it, so none runs.
Release ==
    /\ alive = "up"
    /\ \A c \in Callers : pc[c] \notin Active
    /\ \A f \in Flushers : fpc[f] # "awaiting"
    /\ alive' = "released"
    /\ UNCHANGED <<inner, batches, caller_vars, flusher_vars, log>>

\* The last Arc is gone, linger tasks included: Drop for ProducerInner aborts
\* the tasks it still knows; an aborted task drops the channel of its batch.
DropInner ==
    /\ alive = "released"
    /\ \A c \in Callers : linger[c] # "sleeping"
    /\ alive' = "dropped"
    /\ inner' = [inner EXCEPT !.pending_flushes = {}]
    /\ batches' = [b \in 1 .. Current |->
                     IF b \in inner.pending_flushes /\ ~IsFinished(b)
                     THEN WithResult(batches[b], "dropped", <<>>, "aborted")
                     ELSE batches[b]]
    /\ UNCHANGED <<caller_vars, flusher_vars, log>>

Terminated ==
    /\ alive = "dropped"
    /\ PendingWrites = {}
    /\ UNCHANGED vars

-----------------------------------------------------------------------------

Next ==
    \/ \E c \in Callers : \/ ProduceError(c)
                          \/ ProduceFits(c)
                          \/ ProduceNoCapacity(c)
                          \/ LingerFire(c)
                          \/ LingerJoined(c)
                          \/ HandleReady(c)
                          \/ CancelProduce(c)
    \/ \E b \in 1 .. Current : TaskStep(b)
    \/ \E f \in Flushers : \/ ManualFlush(f)
                           \/ FlushCheck(f)
                           \/ FlushJoin(f)
                           \/ CancelFlush(f)
    \/ Release
    \/ DropInner
    \/ Terminated

Spec == Init /\ [][Next]_vars

\* Timers fire, woken tasks are polled, and the client's produce returns (with
\* its offsets, an error, or a panic).  Calls need not be made or cancelled.
Fairness ==
    /\ \A c \in Callers : /\ WF_vars(LingerFire(c))
                          /\ WF_vars(LingerJoined(c) \/ HandleReady(c))
    /\ WF_vars(\E b \in 1 .. Current : TaskStep(b))
    /\ \A f \in Flushers : WF_vars(FlushCheck(f) \/ FlushJoin(f))

FairSpec == Spec /\ Fairness

-----------------------------------------------------------------------------
(* Properties                                                              *)

\* A batch with waiting calls is never forgotten: while a call waits on the
\* current batch, some linger task is asleep with the token of exactly this batch
\* (has_linger_waiter and flush_clock in ProducerInner), even if the call that
\* spawned it was dropped.
CurrentBatchHasLinger ==
    (\E c \in Callers : pc[c] \in Active /\ handle[c].batch = Current) =>
        \E c \in Callers : /\ linger[c] = "sleeping"
                           /\ token[c] = inner.flush_clock

\* A linger task only ever flushes the batch it was started for: its token keeps
\* it off the batch that replaced it (as long as the clock does not wrap within
\* one linger period).
LingerFlushesOwnBatch ==
    [][\A c \in Callers :
          linger[c] = "sleeping" /\ linger'[c] # "sleeping" /\ Len(batches') > Current
              => handle[c].batch = Current]_vars

\* A call whose batch was written finds at its tag the offset of its own record,
\* so the deaggregator's input[tag] is in bounds and belongs to the caller.
OwnOffset ==
    \A c \in Callers :
        LET h == handle[c] IN
        h.batch # 0 /\ batches[h.batch].result.kind = "ok" =>
            /\ h.tag + 1 \in DOMAIN batches[h.batch].result.offsets
            /\ log[batches[h.batch].result.offsets[h.tag + 1]] = c

\* A record is written at most once, whatever mix of linger, capacity and manual
\* flushes, failed flushes and cancelled calls happens (no retry in this layer).
WrittenAtMostOnce ==
    \A j, k \in 1 .. Len(log) : log[j] = log[k] => j = k

\* The tasks whose handles flush() g took off pending_flushes and has not joined.
TakenBy(g) == awaiting[g] \cup {joining[g]}

\* When flush() returned Ok, a write that was pending when it was called has ended,
\* or another flush() call had taken its handle (mem::take of pending_flushes) and
\* still waits for it, panicked before it got there, or was dropped.  No write is
\* lost sight of in another way: by a flush for capacity or of a linger task, a
\* failed flush, or the removal of finished tasks from the list.
FlushWaitsUnlessTaken ==
    \A f \in Flushers : fpc[f] = "ok" =>
        \A b \in owed[f] \cap PendingWrites : \E g \in Flushers \ {f} : b \in TakenBy(g)

\* What the doc comment of flush() promises: "Blocks until all pending writes to
\* Kafka complete (or fail)".  When flush() returned Ok, every write that was
\* pending when it was called has ended.
FlushWaitsForWrites ==
    \A f \in Flushers : fpc[f] = "ok" => owed[f] \cap PendingWrites = {}

\* Every accepted produce() call that is not dropped returns: a call is made once, so
\* that this is to say that again and again none is under way.
ProduceReturns == []<>(\A c \in Callers : pc[c] \notin Active)

\* Every flush() call that is not dropped returns (or panics with its task).
FlushReturns == []<>(\A f \in Flushers : fpc[f] # "awaiting")

=============================================================================
