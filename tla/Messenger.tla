------------------------------ MODULE Messenger ------------------------------
(***************************************************************************)
(* A connection to one broker (src/messenger.rs): concurrent `request`     *)
(* calls share the write half of the stream through an async mutex, a      *)
(* background task reads responses and hands each one to the call that     *)
(* owns its correlation id, and the first stream error poisons the         *)
(* connection.  A call is a future: dropping it cancels it at whichever    *)
(* await it is suspended in.                                               *)
(*                                                                         *)
(* Every element of Requests is one call.  Its oneshot receiver is         *)
(* channel[r]; the sender is the entry request_map[corr[r]] = r, or `held` *)
(* while the reader task has taken it out of the map and not yet used it.  *)
(***************************************************************************)
EXTENDS Integers

CONSTANTS
    Requests,    \* the calls made on this connection
    Nobody,      \* absence of a request
    NumIds,      \* number of correlation ids (2^32 in the code, an AtomicI32)
    ReplyKinds   \* the kinds of response frame this broker produces

AllReplyKinds == {"good", "bad_header", "bad_tags", "bad_body", "extra_data"}

ASSUME MessengerAssumption ==
    /\ Nobody \notin Requests
    /\ NumIds \in Nat \ {0}
    /\ ReplyKinds \subseteq AllReplyKinds

VARIABLES
    pc,              \* where each call is suspended
    outcome,         \* what a finished call returned
    corr,            \* correlation id of each call
    correlation_id,  \* the shared counter
    state,           \* MessengerState: "RequestMap" or "Poison"
    request_map,     \* the map of MessengerState::RequestMap
    channel,         \* content of each call's oneshot channel
    writer,          \* holder of the stream_write mutex
    written,         \* the holder's frame is completely on the wire
    torn,            \* a partial frame is on the wire
    write_err,       \* calls whose write or flush returned an error
    delivered,       \* requests the broker received and has not answered
    frames,          \* response frames on their way to the client
    reader,          \* the background task
    held             \* the active request the background task is serving

req_vars    == <<pc, outcome, corr, correlation_id>>
state_vars  == <<state, request_map, channel>>
write_vars  == <<writer, written, torn, write_err>>
broker_vars == <<delivered, frames>>
reader_vars == <<reader, held>>
vars == <<req_vars, state_vars, write_vars, broker_vars, reader_vars>>

Ids  == 0 .. NumIds - 1
NoId == -1

PCs == {"idle", "prepared", "queued", "writing", "failed", "sent", "done",
        "cancelled",   \* dropped before message_sent()
        "abandoned"}   \* dropped while waiting for the response
Outcomes == {"none", "ok", "no_version", "write_error", "poisoned",
             "read_error", "read_versioned_error", "too_much_data", "panic"}

Frame   == [id : Ids, req : Requests, kind : AllReplyKinds]
Content == [tag  : {"empty", "closed", "poisoned", "read_error", "response"},
            req  : Requests \cup {Nobody},
            kind : AllReplyKinds \cup {"none"}]
Holding == [to   : Requests \cup {Nobody},
            req  : Requests \cup {Nobody},
            kind : AllReplyKinds \cup {"none"}]

Signal(t)   == [tag |-> t, req |-> Nobody, kind |-> "none"]
NothingHeld == [to |-> Nobody, req |-> Nobody, kind |-> "none"]

\* The calls that still use their receiver, and the calls that no longer run.
Waiting  == {"queued", "writing", "failed", "sent"}
Finished == {"done", "cancelled", "abandoned"}

TypeOK ==
    /\ pc \in [Requests -> PCs]
    /\ outcome \in [Requests -> Outcomes]
    /\ corr \in [Requests -> Ids \cup {NoId}]
    /\ correlation_id \in Ids
    /\ state \in {"RequestMap", "Poison"}
    /\ request_map \in [Ids -> Requests \cup {Nobody}]
    /\ channel \in [Requests -> Content]
    /\ writer \in Requests \cup {Nobody}
    /\ written \in BOOLEAN
    /\ torn \in BOOLEAN
    /\ write_err \subseteq Requests
    /\ delivered \subseteq Requests
    /\ frames \subseteq Frame
    /\ reader \in {"reading", "dispatching", "stopped", "aborted"}
    /\ held \in Holding

Init ==
    /\ pc = [r \in Requests |-> "idle"]
    /\ outcome = [r \in Requests |-> "none"]
    /\ corr = [r \in Requests |-> NoId]
    /\ correlation_id = 0
    /\ state = "RequestMap"
    /\ request_map = [i \in Ids |-> Nobody]
    /\ channel = [r \in Requests |-> Signal("empty")]
    /\ writer = Nobody
    /\ written = FALSE
    /\ torn = FALSE
    /\ write_err = {}
    /\ delivered = {}
    /\ frames = {}
    /\ reader = "reading"
    /\ held = NothingHeld

-----------------------------------------------------------------------------
(* Helpers                                                                 *)

Return(r, o) ==
    /\ pc' = [pc EXCEPT ![r] = "done"]
    /\ outcome' = [outcome EXCEPT ![r] = o]

\* fetch_add on an AtomicI32 wraps around.
FetchAdd(id) == (id + 1) % NumIds

\* A oneshot sender that is dropped unused closes its channel.
DropSender(r) ==
    IF r \in Requests /\ channel[r].tag = "empty"
    THEN [channel EXCEPT ![r] = Signal("closed")]
    ELSE channel

\* Variant: the map is replaced without informing the requests in it.
PoisonUninformed ==
    \/ state = "Poison" /\ UNCHANGED state_vars
    \/ /\ state = "RequestMap"
       /\ state' = "Poison"
       /\ request_map' = [i \in Ids |-> Nobody]
       /\ channel' = [r \in Requests |->
                        IF /\ \E i \in Ids : request_map[i] = r
                           /\ channel[r].tag = "empty"
                        THEN Signal("closed")
                        ELSE channel[r]]

\* MessengerState::poison: drain the map into the waiting channels; a second
\* poisoning keeps the first error.
Poison ==
    \/ /\ state = "Poison"
       /\ UNCHANGED state_vars
    \/ /\ state = "RequestMap"
       /\ state' = "Poison"
       /\ request_map' = [i \in Ids |-> Nobody]
       /\ channel' = [r \in Requests |->
                        IF \E i \in Ids : request_map[i] = r
                        THEN Signal("poisoned")
                        ELSE channel[r]]

\* Bound: an id that a call, the map, the broker or a frame still uses is not
\* handed out again, that is, fewer than 2^32 requests are outstanding.
IdInUse(id) ==
    \/ request_map[id] # Nobody
    \/ \E r \in Requests : /\ corr[r] = id
                           /\ \/ pc[r] \in Waiting \cup {"prepared"}
                              \/ r \in delivered
                              \/ writer = r
    \/ \E f \in frames : f.id = id

-----------------------------------------------------------------------------
(* request_with_version_ranges                                             *)

\* No common version: the call fails before it takes a correlation id.
NoVersionMatch(r) ==
    /\ pc[r] = "idle"
    /\ reader # "aborted"
    /\ Return(r, "no_version")
    /\ UNCHANGED <<corr, correlation_id, state_vars, write_vars, broker_vars,
                   reader_vars>>

\* Take a correlation id and serialise the request into a private buffer.
Prepare(r) ==
    /\ pc[r] = "idle"
    /\ reader # "aborted"
    /\ ~IdInUse(correlation_id)
    /\ corr' = [corr EXCEPT ![r] = correlation_id]
    /\ correlation_id' = FetchAdd(correlation_id)
    /\ \/ /\ pc' = [pc EXCEPT ![r] = "prepared"]
          /\ UNCHANGED outcome
       \/ Return(r, "write_error")     \* msg.write_versioned(..)?
    /\ UNCHANGED <<state_vars, write_vars, broker_vars, reader_vars>>

\* Variant: the state is not looked at again when the entry is added.
InsertUnchecked(r) ==
    /\ pc[r] = "prepared"
    /\ request_map' = IF state = "RequestMap"
                      THEN [request_map EXCEPT ![corr[r]] = r] ELSE request_map
    /\ pc' = [pc EXCEPT ![r] = "queued"]
    /\ UNCHANGED <<outcome, corr, correlation_id, state, channel, write_vars,
                   broker_vars, reader_vars>>

\* Register the sender under the state lock, or learn that the stream is dead.
\* HashMap::insert drops whatever sender the id had before.
Insert(r) ==
    /\ pc[r] = "prepared"
    /\ \/ /\ state = "RequestMap"
          /\ request_map' = [request_map EXCEPT ![corr[r]] = r]
          /\ channel' = DropSender(request_map[corr[r]])
          /\ pc' = [pc EXCEPT ![r] = "queued"]
          /\ UNCHANGED <<outcome, state>>
       \/ /\ state = "Poison"
          /\ Return(r, "poisoned")
          /\ UNCHANGED state_vars
    /\ UNCHANGED <<corr, correlation_id, write_vars, broker_vars, reader_vars>>

\* What rx.await and the decoding of the body make of the channel's content.
Decode(c) ==
    CASE c.tag = "closed"       -> "panic"
      [] c.tag = "poisoned"     -> "poisoned"
      [] c.tag = "read_error"   -> "read_error"
      [] c.kind = "bad_body"    -> "read_versioned_error"
      [] c.kind = "extra_data"  -> "too_much_data"
      [] OTHER                  -> "ok"

Receive(r) ==
    /\ pc[r] = "sent"
    /\ channel[r].tag # "empty"
    /\ Return(r, Decode(channel[r]))
    /\ UNCHANGED <<corr, correlation_id, state_vars, write_vars, broker_vars,
                   reader_vars>>

-----------------------------------------------------------------------------
(* send_message, send_message_inner and the CancellationSafeFuture         *)

LockWriter(r) ==
    /\ pc[r] = "queued"
    /\ writer = Nobody
    /\ writer' = r
    /\ written' = FALSE
    /\ pc' = [pc EXCEPT ![r] = "writing"]
    /\ UNCHANGED <<outcome, corr, correlation_id, state_vars, torn, write_err,
                   broker_vars, reader_vars>>

\* The last byte of the frame leaves.  The write is driven by the call, or by
\* the task that rescued it when the call was dropped.  Behind a partial frame
\* the broker cannot make out the request.
PutOnWire ==
    /\ writer # Nobody
    /\ ~written
    /\ written' = TRUE
    /\ delivered' = IF torn THEN delivered ELSE delivered \cup {writer}
    /\ UNCHANGED <<req_vars, state_vars, writer, torn, write_err, frames,
                   reader_vars>>

\* Write and flush returned Ok: the guard is dropped and, if the call is still
\* there, message_sent() disarms its cleanup.
WriteOk ==
    /\ writer # Nobody
    /\ written
    /\ writer' = Nobody
    /\ pc' = IF pc[writer] = "writing" THEN [pc EXCEPT ![writer] = "sent"] ELSE pc
    /\ UNCHANGED <<outcome, corr, correlation_id, state_vars, written, torn,
                   write_err, broker_vars, reader_vars>>

\* Write or flush returned an error, possibly in the middle of the frame.  The
\* guard is dropped before the error reaches send_message; the rescue task
\* discards it.
WriteFail ==
    /\ writer # Nobody
    /\ writer' = Nobody
    /\ write_err' = write_err \cup {writer}
    /\ \/ torn' = torn
       \/ ~written /\ torn' = TRUE
    /\ pc' = IF pc[writer] = "writing" THEN [pc EXCEPT ![writer] = "failed"] ELSE pc
    /\ UNCHANGED <<outcome, corr, correlation_id, state_vars, written,
                   broker_vars, reader_vars>>

\* CleanupRequestStateOnCancel::drop with message_sent = false.
CleanupEntry(r) ==
    \/ /\ state = "RequestMap"
       /\ request_map' = [request_map EXCEPT ![corr[r]] = Nobody]
       /\ channel' = DropSender(request_map[corr[r]])
       /\ UNCHANGED state
    \/ state = "Poison" /\ UNCHANGED state_vars

\* Variant: a failed write is only reported to its own caller.
FailWithoutPoison(r) ==
    /\ pc[r] = "failed"
    /\ CleanupEntry(r)
    /\ Return(r, "write_error")
    /\ UNCHANGED <<corr, correlation_id, write_vars, broker_vars, reader_vars>>

\* The error arm of send_message; the cleanup guard dropped on the way out
\* finds a poisoned state and does nothing.
PoisonAfterWrite(r) ==
    /\ pc[r] = "failed"
    /\ Poison
    /\ Return(r, "poisoned")
    /\ UNCHANGED <<corr, correlation_id, write_vars, broker_vars, reader_vars>>

-----------------------------------------------------------------------------
(* Cancellation: the future is dropped at one of its awaits                *)

\* Variant: no cleanup guard.
CancelWithoutCleanup(r) ==
    /\ pc[r] \in {"queued", "writing"}
    /\ pc' = [pc EXCEPT ![r] = "cancelled"]
    /\ UNCHANGED <<outcome, corr, correlation_id, state_vars, write_vars,
                   broker_vars, reader_vars>>

\* Variant: no CancellationSafeFuture, the write dies with the call.
CancelWithoutRescue(r) ==
    /\ pc[r] \in {"queued", "writing"}
    /\ pc' = [pc EXCEPT ![r] = "cancelled"]
    /\ CleanupEntry(r)
    /\ IF writer = r
       THEN writer' = Nobody /\ torn' = (torn \/ ~written)
       ELSE UNCHANGED <<writer, torn>>
    /\ UNCHANGED <<outcome, corr, correlation_id, written, write_err,
                   broker_vars, reader_vars>>

\* Dropped while waiting for the mutex, or inside the write: there the write
\* goes on in a rescue task that keeps the mutex.
CancelBeforeSent(r) ==
    /\ pc[r] \in {"queued", "writing"}
    /\ pc' = [pc EXCEPT ![r] = "cancelled"]
    /\ CleanupEntry(r)
    /\ UNCHANGED <<outcome, corr, correlation_id, write_vars, broker_vars,
                   reader_vars>>

\* Dropped while waiting for the response: the entry stays until it is served.
CancelAfterSent(r) ==
    /\ pc[r] = "sent"
    /\ pc' = [pc EXCEPT ![r] = "abandoned"]
    /\ UNCHANGED <<outcome, corr, correlation_id, state_vars, write_vars,
                   broker_vars, reader_vars>>

-----------------------------------------------------------------------------
(* The broker (external) and the background task of Messenger::new         *)

\* The broker answers a request it received, in any order.
BrokerReply(r, kind) ==
    /\ r \in delivered
    /\ delivered' = delivered \ {r}
    /\ frames' = frames \cup {[id |-> corr[r], req |-> r, kind |-> kind]}
    /\ UNCHANGED <<req_vars, state_vars, write_vars, reader_vars>>

\* Variant: answers are assumed to come in the order of the ids.
OldestKey(f) ==
    IF \E i \in Ids : request_map[i] # Nobody
    THEN CHOOSE i \in Ids : /\ request_map[i] # Nobody
                            /\ \A j \in Ids : request_map[j] # Nobody => i <= j
    ELSE f.id

\* The key under which a response finds its request: header.correlation_id.
ResponseKey(f) == f.id

\* read_message returned a frame: skip it if its header is unreadable or its id
\* unknown, stop if the stream is poisoned, else take the request out of the map.
ReadFrame(f) ==
    /\ reader = "reading"
    /\ f \in frames
    /\ frames' = frames \ {f}
    /\ \/ /\ f.kind = "bad_header"
          /\ UNCHANGED <<request_map, reader_vars>>
       \/ /\ f.kind # "bad_header"
          /\ state = "Poison"
          /\ reader' = "stopped"
          /\ UNCHANGED <<request_map, held>>
       \/ /\ f.kind # "bad_header"
          /\ state = "RequestMap"
          /\ LET id == ResponseKey(f)
                 q  == request_map[id]
             IN
             \/ q = Nobody /\ UNCHANGED <<request_map, reader_vars>>
             \/ /\ q # Nobody
                /\ request_map' = [request_map EXCEPT ![id] = Nobody]
                /\ reader' = "dispatching"
                /\ held' = [to |-> q, req |-> f.req, kind |-> f.kind]
    /\ UNCHANGED <<req_vars, state, channel, write_vars, delivered>>

\* The state lock is released; send the response, or the error of reading the
\* tagged fields, to the request.  The receiver may be gone.
Dispatch ==
    /\ reader = "dispatching"
    /\ channel' = [channel EXCEPT ![held.to] =
                     IF held.kind = "bad_tags" THEN Signal("read_error")
                     ELSE [tag |-> "response", req |-> held.req, kind |-> held.kind]]
    /\ reader' = "reading"
    /\ held' = NothingHeld
    /\ UNCHANGED <<req_vars, state, request_map, write_vars, broker_vars>>

\* Variant: the reader ends without poisoning the stream.
ReadFailUnpoisoned ==
    /\ reader = "reading"
    /\ reader' = "stopped"
    /\ UNCHANGED <<req_vars, state_vars, write_vars, broker_vars, held>>

\* read_message failed: connection lost, or an oversized or negative length.
ReadFail ==
    /\ reader = "reading"
    /\ Poison
    /\ reader' = "stopped"
    /\ UNCHANGED <<req_vars, write_vars, broker_vars, held>>

\* Drop for Messenger: calls borrow it, so none is running.
DropMessenger ==
    /\ reader \in {"reading", "stopped"}
    /\ \A r \in Requests : pc[r] \in Finished \cup {"idle"}
    /\ reader' = "aborted"
    /\ UNCHANGED <<req_vars, state_vars, write_vars, broker_vars, held>>

\* The connection is gone and no rescued write is left.
Terminated ==
    /\ reader = "aborted"
    /\ writer = Nobody
    /\ UNCHANGED vars

-----------------------------------------------------------------------------

RequestStep(r) ==
    \/ NoVersionMatch(r)
    \/ Prepare(r)
    \/ Insert(r)
    \/ LockWriter(r)
    \/ PoisonAfterWrite(r)
    \/ Receive(r)
    \/ CancelBeforeSent(r)
    \/ CancelAfterSent(r)

Next ==
    \/ \E r \in Requests : RequestStep(r)
    \/ PutOnWire
    \/ WriteOk
    \/ WriteFail
    \/ \E r \in Requests, kind \in ReplyKinds : BrokerReply(r, kind)
    \/ \E f \in frames : ReadFrame(f)
    \/ Dispatch
    \/ ReadFail
    \/ DropMessenger
    \/ Terminated

Spec == Init /\ [][Next]_vars

\* Started tasks are polled again when they can move; tokio's mutex is FIFO, so
\* a queued call gets its turn; the transport finishes a write or reports an
\* error; the broker answers what it received.  Starting, cancelling, losing
\* the connection and dropping the messenger may happen or not.
Fairness ==
    /\ \A r \in Requests : /\ WF_vars(Insert(r))
                           /\ SF_vars(LockWriter(r))
                           /\ WF_vars(PoisonAfterWrite(r))
                           /\ WF_vars(Receive(r))
                           /\ WF_vars(\E kind \in ReplyKinds : BrokerReply(r, kind))
    /\ WF_vars(PutOnWire)
    /\ WF_vars(WriteOk \/ WriteFail)
    /\ WF_vars((\E f \in frames : ReadFrame(f)) \/ Dispatch)

FairSpec == Spec /\ Fairness

-----------------------------------------------------------------------------
(* Properties                                                              *)

\* A response is only ever handed to the call whose request it answers, however
\* responses, cancellations and reused correlation ids interleave (the
\* de-multiplexing by correlation id in request_with_version_ranges and in the
\* background task).
AnswerMatchesRequest ==
    \A r \in Requests : channel[r].tag = "response" => channel[r].req = r

\* The sender of a call that still waits is never dropped unused: the
\* expect("Who closed this channel?!") on rx.await cannot fail.
NoClosedChannel ==
    \A r \in Requests : pc[r] \in Waiting => channel[r].tag # "closed"

\* Once the stream is poisoned every waiting call has been told, or the reader
\* task is about to tell it: nobody is left on a connection that nobody reads.
PoisonReachesEveryone ==
    state = "Poison" =>
        \A r \in Requests :
            pc[r] \in {"queued", "writing", "sent"} =>
                channel[r].tag # "empty" \/ held.to = r

\* The map holds no stale entry: every entry belongs to a call that still runs
\* or was dropped only after its message was sent (what
\* CleanupRequestStateOnCancel is for).
NoStaleEntry ==
    \A i \in Ids : request_map[i] # Nobody =>
        /\ corr[request_map[i]] = i
        /\ pc[request_map[i]] \in Waiting \cup {"abandoned"}

\* Cancelling a call never leaves a half-sent message on the wire: the framing
\* breaks only if the transport itself reported an error (what
\* CancellationSafeFuture is for).
CancelNeverTears == torn => write_err # {}

\* A write error seen by its own call poisons the stream before the call returns
\* (the error arm of send_message).
WriteErrorPoisons ==
    \A r \in write_err : \/ pc[r] \in {"failed", "cancelled"}
                         \/ state = "Poison"

\* Every call that took a correlation id ends: with its answer, with an error, or
\* because it was dropped.  A partial frame that nobody poisoned is the one
\* exception (see README).  Answers are taken to have readable headers: the reader
\* skips any other and its call waits until the connection fails.
EveryRequestEnds ==
    [](\A f \in frames : f.kind # "bad_header") =>
        \A r \in Requests :
            pc[r] = "prepared" ~>
                (pc[r] \in Finished) \/ (torn /\ state = "RequestMap")

=============================================================================
