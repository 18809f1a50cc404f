# rskafka in TLA+

`rskafka` is an asynchronous Kafka client without background threads of its own:
all of its concurrency comes from futures that share state behind mutexes, from a
few spawned tokio tasks, and from futures that may be dropped at every `await`.
This directory models that concurrency, the caches and retry loops on the way to a
broker, and the protocol itself, from the bytes of a frame to the outcome of a call, as
TLA+ modules. TLC checks them on small instances; TLAPS proves the invariants of the
core, of the stream consumer and of the framing for every instance.

Paths are relative to the repository; line numbers of every definition are in
`PROJECT.json` under `map`.

## 1. Inventory

| Part | Code | State | Operations | Module |
|---|---|---|---|---|
| Messenger | `src/messenger.rs` | correlation id counter, map id -> oneshot sender or poison, shared write half, reader task | `request`, reader loop, `send_message`, poison, cleanup guards, drop | `Messenger` |
| Batching producer | `src/client/producer.rs`, `producer/batch.rs`, `producer/aggregator.rs` | aggregator, flush clock, linger flag, flush tasks, pending results | `produce`, `flush`, linger task, background write, drop | `BatchProducer` |
| Result channel | `src/client/producer/broadcast.rs` | value under a RwLock, a `Notify` | `broadcast`, drop, `peek`, `receive` | `BroadcastOnce`, `OnceCell` |
| Broker connector | `src/connection.rs`, `connection/topology.rs` | cached arbitrary broker with a generation, topology | `request_metadata`, `connect`, `get`, `invalidate`, topology update | `BrokerConnector` |
| Partition client | `src/client/partition.rs` | cached leader connection with generations | `new`, `get`, `invalidate`, `get_leader`, `maybe_retry` | `PartitionClient` |
| Metadata cache | `src/client/metadata_cache.rs` | last metadata with a generation | `get`, `invalidate`, `update` | `PartitionClient` |
| Backoff | `src/backoff.rs`, `src/throttle.rs` | next pause, total, deadline | `next`, `retry_with_backoff` | `Backoff` |
| Stream consumer | `src/client/consumer.rs` | next offset, buffer, running fetch | `build`, `poll_next` | `StreamConsumer` |
| Controller client | `src/client/controller.rs` | cached controller connection with a generation | `create_topic`, `delete_topic`, `get`, `get_controller_id`, `invalidate`, `maybe_retry` | `ControllerClient` |
| Version negotiation, SASL | `src/messenger.rs`, `connection/transport/sasl.rs` | version ranges, SASL rounds | `sync_versions`, `match_versions`, `do_sasl` | `Session` |
| Requests, answers | `src/client/partition.rs`, `controller.rs`, `mod.rs`, `src/validation.rs` | none | what each call asks for, what it makes of the answer | `Requests` |
| Messages | `src/protocol/messages/`, `api_version.rs`, `api_key.rs` | none | the fields of every message in every version, and how each is written and read | `Messages` |
| Framing | `src/protocol/frame.rs` | position in the stream | `read_message`, `write_message` | `Wire` |
| Record codec | `src/protocol/record.rs` | none | read and write of batches, records, headers, control records | `RecordBatch` |
| Primitive types | `src/protocol/primitives.rs`, `vec_builder.rs` | none | integers, varints, strings, bytes, compact types, arrays, tagged fields, `Records` | `Primitives`, `Messages` |
| Client, builder | `src/client/mod.rs` | none of their own | `list_topics`; construction | `Requests` (the request) |
| Transport, tables, data types | the rest | none of their own | I/O, constants | not modelled |

The broker at the other end is external: `Broker` says which requests it can read and
which answers it may give.

How they interact: a `PartitionClient` (or `ControllerClient`) asks the
`BrokerConnector` for metadata and for connections, keeps one connection to the
leader, and sends requests through that connection's `Messenger`; every such call is
wrapped in `retry_with_backoff`. The `BatchProducer` calls `produce` of a partition
client from background tasks and hands the result to its callers through the result
channel. The `StreamConsumer` calls `fetch_records`. A new connection negotiates
versions and authenticates before its first call; the messenger's reader task reads
frames, and `Records` decodes the batches of a fetch response.

What is hard about this code, and where it can go wrong without a test noticing, is
listed line by line under `hazards` in `PROJECT.json`. The groups are:

* futures dropped at any `await`: half-written frames, map entries, mutexes and
  linger tasks left behind (messenger, producer, connector);
* reports that arrive late: an answer for a reused correlation id, a linger timer
  of a flushed batch, an invalidation of a connection that has been replaced;
* errors that must reach everybody: poison, failed or panicked flush tasks;
* retry loops that must make progress, and caches that must not feed them for ever;
* a partition that changes under a stream: growth, retention, control batches,
  compaction gaps;
* answers that are not what was asked for: another version, topic or number of
  entries, an error, a request to wait;
* bytes that are cut off or damaged, and boundary values of lengths, ids and pauses.

## 2. Modules

Each module of a component with state has its `Init`, `Next` and specification; the codec
and `Requests` are operators only. `MC*` modules only give
values to constants, `*Proofs` modules hold theorems. Definitions named "Variant:"
are deliberately wrong versions of the definition that follows them. They are used
by nothing in the specifications; each is listed under `mutants` in `PROJECT.json`
and shows that a property can fail.

**Messenger.** One element of `Requests` per call. A call takes an id (`Prepare`),
registers (`Insert`, which sees a poison), queues for the writer mutex
(`LockWriter`), and waits for its channel (`Receive`). `PutOnWire`, `WriteOk` and
`WriteFail` are the transport under the write half. The write is driven by the call
or, once the call was dropped, by the rescue task of `CancellationSafeFuture`.
`ReadFrame` and `Dispatch` are the two halves of the reader loop: between taking an
entry from the map and using its sender other calls run. `ReadFail` poisons.
`CancelBeforeSent` and `CancelAfterSent` drop a call at each of its awaits, with what
`CleanupRequestStateOnCancel` does. A reply is one of five kinds: good, with a header or
tags that cannot be read, with a body that cannot be read, or with bytes left over.
Ids are `0 .. NumIds - 1` with wrap-around.

**BatchProducer.** One element of `Callers` per `produce` call, one of `Flushers` per
`flush` call; each critical section of the producer's mutex is one action. The
first call of a batch owns a linger task with the flush token of that batch. A
flush (by linger, for capacity, or by hand) starts the batch's background task, whose
steps call the client and broadcast the result. The aggregator may fail on push, on
flush or in the deaggregator; the client may fail or panic. `Release` and `DropInner`
are the drop of the producer and of the shared inner state. The log is external.

**BroadcastOnce / OnceCell.** `OnceCell` is the promise: a value, or the news that the
sender is gone, is published once, and every `receive` returns it. `BroadcastOnce` is
the code at the grain of the lock and of tokio's `Notify` (external): store, notify
and unlock are three steps, `receive` subscribes, peeks, sleeps and peeks again.
`ImplementsOnceCell` is the refinement, with `value <- data`.

**BrokerConnector.** Calls to an arbitrary broker share `cached_arbitrary_broker` and
its mutex, which is held across the whole connect loop; calls to a specific broker
open a connection of their own. Metadata answers update the topology, from which the
addresses of the next loop come; an answer may be older than the last move (`before`).
Brokers move to other addresses; `Stable` addresses (a load balancer) always answer.

**ControllerClient.** Extends `BrokerConnector`. `create_topic` and `delete_topic` run the
same loop: use the cached connection, or ask an arbitrary broker for the controller
while holding the cache's own lock (so that the two locks nest), connect, send,
and let `maybe_retry` decide between returning, waiting and invalidating. The metadata
request of an administrative call *is* the `BrokerConnector` call of that name. The
cluster elects controllers, carries requests out once, and answers late or never.

**PartitionClient.** `get` with its mutex is a chain of steps: use the cached
connection, look up the leader in the metadata cache or ask a broker, connect, ask
that broker whether it leads, and store. `maybe_retry` sends the request and decides
between returning, retrying and invalidating. The metadata cache is part of this
module because its generation and the connection's are compared in the same code.
`Refreshers` are other calls on the same client that refresh the cache. Cluster
leadership and each broker's lagging view of it are external.

**Backoff.** `next` and the loop, over all jitters, in whole units of time. The
configuration is any one of `Configs`, since `BackoffConfig` has public fields that
nobody validates: `next` panics where its range of jitters is empty.

**StreamConsumer.** One `Poll` is one turn of `poll_next`: hand out a buffered record,
start a fetch, or take its result, including the restart after `OffsetOutOfRange`.
The log is a fixed sequence of batches of which a growing part is visible and the
front is deleted over time.

**Primitives, RecordBatch, Messages.** Readers are operators from a buffer and a position
to a value and the next position (negative: the error), and `Then` is Rust's `?`: it
hands both to the rest or returns the error. `RecordBatch` translates writing and
reading of batches, with each compression arm and both Snappy formats. `Messages` says
of every struct which fields it has in which version, and of every field its type and
the version from which it is compact; `ReadValue` and `WriteValue` interpret these
tables, with the flexible header versions and tagged fields.

**Requests.** For each of the seven calls (`produce`, `fetch_records`, `get_offset`,
`delete_records`, `create_topic`, `delete_topic`, `list_topics`) the request it builds and
what it makes of a response: a value, an error, or "throttled, again".

**Broker, Wire, Session.** `Broker` (external) lists the answers a broker may give to a
request, good and bad, with the outcome each stands for. `Wire` is the framing:
`read_message` on bytes that arrive in any portions from a peer that may close inside a
frame. Its history variable `due` holds the messages that were written and not yet
taken; `WireSpec` is the framing by itself, with a peer that writes anything. `Session`
composes all of these with the client's side of a connection: the loop of
`sync_versions`, the SASL handshake and rounds, then one call; every request and every
response is encoded, framed, delivered by the worker and decoded.

The modules are composed by their interfaces rather than by one product state space:
`BatchProducer` uses the result channel as `OnceCell` promises it, `StreamConsumer`
uses `fetch_records` as something that ends with a result or an error, as
`PartitionClient` shows, and `PartitionClient` and `ControllerClient` use a connection as
something that answers or breaks, as `Messenger` (many requests, no bytes) and `Session`
(one request, all bytes) show. `PartitionClient` composes partition client, metadata
cache and topology; `ControllerClient` composes controller client, connector and topology;
`Session` composes negotiation, calls, messages, codec, primitives and framing.

## 3. Runs

Every run is `tlc -workers 2 -config <cfg> <module>`.

| Run | Instance | What it shows |
|---|---|---|
| `messenger` | 2 calls, 2 ids, every kind of reply (89 k states) | An answer only reaches the call it belongs to; no `expect` on a closed channel; poison reaches every waiting call; dropped calls leave neither a torn frame nor a stale entry; a write error seen by its call poisons; under fairness every call ends. |
| `producer` | calls of size 1, 1 and 3 with limit 2, two `flush` calls, failing aggregator (1.4 M states) | A batch with callers always has its linger; a linger flushes only its own batch; each caller finds its own offset; nothing is written twice; `flush` waits for what was pending, except for what another `flush` took. |
| `producer_live` | calls of size 1 and 2, one `flush`, all of them droppable, failing client, the clock wraps at 3 (296 k states) | Every `produce` and `flush` that is not dropped returns. |
| `producer_flush` | one `produce`, two `flush` calls | Violation: see finding 3. |
| `broadcast` | 3 receivers, 2 values (5.7 k states) | No lost wakeup, no panic, refinement of `OnceCell`, and `receive` returns once a value is stored. |
| `connector` | 2 brokers, 3 addresses and a load balancer; programs of two administrative calls, of one next to a metadata request, of two kinds of metadata request, of one call with more trouble; at most 1 move, 1 fault, 1 election each (81 k states) | A late failure report discards neither cache's new connection; a success was carried out by the controller; requests and administrative calls end if the addresses they try hold a reachable one. |
| `partition` | 2 brokers, `new` and 2 produce calls, a refresh, 1 change of leader, any 1 fault (231 k states) | Only the failed connection is forgotten; an acknowledged batch is in the log, repeated at most once per lost or throttled answer; calls end once the cluster is settled, unless the metadata cache names a wrong leader. |
| `partition_stale` | a cached entry, one change of leader | Violation: see finding 1. |
| `backoff` | `init_backoff` 0 to 2, `max_backoff` 0, 1 or 5, `base` 0 to 3, no deadline, 0 or 14 (101 k states) | An empty range exactly for the configurations that cannot grow; the deadline is kept, used, and ends the loop. |
| `consumer` | 4 batches with a control batch and a compaction gap, 11 start offsets, deletions, 1 fault (15 k states) | Records in order and once; nothing that survives is passed over; every record that stays is reached. |
| `consumer_control` | the same log, a smaller `max_batch_size` | Violation: see finding 2. |
| `wire` | 7 calls, brokers with every range of versions, old ones, with SASL, throttling, refusing, answering badly, closing anywhere; fetches of up to 2 batches of 5 encodings, cut at every byte or with one byte damaged (93 k states) | The negotiated versions are the broker's; it reads from the bytes what the client meant; the call ends with what the answer said; complete batches are read and damage forges nothing; the reader stays in step; nothing panics; every session ends. |

### Why these bounds

* Two calls per connection suffice for every race between two users of an id, of the
  writer and of the map. Each call takes one id, so that a second use of an id after
  the counter wrapped is left to the proofs, which hold for any number of both.
* Three `produce` calls cover two that share a batch and one that forces a capacity
  flush and is then refused. In `producer` the clock does not
  wrap (`LingerFlushesOwnBatch` is true only within 2^64 flushes of one linger, see
  `LingerTaskIsExact`), in `producer_live` it does. Two `flush` calls overlap in every
  way; a third would only find what they left. The two small calls are interchangeable
  there, and so are the two `flush` calls (`MCSymmetry`). The client does not fail and no
  call is dropped in `producer`: a dropped call differs from one that is not polled any
  more only in what it lets `Release` do. `producer_live` has both, and the proofs of the
  same properties hold for all failures and drops.
* Three receivers allow one to be asleep, one between peek and sleep, and one that
  gives up and asks again.
* One change of leader, one move and one fault (`MaxMoves`, `MaxFaults`) reach every
  error arm once in every interleaving of the calls; the generation guards need two
  calls that failed on the same connection, which is there.
* `backoff`'s larger deadline is nearly three longest pauses, so that growth, the cap and the
  deadline all act; `MaxErrors` lies above the number of pauses the deadline allows.
* In `connector` each program is small and meets one or two troubles (`Programs`), so
  that the four questions (two calls over one controller, an administrative call and a
  refresh over one connector, both kinds of connect, two troubles in a row) are each
  asked exhaustively. Two plain requests to an arbitrary broker at once are left to the
  proof.
* In `wire` bytes have 8 bits and varint groups 7, as in the code. An `Int64` has 3
  bytes (`LongBytes`) and a varint is decoded to 27 bits, which keeps the one property of
  the real sizes that matters: the groups of the widest integer hold more bits than it
  has. A profile varies one thing at a time (`MCVersions`, `MCOld`, `MCSasl`, `MCCloses`,
  `MCStored`): one request is in flight on a connection, and nothing but the version
  ranges is kept between two of them. A damaged byte becomes 30, far from
  the small values of lengths and flags. The checksum is a sum, which detects every
  change of one byte, as CRC-32C does. `MaxMessageSize` 130 makes some responses too
  large. `CHECK_DEADLOCK FALSE` is set there alone: a session whose call has ended does
  nothing more, and `SessionEnds` excludes every other stop.

### Fairness

`WF` on steps of started futures and tasks: tokio polls a task again after it was
woken. `SF` on acquiring a tokio mutex (`LockWriter`, `GetLock`, `Invalidate`): it
is documented as first-in first-out, so that a waiter is served though others come
and go. In `connector` one `SF` per call covers all of its steps, since nearly all of
them are taken while waiting for, or holding, one of two such locks. In `wire` the
weak fairness of the client, the broker and the worker is written as recurrence of
explicit conditions (`ClientReady` and so on) instead of through `ENABLED`, which would
evaluate the codec twice. The transport finishes a write or reports an error and the
broker answers a request it received (`messenger`); timers fire and the client's `produce` returns,
fails or panics (`producer_live`); brokers learn the leader (`partition`); the
stream is polled (`consumer`). None of these is assumed of starting a call, dropping
one, publishing a value, a failure, a reply kind, a move, an election, or the peer
closing. Liveness properties that need more than that say so in their antecedent:
`EveryRequestEnds` (readable response headers), `EndsIfReachable` and `AdminEnds` (a
reachable address), `EndsUnlessCacheStale` (a leader, and no wrong cache entry).

## 4. Proofs

`tlapm <module>` checks each of these from nothing.

| Module | Theorems | Assumptions |
|---|---|---|
| `MessengerProofs` | `TypeCorrect`, `AnswersMatch`, `ChannelsStayOpen`, `NoStaleEntries`, `PoisonIsTotal`, `FailedWritesPoison`, `CancellationIsSafe` | any set of calls, any positive number of ids |
| `BatchProducerProofs` | `CurrentBatchIsLingered`, `OffsetsAreOwn`, `RecordsWrittenAtMostOnce`, `FlushWaits`, `LingerTaskIsExact` | any `produce` and `flush` calls, positive record sizes, limit, clock width and failures; for `LingerTaskIsExact` fewer than `ClockMod` flushes while one linger sleeps (`Timely`) |
| `BroadcastOnceProofs` | `NeverPanics`, `WakeupsArrive`, `Refinement` | any receivers and values; `None`, `Dropped` and the panic marker are not values |
| `ControllerClientProofs` | of `BrokerConnector` alone `GenerationsAreUnique`, `OnlyFailedForgotten`; of both `SuccessesAreApplied`, `OnlyFailedControllerForgotten`, `OnlyFailedForgottenByAdmin` | any calls, brokers, addresses, moves, faults, administrative calls, programs and elections |
| `PartitionClientProofs` | `AcknowledgedAreAppended`, `OnlyFailedForgotten` | any calls, brokers, changes of leader, refreshes and faults |
| `BackoffProofs` | `PanicsAreExact`, `DeadlineKept`, `DeadlineUsed`, `RetriesBounded`, `PausesGrow` | any configuration of whole numbers, 0 included, `max_backoff` below `init_backoff` included |
| `StreamConsumerProofs` | `DeliveryIsOrdered`, `DeliveryHasNoGap` | any log of batches in the order of their offsets, any start offset, growth, retention and faults |
| `WireProofs` | `ReaderStaysInSync`, `BufferIsBounded`, `IntRoundTrip` | any positive `max_message_size`, any messages whose length an `Int32` can say, any width of a byte (`BaseAssumption`: a power of two is a positive integer, which the provers do not know) |

**Messenger.** `AnswerMatchesRequest` is not inductive: a frame with id *i* may be
handed to whoever is registered under *i*. The inductive invariant `IInv` adds that
no two calls use an id at the same time (`UniqueIds`, where a call uses its id as long
as it waits, is being written, is at the broker, has a frame on its way, or has an
entry in the map), that frames carry the id of their request (`WireIds`), that what
the reader holds was taken out of the map by the frame it answers (`HeldMatches`),
that entries have unused channels (`EntryUnserved`), and that a waiting call with
nothing in its channel is registered or held (`WaitingRegistered`). The last gives
`NoClosedChannel` and `PoisonReachesEveryone`. `UniqueIds` needs that an id is taken
only while nothing uses it. The code does not check this: `fetch_add` hands out the
next of 2^32 ids whatever the map holds. `Prepare` states it as its guard `IdInUse`,
a named bound: an id does not come round again while the call that had it is still
waited for, at the broker, or in the map. An entry left for ever by a response that
cannot be read would break it after 2^32 further requests on the connection.
`WriteErrorPoisons` and `CancelNeverTears` are inductive together (`WInv`), given that
only a writing or a dropped call holds the writer, and that poison stays
(`FailedStaysFailed`).

**BatchProducer.** The invariant `PInv` says where every record is and who waits for it.
A record is in the aggregator or in exactly one batch, and in the log only if the task
of its batch has written (`Owned`); this makes the log free of repetitions. The tag of a
call is the position of its record in the aggregator or in its batch (`Tagged`), and the
offsets of a written batch are the places of its records in the log (`Located`), which
together give `OwnOffset`. A flush whose aggregator failed keeps the records but
drops their callers: `Tagged` then asks nothing but that the channel is dropped. The
linger flag is set while calls hold the current batch, and while it is set a sleeping
linger has the current token (`Lingering`); a wrapped clock does no harm to this. These
parts are operators of the inner state, so that a capacity flush and the push behind it,
one critical section, are two lemmas. `FlushWaits` adds `Waits`: a running write is in
`pending_flushes` or was taken by a `flush` call that has not joined it, and what a call
owes was taken, by itself or by an earlier call, when it left the lock. A call lets go
of a task only when it has ended, and one that returned Ok has let go of all, so that
what it owes and still runs is another's. `LingerTaskIsExact` rests on
`Clock`: the token of a sleeping linger and the number of flushes since its batch was
current add up to the flush clock, or to the clock after one wrap. With fewer than
`ClockMod` flushes in between, equal tokens are equal batches.

**BroadcastOnce.** The invariant relates the sender's phase to the stored value, and
says that futures are completed only after the store and that a receiver which
subscribed before the announcement is announced to (`SubscribedEarly`). Every step
then maps to a step of `OnceCell` or to a stutter.

**BrokerConnector.** A generation held by a call is never above the cached one, and
calls that hold the cached generation hold the cached connection; a new connection
takes a generation above all that are held. With that, equality of generations in
`invalidate` is equality of connections.

**ControllerClient.** Its steps either are steps of `BrokerConnector` for one of its calls
or leave that module's cache alone, so the connector's invariant carries over
(`CInv` extends it); the same argument about generations is made for the second cache
(`HeldMatches`). An "ok" that waits to be looked at has been carried out, hence
`SuccessIsApplied`.

**PartitionClient.** Once more the argument about generations (`UsesKnown`), in spite of
the second generation for the metadata that is stored next to it. `AcknowledgedIsAppended`
counts: a call that has not returned has appended at most as often as there were faults,
since each repetition was caused by one (`Appends`).

**StreamConsumer.** The invariant follows the position of the stream: all that was
yielded or buffered lies below the next offset (`Behind`), and nothing of the log between
the first offset and that position is missing unless it was deleted (`CompleteUpTo`); a
fetch under way and its answer start at that position. What a fetch returns is the
lemma `FetchIs`: the data from the requested offset up to some offset below the watermark,
with nothing left out. It rests on `SortedIs`, what sorting a finite set of offsets yields.

**Wire.** Between two frames the stream is the concatenation of the frames that are due.
Inside one it is what is left of a frame, then the frames behind it (`InSync`); once the
peer has closed, it is a prefix of that. `SkipInSync` is the invariant of the skip loop:
`left` bytes of the frame are still to come, and `buf` is never more than that.
`PrefixRead` is where the length enters: the four bytes are those of the first message
that is due, by the round trip of `Int32`.

**Backoff.** The invariant is the ledger of the loop: what was slept is
`init_backoff + total - next_backoff` while it runs, because `next` charges the pause
after the one it returns. Deadline and bounds follow by arithmetic. `Stuck` says what an
unsound configuration can come to: no error yet, or one error after which the next pause
is `max_backoff`, whose range is empty. For the others every pause is at least the
smaller of `init_backoff` and `max_backoff`, from both of which there is room to grow.

Type invariants: those of `Messenger`, `BroadcastOnce` and `Backoff` are proved. The
`TypeOK` of `BatchProducer`, `BrokerConnector`, `PartitionClient` and `Session` hold in the
instances of their runs (checked with TLC by adding them to the cfg); the runs spend
their time on the other properties.

Induction over data is by the least counterexample: a set of naturals that is not empty
has a least element (`NatLessThanWellFounded` and `WFMin`, lemma `Least`), which gives
induction over `1 .. n` with a set in place of a predicate, and the existence of
functions that are defined by recursion over `1 .. n` (`Recursion`).

Only model-checked: all liveness properties and everything about `ENABLED`; and messages
and sessions, whose readers are recursive operators, out of the prover's reach:
`RangesAreBrokers`, `BrokerReadsRequest`, `OutcomeIsBrokers`, `WholeBatchesAreRead`,
`DamageForgesNothing` and `NeverPanics` of `Session`. `StaysInSync` is proved of the framing
by itself, whose peer may write what the broker of `Session` writes.

## 5. Findings

1. **A stale metadata entry is not discarded** (`partition_stale`,
   `src/client/partition.rs:481`). When the broker that the cached metadata names
   denies that it leads, `get` is to invalidate the entry ("The cached metadata
   identified an incorrect leader - it is stale and should be refreshed."). It passes
   the generation of its *second* lookup, which goes to the broker itself and is never
   answered from the cache, so the generation is always `None` and nothing is
   invalidated. All retries then use the same entry until somebody else refreshes
   the metadata. `EndsUnlessCacheStale` in `partition` shows that the loop ends on
   a settled cluster when the cache names no wrong leader.
2. **A control batch can stop a stream** (`consumer_control`,
   `src/client/consumer.rs:299`). The next offset advances only past records that were
   yielded. If a fetch returns a control batch alone, because the following batch does
   not fit into `max_batch_size`, the same fetch is repeated for ever, against
   "Stream consuming data from start offset." (line 198). With room for both batches
   the run `consumer` passes.
3. **A second `flush` does not wait** (`producer_flush`, `src/client/producer.rs:667`).
   `flush` takes the list of running writes out of the shared state, so that a call which
   overlaps it, or follows one whose future was dropped, finds none of them. It returns
   Ok while writes that were pending when it was called still run, against "Blocks until
   all pending writes to Kafka complete (or fail)." (line 658). What is kept of that is
   `FlushWaitsUnlessTaken` (run `producer`, theorem `FlushWaits`): a write is missed only
   because another `flush` took it.

## 6. What is not modelled

* Transport (TCP, TLS, SOCKS5), the builders and constructors, public data types and
  tables of constants: they hold no state that outlives a call and run no algorithm;
  what a stream may do (deliver, fail, end at any byte) is in `Messenger` and `Wire`.
* `rsasl`: a mechanism is a number of rounds that ends with success or an error.
* UTF-8 validation of strings, the float type, and the error for strings longer than an
  `Int16` can say.
* Durations: timers fire at any time. `Backoff` alone has units of time, whole ones
  instead of `f64` seconds, and a whole `base`; a negative or infinite `base` is left out.
* `PartitionClient`, `ControllerClient` and `BrokerConnector` run without a retry deadline,
  the default. With one, a loop also ends by giving up, which is `Backoff`'s subject.
  Their requests are abstract there; `Requests` and `Session` have the fields and checks.
* Compression algorithms: gzip, LZ4 and zstd are one self-delimiting block format.
  Snappy keeps its two framings because the code tells them apart itself.
* The broker of `Session` reads and writes with the same field tables as the client, so
  an error in a table against Kafka's own documentation would not show. What shows is
  a disagreement between header, version, encoding and the fields of that version.
* Custom aggregators that merge or drop records: in `BatchProducer` an aggregator may fail
  at every point, but what it keeps is what was pushed.
* Truncation of the log's end (unclean leader election) under a stream.

## 7. Behaviour the models exhibit and no run forbids

These follow from the code, contradict no promise a run could quote or need a second
actor that the run leaves out, and are worth knowing:

* A frame whose caller was dropped is finished by a spawned task that throws the
  result away. If that write fails, the stream holds half a frame and is not
  poisoned; later calls write behind it. This is the one exception in
  `EveryRequestEnds` (`torn` with the state still `RequestMap`).
* A response whose header cannot be read is logged and skipped; its caller waits until
  the connection fails.
* A dropped `flush` detaches the tasks it had taken, so that a later drop of the
  producer does not abort them.
* A retry loop whose configuration cannot grow (`init_backoff` 0, `base` 1, or a
  `max_backoff` too far below `init_backoff`) panics at the first or second error
  (`PanicsIffUnsound`); nothing rejects such a configuration when a client is built.
* Once any topology is known the bootstrap addresses are not tried again; if every
  known address is gone the connect loop does not end (antecedent of
  `EndsIfReachable`).
* A cached entry that says "no leader" is kept, and every retry fails on it until a
  refresh (antecedent of `EndsUnlessCacheStale`). Metadata is stored in the cache
  before the topology is updated, and of two overlapping refreshes the older answer
  may be stored last.
* A produce answer that asks for throttling is retried, though the broker has already
  appended the batch: `AcknowledgedIsAppended` counts it among the repetitions.
* A stream from `Latest` that meets `OffsetOutOfRange` starts again at the end and
  skips what lies between; `NoGap` is about the other streams.
* `max_message_size` 0 makes the skip loop of `read_message` run for ever; the model
  assumes it positive.
* In the tenth group of a varint, bits beyond the 64th are dropped without an error.
* An `UnexpectedEof` inside a complete batch (a wrong inner length) is taken for the
  end of a cut response, and that batch and all later ones vanish.
* `CompactBytes::read` subtracts 1 from a length of 0. Only the token of a SASL answer
  has this type and it is never null, so that no run reaches this.
* There is no timeout for a request: a broker that accepts a connection and stays silent
  holds up the negotiation, and with it the lock of the cache that wants the connection.
* `create_topic` and `delete_topic` check that the answer has one entry and no error, not
  that the entry is about their topic; the calls of the partition client check both.
* After a lost answer, or one that asks for throttling, a topic operation is sent
  again though it may have been carried out: the caller then sees `TopicAlreadyExists`
  or `UnknownTopicOrPartition` for an operation that succeeded. `SuccessIsApplied` is
  about the other direction.
* A metadata answer without a controller, or with one that the topology does not know,
  ends an administrative call with an error that is not retried, whereas a failed
  lookup of the controller is retried for as long as the loop runs.
* The lifetime of a SASL session is ignored, and the bytes that the last step of a
  mechanism produces are not sent.

## 8. Plan

Done, in this order: `Messenger` with proofs; `BroadcastOnce` refining `OnceCell` with
proofs; `BatchProducer`; `PartitionClient` with the metadata cache; `Backoff` and
`BrokerConnector` with proofs; `StreamConsumer`; codec and framing; all primitives, the
messages and the sessions over them; `ControllerClient` with proofs; proofs of
`PartitionClient`, `BatchProducer`, `StreamConsumer` and `Wire`.

Next, most important first:

1. Round trips of all primitive types and of whole messages, and with them the
   invariants of `Session`.
2. Three calls over two ids in the `messenger` run.
3. `PartitionClient` on top of `BrokerConnector`, as `ControllerClient` is, in place of its
   own abstraction of metadata requests.
