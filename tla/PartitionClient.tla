--------------------------- MODULE PartitionClient ---------------------------
(***************************************************************************)
(* The calls of one PartitionClient (src/client/partition.rs) on their way *)
(* to the partition leader: the cached leader connection with its          *)
(* generation, the shared metadata cache with its own generation           *)
(* (src/client/metadata_cache.rs, src/connection.rs), and the retry loop   *)
(* around every request.                                                   *)
(*                                                                         *)
(* The cluster is external: a leader chosen by the controller, and for each*)
(* broker its view of who leads, which lags behind.  A broker serves the   *)
(* partition when it believes it leads.  Creator is the call of            *)
(* PartitionClient::new, which only looks up the leader; the other callers *)
(* produce one batch each.  Backoff pauses have no duration here (module   *)
(* Backoff), and no deadline is set, as by default.                        *)
(***************************************************************************)
EXTENDS Integers, Sequences

CONSTANTS
    Brokers,
    Callers,        \* calls on the client, Creator included
    Creator,        \* PartitionClient::new
    Refreshers,     \* refresh_metadata / list_topics calls on the same Client
    Nobody,
    NoLeader,       \* leader_id -1
    InitEntry,      \* what ClientBuilder::build cached about the partition
    InitTopology,   \* the brokers it learned of; others may join later
    Faults,         \* the kinds of trouble that may happen
    MaxFaults,      \* how often, over all kinds (bound)
    MaxMoves,       \* leadership changes (bound)
    RetryUnknown    \* UnknownTopicHandling::Retry

FaultKinds == {"metadata", "connect", "break", "lost", "throttle", "retriable",
               "fatal", "unknown_topic"}

ASSUME PartitionAssumption ==
    /\ Creator \in Callers
    /\ NoLeader \notin Brokers
    /\ Nobody \notin Callers
    /\ InitEntry \in Brokers \cup {NoLeader, "absent"}
    /\ InitTopology \subseteq Brokers
    /\ Faults \subseteq FaultKinds
    /\ MaxFaults \in Nat /\ MaxMoves \in Nat
    /\ RetryUnknown \in BOOLEAN

VARIABLES
    leader, view,    \* the cluster
    moves, faults,   \* how much trouble there was
    appended,        \* times the broker appended each caller's batch
    cache,           \* MetadataCache: entry and generation
    topology,        \* the brokers BrokerTopology knows
    conns,           \* every connection: broker and whether it still works
    current,         \* CurrentBroker: connection (0: None) and generations
    lock,            \* holder of the mutex around current_broker
    pc,              \* each call
    found,           \* the leader its attempt found, with the cache generation if cached
    using,           \* the connection its attempt uses, with the generation of get()
    result,          \* how it ended, "none" before
    rpc, answer      \* each refresh and the metadata it received

cluster_vars == <<leader, view, moves>>
client_vars  == <<cache, topology, current, lock>>
call_vars    == <<pc, found, using, result>>
refresh_vars == <<rpc, answer>>
vars == <<cluster_vars, faults, appended, conns, client_vars, call_vars, refresh_vars>>

NoGen   == -1
NotFound == [leader |-> NoLeader, gen |-> NoGen]
NotUsed  == [conn |-> 0, gen |-> NoGen]
Leaders == Brokers \cup {NoLeader}
Active  == {"get", "lookup", "absent", "ask", "connect", "verify", "request", "invalidate"}
Holding == {"lookup", "absent", "ask", "connect", "verify"}

TypeOK ==
    /\ leader \in Leaders /\ view \in [Brokers -> Leaders]
    /\ moves \in 0 .. MaxMoves /\ faults \in 0 .. MaxFaults
    /\ appended \in [Callers -> Nat]
    /\ cache.entry \in Leaders \cup {"none", "absent"} /\ cache.gen \in Nat
    /\ topology \subseteq Brokers
    /\ \A k \in 1 .. Len(conns) : conns[k].broker \in Brokers /\ conns[k].ok \in BOOLEAN
    /\ current.conn \in 0 .. Len(conns) /\ current.gen \in Nat
    /\ current.gen_arbitrary \in Nat \cup {NoGen} /\ current.gen_self \in Nat \cup {NoGen}
    /\ lock \in Callers \cup {Nobody}
    /\ lock # Nobody => pc[lock] \in Holding
    /\ pc \in [Callers -> {"idle", "done", "cancelled"} \cup Active]
    /\ \A c \in Callers : /\ found[c].leader \in Leaders
                          /\ using[c].conn \in 0 .. Len(conns)
    /\ rpc \in [Refreshers -> {"idle", "answered", "cached", "done"}]

Init ==
    /\ leader \in Leaders /\ view = [b \in Brokers |-> leader]
    /\ moves = 0 /\ faults = 0
    /\ appended = [c \in Callers |-> 0]
    /\ cache = [entry |-> InitEntry, gen |-> 1]
    /\ topology = InitTopology
    /\ conns = <<>>
    /\ current = [conn |-> 0, gen |-> 0, gen_arbitrary |-> NoGen, gen_self |-> NoGen]
    /\ lock = Nobody
    /\ pc = [c \in Callers |-> "idle"]
    /\ found = [c \in Callers |-> NotFound]
    /\ using = [c \in Callers |-> NotUsed]
    /\ result = [c \in Callers |-> "none"]
    /\ rpc = [f \in Refreshers |-> "idle"]
    /\ answer = [f \in Refreshers |-> NoLeader]

-----------------------------------------------------------------------------
(* Helpers                                                                 *)

Goto(c, label) ==
    /\ pc' = [pc EXCEPT ![c] = label]
    /\ UNCHANGED result

End(c, r) ==
    /\ pc' = [pc EXCEPT ![c] = "done"]
    /\ result' = [result EXCEPT ![c] = r]

\* What an attempt of the retry loop found and used goes with it.
DropAttempt(c) ==
    /\ found' = [found EXCEPT ![c] = NotFound]
    /\ using' = [using EXCEPT ![c] = NotUsed]

\* The attempt failed and is repeated.
Retry(c) == Goto(c, "get") /\ DropAttempt(c)

\* The call returns r.
Return(c, r) == End(c, r) /\ DropAttempt(c)

\* One more fault of the given kind.
Fault(kind) ==
    /\ kind \in Faults /\ faults < MaxFaults
    /\ faults' = faults + 1

Unlock == lock' = Nobody

\* MetadataCache::invalidate: only the generation the caller has seen.
InvalidateMetadata(gen) ==
    IF cache.gen = gen THEN [cache EXCEPT !.entry = "none"] ELSE cache

\* request_metadata returns a generation with a cached answer only.
GenOfRequest == NoGen

-----------------------------------------------------------------------------
(* maybe_retry and get()                                                   *)

\* A call starts; calls on the client need it constructed.
Start(c) ==
    /\ pc[c] = "idle"
    /\ c # Creator => pc[Creator] = "done" /\ result[Creator] = "ok"
    /\ Goto(c, "get")
    /\ UNCHANGED <<cluster_vars, faults, appended, conns, client_vars, found, using,
                   refresh_vars>>

\* get() returns connection k: the request is next, if there is one.
Proceed(c, k, gen) ==
    \/ c = Creator /\ Return(c, "ok")
    \/ /\ c # Creator /\ Goto(c, "request")
       /\ found' = [found EXCEPT ![c] = NotFound]
       /\ using' = [using EXCEPT ![c] = [conn |-> k, gen |-> gen]]

\* get() takes the lock.  A cached connection is returned at once, else the lock
\* stays held until the leader is found and connected.
GetLock(c) ==
    /\ pc[c] = "get" /\ lock = Nobody
    /\ \/ /\ current.conn # 0
          /\ Proceed(c, current.conn, current.gen)
          /\ UNCHANGED lock
       \/ /\ current.conn = 0
          /\ lock' = c
          /\ Goto(c, "lookup")
          /\ UNCHANGED <<found, using>>
    /\ UNCHANGED <<cluster_vars, faults, appended, conns, cache, topology, current,
                   refresh_vars>>

\* get_leader with the answer (l, gen): without a leader the attempt failed with
\* LeaderNotAvailable, which is retried.
TakeLeader(c, l, gen) ==
    \/ l = NoLeader /\ Unlock /\ Retry(c)
    \/ /\ l # NoLeader /\ Goto(c, "connect")
       /\ found' = [found EXCEPT ![c] = [leader |-> l, gen |-> gen]]
       /\ UNCHANGED <<lock, using>>

\* MetadataCache::get: use the entry, discard one that lacks the topic, or go on
\* without.
Lookup(c) ==
    /\ pc[c] = "lookup"
    /\ \/ /\ cache.entry \in Leaders
          /\ TakeLeader(c, cache.entry, cache.gen)
       \/ /\ cache.entry = "absent"
          /\ found' = [found EXCEPT ![c].gen = cache.gen]
          /\ Goto(c, "absent")
          /\ UNCHANGED <<lock, using>>
       \/ /\ cache.entry = "none"
          /\ Goto(c, "ask")
          /\ UNCHANGED <<lock, found, using>>
    /\ UNCHANGED <<cluster_vars, faults, appended, conns, cache, topology, current,
                   refresh_vars>>

DiscardAbsent(c) ==
    /\ pc[c] = "absent"
    /\ cache' = InvalidateMetadata(found[c].gen)
    /\ Goto(c, "ask")
    /\ found' = [found EXCEPT ![c] = NotFound]
    /\ UNCHANGED <<cluster_vars, faults, appended, conns, topology, current, lock, using,
                   refresh_vars>>

\* request_metadata for this topic from an arbitrary broker, not cached.  The
\* answer may hold an error that is retried, and the request may fail for good;
\* a broken connection is replaced below this level.
AskArbitrary(c) ==
    /\ pc[c] = "ask"
    /\ \/ /\ \E b \in Brokers : TakeLeader(c, view[b], GenOfRequest)
          /\ topology' = Brokers
          /\ UNCHANGED faults
       \/ /\ Fault("metadata")
          /\ topology' = Brokers
          /\ Unlock /\ Retry(c)
       \/ /\ Fault("fatal")
          /\ Unlock /\ Return(c, "fatal")
          /\ UNCHANGED topology
    /\ UNCHANGED <<cluster_vars, appended, conns, cache, current, refresh_vars>>

\* Connect to the leader; a failure discards the metadata that named it.
Connect(c) ==
    /\ pc[c] = "connect"
    /\ \/ /\ found[c].leader \in topology
          /\ conns' = Append(conns, [broker |-> found[c].leader, ok |-> TRUE])
          /\ using' = [using EXCEPT ![c].conn = Len(conns) + 1]
          /\ Goto(c, "verify")
          /\ UNCHANGED <<faults, cache, lock, found>>
       \/ /\ found[c].leader \in topology
          /\ Fault("connect")
          /\ cache' = InvalidateMetadata(found[c].gen)
          /\ Unlock /\ Retry(c)
          /\ UNCHANGED conns
       \/ /\ found[c].leader \notin topology
          /\ cache' = InvalidateMetadata(found[c].gen)
          /\ Unlock /\ Return(c, "invalid_response")
          /\ UNCHANGED <<faults, conns>>
    /\ UNCHANGED <<cluster_vars, appended, topology, current, refresh_vars>>

\* The connection a call has just made, the last one, is dropped unused.
DropUnused == conns' = SubSeq(conns, 1, Len(conns) - 1)

\* Ask the broker itself.  If it names another leader the attempt fails with
\* NotLeaderOrFollower; if it agrees, the connection is cached.
Verify(c) ==
    LET k == using[c].conn
        l == view[conns[k].broker]
    IN
    /\ pc[c] = "verify"
    /\ \/ /\ conns[k].ok /\ l = found[c].leader
          /\ current' = [conn |-> k, gen |-> current.gen + 1,
                         gen_arbitrary |-> found[c].gen, gen_self |-> GenOfRequest]
          /\ Proceed(c, k, current.gen + 1)
          /\ topology' = Brokers
          /\ UNCHANGED <<faults, cache, conns>>
       \/ /\ conns[k].ok /\ l # found[c].leader
          /\ cache' = IF l = NoLeader THEN cache ELSE InvalidateMetadata(GenOfRequest)
          /\ DropUnused /\ Retry(c)
          /\ topology' = Brokers
          /\ UNCHANGED <<faults, current>>
       \/ /\ ~conns[k].ok
          /\ DropUnused /\ Retry(c)
          /\ UNCHANGED <<faults, cache, topology, current>>
       \/ /\ conns[k].ok /\ Fault("fatal")
          /\ DropUnused /\ Return(c, "fatal")
          /\ UNCHANGED <<cache, topology, current>>
    /\ Unlock
    /\ UNCHANGED <<cluster_vars, appended, refresh_vars>>

-----------------------------------------------------------------------------
(* The request and the handling of its errors                              *)

\* The broker leads, appends the batch and answers.  The answer may be lost with
\* the connection, and an answer that asks for a pause is not looked at.
RequestServed(c) ==
    LET k == using[c].conn IN
    /\ pc[c] = "request"
    /\ conns[k].ok /\ view[conns[k].broker] = conns[k].broker
    /\ appended' = [appended EXCEPT ![c] = @ + 1]
    /\ \/ Return(c, "ok") /\ UNCHANGED <<faults, conns>>
       \/ Fault("throttle") /\ Retry(c) /\ UNCHANGED conns
       \/ /\ Fault("lost")
          /\ conns' = [conns EXCEPT ![k].ok = FALSE]
          /\ Goto(c, "invalidate")
          /\ UNCHANGED <<found, using>>
    /\ UNCHANGED <<cluster_vars, client_vars, refresh_vars>>

\* Variant: the error code of the answer is not looked at.
RequestFailedUnseen(c) ==
    LET k == using[c].conn IN
    /\ pc[c] = "request"
    /\ \/ ~conns[k].ok /\ Goto(c, "invalidate") /\ UNCHANGED <<found, using>>
       \/ conns[k].ok /\ view[conns[k].broker] # conns[k].broker /\ Return(c, "ok")
    /\ UNCHANGED <<cluster_vars, faults, appended, conns, client_vars, refresh_vars>>

\* The request failed: connection broken, not the leader, or another error.
RequestFailed(c) ==
    LET k == using[c].conn IN
    /\ pc[c] = "request"
    /\ \/ /\ ~conns[k].ok \/ view[conns[k].broker] # conns[k].broker
          /\ Goto(c, "invalidate")
          /\ UNCHANGED <<faults, found, using>>
       \/ conns[k].ok /\ Fault("retriable") /\ Retry(c)
       \/ conns[k].ok /\ Fault("fatal") /\ Return(c, "fatal")
       \/ /\ conns[k].ok /\ Fault("unknown_topic")
          /\ pc' = [pc EXCEPT ![c] = "invalidate"]
          /\ result' = [result EXCEPT ![c] = IF RetryUnknown THEN "none" ELSE "unknown_topic"]
          /\ UNCHANGED <<found, using>>
    /\ UNCHANGED <<cluster_vars, appended, conns, client_vars, refresh_vars>>

\* Variant: the generation is not compared.
InvalidateAny(c) ==
    /\ pc[c] = "invalidate" /\ lock = Nobody
    /\ cache' = InvalidateMetadata(current.gen_arbitrary)
    /\ current' = [current EXCEPT !.conn = 0]
    /\ pc' = [pc EXCEPT ![c] = IF result[c] = "none" THEN "get" ELSE "done"]
    /\ DropAttempt(c)
    /\ UNCHANGED <<cluster_vars, faults, appended, conns, topology, lock, result,
                   refresh_vars>>

\* Variant: only the metadata is discarded.
InvalidateMetadataOnly(c) ==
    /\ pc[c] = "invalidate" /\ lock = Nobody
    /\ cache' = InvalidateMetadata(current.gen_arbitrary)
    /\ pc' = [pc EXCEPT ![c] = IF result[c] = "none" THEN "get" ELSE "done"]
    /\ DropAttempt(c)
    /\ UNCHANGED <<cluster_vars, faults, appended, conns, topology, current, lock,
                   result, refresh_vars>>

\* BrokerCache::invalidate with the generation of the failed connection: forget
\* the connection, if it is still that one, and the metadata that led to it.
Invalidate(c) ==
    /\ pc[c] = "invalidate" /\ lock = Nobody
    /\ \/ /\ current.gen = using[c].gen
          /\ cache' = IF cache.gen = current.gen_arbitrary
                      THEN InvalidateMetadata(current.gen_arbitrary)
                      ELSE InvalidateMetadata(current.gen_self)
          /\ current' = [current EXCEPT !.conn = 0]
       \/ /\ current.gen # using[c].gen
          /\ UNCHANGED <<cache, current>>
    /\ pc' = [pc EXCEPT ![c] = IF result[c] = "none" THEN "get" ELSE "done"]
    /\ DropAttempt(c)
    /\ UNCHANGED <<cluster_vars, faults, appended, conns, topology, lock, result,
                   refresh_vars>>

\* The call is dropped at one of its awaits (there is none between the lock and
\* the end of the cache lookup); a lock it holds is released.
Cancel(c) ==
    /\ pc[c] \in Active \ {"lookup", "absent"}
    /\ Goto(c, "cancelled") /\ DropAttempt(c)
    /\ lock' = IF lock = c THEN Nobody ELSE lock
    /\ IF pc[c] = "verify" THEN DropUnused ELSE UNCHANGED conns
    /\ UNCHANGED <<cluster_vars, faults, appended, cache, topology, current, refresh_vars>>

-----------------------------------------------------------------------------
(* refresh_metadata: the cache is updated, then the topology                *)

RefreshAnswer(f) ==
    /\ rpc[f] = "idle"
    /\ \E b \in Brokers : answer' = [answer EXCEPT ![f] = view[b]]
    /\ rpc' = [rpc EXCEPT ![f] = "answered"]
    /\ UNCHANGED <<cluster_vars, faults, appended, conns, client_vars, call_vars>>

RefreshCache(f) ==
    /\ rpc[f] = "answered"
    /\ cache' = [entry |-> answer[f], gen |-> cache.gen + 1]
    /\ rpc' = [rpc EXCEPT ![f] = "cached"]
    /\ answer' = [answer EXCEPT ![f] = NoLeader]
    /\ UNCHANGED <<cluster_vars, faults, appended, conns, topology, current, lock, call_vars>>

RefreshTopology(f) ==
    /\ rpc[f] = "cached"
    /\ topology' = Brokers
    /\ rpc' = [rpc EXCEPT ![f] = "done"]
    /\ UNCHANGED <<cluster_vars, faults, appended, conns, cache, current, lock, call_vars,
                   answer>>

-----------------------------------------------------------------------------
(* The cluster (external)                                                  *)

MoveLeader(l) ==
    /\ moves < MaxMoves /\ l # leader
    /\ moves' = moves + 1
    /\ leader' = l
    /\ UNCHANGED <<view, faults, appended, conns, client_vars, call_vars, refresh_vars>>

LearnLeader(b) ==
    /\ view[b] # leader
    /\ view' = [view EXCEPT ![b] = leader]
    /\ UNCHANGED <<leader, moves, faults, appended, conns, client_vars, call_vars,
                   refresh_vars>>

BreakConnection(k) ==
    /\ conns[k].ok /\ Fault("break")
    /\ conns' = [conns EXCEPT ![k].ok = FALSE]
    /\ UNCHANGED <<cluster_vars, appended, client_vars, call_vars, refresh_vars>>

\* No call is under way.
Terminated ==
    /\ \A c \in Callers : pc[c] \notin Active
    /\ UNCHANGED vars

-----------------------------------------------------------------------------

CallStep(c) ==
    \/ GetLock(c)
    \/ Lookup(c)
    \/ DiscardAbsent(c)
    \/ AskArbitrary(c)
    \/ Connect(c)
    \/ Verify(c)
    \/ RequestServed(c)
    \/ RequestFailed(c)
    \/ Invalidate(c)

RefreshStep(f) == RefreshAnswer(f) \/ RefreshCache(f) \/ RefreshTopology(f)

Next ==
    \/ \E c \in Callers : Start(c) \/ CallStep(c) \/ Cancel(c)
    \/ \E f \in Refreshers : RefreshStep(f)
    \/ \E l \in Leaders : MoveLeader(l)
    \/ \E b \in Brokers : LearnLeader(b)
    \/ \E k \in 1 .. Len(conns) : BreakConnection(k)
    \/ Terminated

Spec == Init /\ [][Next]_vars

\* tokio's mutex hands the lock on in order, so a call that waits for it gets it;
\* every other step of a call is polled to its end; brokers learn the leader.
\* An arbitrary broker that is asked again and again is at some time one that
\* knows the leader, since all learn it.
Fairness ==
    /\ \A c \in Callers : /\ SF_vars(GetLock(c)) /\ SF_vars(Invalidate(c))
                          /\ WF_vars(CallStep(c))
    /\ \A b \in Brokers : WF_vars(LearnLeader(b))

FairSpec == Spec /\ Fairness

-----------------------------------------------------------------------------
(* Properties                                                              *)

\* A late failure report never throws away a healthy newer connection: the cached
\* connection is only forgotten by a call whose own request failed on it.
ForgetsOnlyFailedConnection ==
    [][current.conn # 0 /\ current'.conn = 0 =>
          \E c \in Callers : /\ pc[c] = "invalidate" /\ pc'[c] # "invalidate"
                             /\ using[c].conn = current.conn]_vars

\* A produce call that returns Ok was appended, through every change of leader and
\* connection; a batch is appended again only for an answer that was lost or that
\* asked for a pause.
AcknowledgedIsAppended ==
    \A c \in Callers \ {Creator} : /\ result[c] = "ok" => appended[c] > 0
                                  /\ appended[c] <= 1 + faults

\* The cluster has a leader and the metadata cache names no other.
Settled == leader # NoLeader /\ cache.entry \notin Leaders \ {leader}

\* The retries come to an end: if from some time on the partition has a leader and
\* the metadata cache does not name another one (or none), then again and again no
\* call is under way, that is, every call that was started ends.
EndsUnlessCacheStale ==
    <>[]Settled => []<>(\A c \in Callers : pc[c] \notin Active)

\* "The cached metadata identified an incorrect leader - it is stale and should be
\* refreshed": when the broker it named denies, the entry is gone.
StaleEntryDiscarded ==
    [][\A c \in Callers :
          /\ pc[c] = "verify" /\ pc'[c] = "get" /\ conns[using[c].conn].ok
          /\ view[conns[using[c].conn].broker] \in Brokers
          /\ found[c].gen = cache.gen
          => cache'.entry = "none"]_vars
=============================================================================
