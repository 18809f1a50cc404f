--------------------------- MODULE BrokerConnector ---------------------------
(***************************************************************************)
(* BrokerConnector (src/connection.rs): metadata requests over one cached  *)
(* connection to an arbitrary broker, which is replaced when it breaks, and*)
(* over connections to a specific broker.  Which addresses are tried comes *)
(* from the bootstrap list, or from the topology learned from metadata     *)
(* answers (src/connection/topology.rs).                                   *)
(*                                                                         *)
(* The cluster is external: brokers that move to other addresses, and      *)
(* addresses that are always reachable, such as a load balancer's.         *)
(* Backoff pauses have no duration, and no deadline is set, as by default. *)
(***************************************************************************)
EXTENDS Integers, Sequences, FiniteSets

CONSTANTS
    Brokers, Addrs,
    InitAddr,        \* address of each broker at first
    Stable,          \* addresses that are always reachable
    Bootstrap,       \* bootstrap_brokers
    Arbitrary,       \* requests to an arbitrary broker
    Specific,        \* requests to a specific broker
    Nobody, NoAddr,
    MaxMoves,        \* how often a broker changes its address (bound)
    MaxFaults        \* throttling, breaking and failing requests (bound)

ASSUME ConnectorAssumption ==
    /\ InitAddr \in [Brokers -> Addrs]
    /\ Stable \subseteq Addrs /\ Bootstrap \subseteq Addrs
    /\ Arbitrary \cap Specific = {} /\ Nobody \notin Arbitrary \cup Specific
    /\ NoAddr \notin Addrs
    /\ MaxMoves \in Nat /\ MaxFaults \in Nat

VARIABLES
    addr, before,   \* the addresses of the brokers, and those before the last move
    moves, faults,  \* the trouble so far
    topology,       \* the address known for each broker, or NoAddr
    conns,          \* every connection: address, and whether it works
    cached,         \* cached_arbitrary_broker: connection (0: None), generation
    lock,           \* holder of its mutex
    pc, order, idx, \* each call; the addresses it tries, and the current one
    using,          \* the connection it uses, and its generation (0: specific)
    target          \* the broker a specific request goes to

cluster_vars == <<addr, before, moves>>
call_vars == <<pc, order, idx, using, target>>
vars == <<cluster_vars, faults, topology, conns, cached, lock, call_vars>>

Callers == Arbitrary \cup Specific
Active  == {"get", "connect", "open", "request", "invalidate"}

TypeOK ==
    /\ addr \in [Brokers -> Addrs] /\ before \in [Brokers -> Addrs]
    /\ moves \in 0 .. MaxMoves /\ faults \in 0 .. MaxFaults
    /\ topology \in [Brokers -> Addrs \cup {NoAddr}]
    /\ conns \in Seq([addr : Addrs, ok : BOOLEAN])
    /\ cached \in [conn : Nat, gen : Nat] /\ cached.conn <= Len(conns)
    /\ lock \in Callers \cup {Nobody}
    /\ pc \in [Callers -> Active \cup {"idle", "done", "failed", "cancelled"}]
    /\ order \in [Callers -> Seq(Addrs)] /\ idx \in [Callers -> Nat]
    /\ using \in [Callers -> [conn : Nat, gen : Nat]]
    /\ \A c \in Callers : using[c].conn <= Len(conns)
    /\ \A c \in Callers : pc[c] = "connect" <=> lock = c
    /\ target \in [Specific -> Brokers]

Init ==
    /\ addr = InitAddr /\ before = InitAddr /\ moves = 0 /\ faults = 0
    /\ topology = [b \in Brokers |-> NoAddr]
    /\ conns = <<>>
    /\ cached = [conn |-> 0, gen |-> 0]
    /\ lock = Nobody
    /\ pc = [c \in Callers |-> "idle"]
    /\ order = [c \in Callers |-> <<>>] /\ idx = [c \in Callers |-> 0]
    /\ using = [c \in Callers |-> [conn |-> 0, gen |-> 0]]
    /\ target \in [Specific -> Brokers]

-----------------------------------------------------------------------------

Reachable(a) == a \in Stable \/ \E b \in Brokers : addr[b] = a

Goto(c, label) == pc' = [pc EXCEPT ![c] = label]

Fault == faults < MaxFaults /\ faults' = faults + 1

\* brokers(): the topology, or the bootstrap brokers while it is empty.
KnownAddrs ==
    LET known == {b \in Brokers : topology[b] # NoAddr}
    IN  IF known = {} THEN Bootstrap ELSE {topology[b] : b \in known}

\* shuffle
Orders(S) ==
    {s \in [1 .. Cardinality(S) -> S] : \A i, j \in DOMAIN s : i # j => s[i] # s[j]}

\* A call of request_metadata starts.
Start(c) ==
    /\ pc[c] = "idle"
    /\ Goto(c, IF c \in Arbitrary THEN "get" ELSE "open")
    /\ UNCHANGED <<cluster_vars, faults, topology, conns, cached, lock, order, idx, using,
                   target>>

-----------------------------------------------------------------------------
(* get() and connect_to_a_broker_with_retry                                *)

\* The cached connection, or the lock is kept and the addresses to try are fixed.
GetLock(c) ==
    /\ pc[c] = "get" /\ lock = Nobody
    /\ \/ /\ cached.conn # 0
          /\ using' = [using EXCEPT ![c] = cached]
          /\ Goto(c, "request")
          /\ UNCHANGED <<lock, order, idx>>
       \/ /\ cached.conn = 0
          /\ lock' = c
          /\ \E s \in Orders(KnownAddrs) : order' = [order EXCEPT ![c] = s]
          /\ idx' = [idx EXCEPT ![c] = 1]
          /\ Goto(c, "connect")
          /\ UNCHANGED using
    /\ UNCHANGED <<cluster_vars, faults, topology, conns, cached, target>>

\* The new connection is cached under the next generation.
Install == [conn |-> Len(conns) + 1, gen |-> cached.gen + 1]

\* Variant: the loop stops at the last address.
NextIdxLast(c) == IF idx[c] = Len(order[c]) THEN idx[c] ELSE idx[c] + 1

\* Try the next address; after the last one comes a pause and the first one again.
NextIdx(c) == IF idx[c] = Len(order[c]) THEN 1 ELSE idx[c] + 1

Connect(c) ==
    LET a == order[c][idx[c]] IN
    /\ pc[c] = "connect" /\ idx[c] \in DOMAIN order[c]
    /\ \/ /\ Reachable(a)
          /\ conns' = Append(conns, [addr |-> a, ok |-> TRUE])
          /\ cached' = Install
          /\ using' = [using EXCEPT ![c] = Install]
          /\ lock' = Nobody
          /\ order' = [order EXCEPT ![c] = <<>>] /\ idx' = [idx EXCEPT ![c] = 0]
          /\ Goto(c, "request")
          /\ UNCHANGED faults
       \/ /\ IF Reachable(a) THEN Fault ELSE UNCHANGED faults
          /\ idx' = [idx EXCEPT ![c] = NextIdx(c)]
          /\ UNCHANGED <<conns, cached, using, lock, pc, order>>
    /\ UNCHANGED <<cluster_vars, topology, target>>

\* BrokerConnector::connect to one broker: it may be unknown, or unreachable.
Open(c) ==
    LET a == topology[target[c]] IN
    /\ pc[c] = "open"
    /\ \/ /\ a # NoAddr /\ Reachable(a)
          /\ conns' = Append(conns, [addr |-> a, ok |-> TRUE])
          /\ using' = [using EXCEPT ![c] = [conn |-> Len(conns) + 1, gen |-> 0]]
          /\ Goto(c, "request")
       \/ /\ a = NoAddr \/ ~Reachable(a)
          /\ Goto(c, "failed")
          /\ UNCHANGED <<conns, using>>
    /\ UNCHANGED <<cluster_vars, faults, topology, cached, lock, order, idx, target>>

-----------------------------------------------------------------------------
(* metadata_request_with_retry                                             *)

\* BrokerTopology::update: brokers that the answer does not name keep their address.
UpdateTopology(named, at) ==
    topology' = [b \in Brokers |-> IF b \in named THEN at[b] ELSE topology[b]]

\* The answer arrives; the broker asked may know only some brokers, or miss a move.
Answer(c) ==
    /\ pc[c] = "request" /\ conns[using[c].conn].ok
    /\ \E named \in SUBSET Brokers, at \in {addr, before} :
          /\ named # {}
          /\ IF named = Brokers /\ at = addr THEN UNCHANGED faults ELSE Fault
          /\ UpdateTopology(named, at)
    /\ Goto(c, "done")
    /\ UNCHANGED <<cluster_vars, conns, cached, lock, order, idx, using, target>>

\* The broker asks for a pause, or the request fails for good.
Refuse(c) ==
    /\ pc[c] = "request" /\ conns[using[c].conn].ok /\ Fault
    /\ \/ Goto(c, IF c \in Arbitrary THEN "get" ELSE "request")
       \/ Goto(c, "failed")
    /\ UNCHANGED <<cluster_vars, topology, conns, cached, lock, order, idx, using, target>>

\* The connection is broken: only an arbitrary broker is replaced.
Broken(c) ==
    /\ pc[c] = "request" /\ ~conns[using[c].conn].ok
    /\ Goto(c, IF c \in Arbitrary THEN "invalidate" ELSE "failed")
    /\ UNCHANGED <<cluster_vars, faults, topology, conns, cached, lock, order, idx, using,
                   target>>

\* Variant: the generation is not compared.
ForgetsAny(c) == TRUE

\* Whether the generation that failed is the cached one.
Forgets(c) == cached.gen = using[c].gen

\* invalidate(), then the next attempt.
Invalidate(c) ==
    /\ pc[c] = "invalidate" /\ lock = Nobody
    /\ cached' = IF Forgets(c) THEN [cached EXCEPT !.conn = 0] ELSE cached
    /\ Goto(c, "get")
    /\ UNCHANGED <<cluster_vars, faults, topology, conns, lock, order, idx, using, target>>

\* The call is dropped; a lock it holds is released.
Cancel(c) ==
    /\ pc[c] \in Active
    /\ Goto(c, "cancelled")
    /\ lock' = IF lock = c THEN Nobody ELSE lock
    /\ UNCHANGED <<cluster_vars, faults, topology, conns, cached, order, idx, using, target>>

-----------------------------------------------------------------------------
(* The cluster (external)                                                  *)

\* A broker gets another address; its connections break.
MoveBroker(b, a) ==
    /\ moves < MaxMoves /\ a \notin Stable /\ \A d \in Brokers : addr[d] # a
    /\ moves' = moves + 1
    /\ addr' = [addr EXCEPT ![b] = a] /\ before' = addr
    /\ conns' = [k \in DOMAIN conns |->
                    IF conns[k].addr = addr[b] THEN [conns[k] EXCEPT !.ok = FALSE]
                                               ELSE conns[k]]
    /\ UNCHANGED <<faults, topology, cached, lock, call_vars>>

BreakConnection(k) ==
    /\ conns[k].ok /\ Fault
    /\ conns' = [conns EXCEPT ![k].ok = FALSE]
    /\ UNCHANGED <<cluster_vars, topology, cached, lock, call_vars>>

Terminated == (\A c \in Callers : pc[c] \notin Active) /\ UNCHANGED vars

-----------------------------------------------------------------------------

CallStep(c) ==
    \/ GetLock(c) \/ Connect(c) \/ Open(c)
    \/ Answer(c) \/ Refuse(c) \/ Broken(c) \/ Invalidate(c)

Next ==
    \/ \E c \in Callers : Start(c) \/ CallStep(c) \/ Cancel(c)
    \/ \E b \in Brokers, a \in Addrs : MoveBroker(b, a)
    \/ \E k \in DOMAIN conns : BreakConnection(k)
    \/ Terminated

Spec == Init /\ [][Next]_vars

-----------------------------------------------------------------------------
(* Properties                                                              *)

\* A generation stands for one connection: calls that got the same generation of the
\* cached broker got the same connection, so that comparing generations tells
\* whose connection an invalidation is about.
GenerationNamesConnection ==
    \A c, d \in Arbitrary :
        using[c].conn # 0 /\ using[d].conn # 0 /\ using[c].gen = using[d].gen
            => using[c].conn = using[d].conn

\* A late failure report never discards the connection that replaced the failed
\* one: the connection that is forgotten is one the reporting call used.
ForgetsOnlyFailedConnection ==
    [][cached.conn # 0 /\ cached'.conn = 0 =>
          \E c \in Arbitrary : pc[c] = "invalidate" /\ using[c].conn = cached.conn]_vars

\* Some address the call tries is reachable.
CanConnect(c) == pc[c] = "connect" => \E i \in DOMAIN order[c] : Reachable(order[c][i])

\* Every metadata request ends, if the addresses that any call tries hold from some
\* time on a reachable one: no call waits for the lock or retries for ever.
EndsIfReachable ==
    <>[](\A c \in Callers : CanConnect(c))
        => \A c \in Callers : pc[c] \in Active ~> pc[c] \notin Active
=============================================================================
