-------------------------- MODULE ControllerClient ---------------------------
(***************************************************************************)
(* ControllerClient (src/client/controller.rs) on top of BrokerConnector:  *)
(* create_topic and delete_topic go to the broker that is the controller,  *)
(* over one cached connection.  To find it, a call keeps the lock of that  *)
(* cache while it makes a metadata request over the cached arbitrary       *)
(* broker, which has a lock of its own.                                    *)
(*                                                                         *)
(* Both operations run the same code.  Each call is about a topic of its   *)
(* own, and applying it once more is an error of the broker: the topic     *)
(* already exists, or is unknown.  The metadata requests of an             *)
(* administrative call are those of the BrokerConnector caller of its name.*)
(***************************************************************************)
EXTENDS BrokerConnector

CONSTANTS
    Admin,           \* calls of create_topic and delete_topic
    Programs,        \* the calls that a program makes, and the trouble it meets (bound)
    NoBroker,
    MaxElections     \* elections, and answers that miss one (bound)

ASSUME ControllerAssumption ==
    /\ Admin \subseteq Arbitrary /\ NoBroker \notin Brokers
    /\ Programs \subseteq [calls : SUBSET Callers, trouble : Nat] /\ MaxElections \in Nat

VARIABLES
    program,         \* the calls of this program
    controller, elections, applied,  \* the cluster: which calls it has carried out
    current,         \* current_broker: connection (0: None), generation
    guard,           \* holder of its mutex
    stage, held, id, \* each call; its connection and generation; the controller's id
    reply            \* the answer on its way

admin_vars == <<stage, held, id, reply>>
cache_vars == <<current, guard>>
kafka_vars == <<controller, elections, applied>>
controller_vars == <<program, kafka_vars, cache_vars, admin_vars>>
all_vars == <<vars, controller_vars>>

Busy == {"get", "lookup", "connect", "send", "reply", "forget", "refresh"}

NotHeld == [conn |-> 0, gen |-> 0]
NoReply == [result |-> "none", throttled |-> FALSE]

ControllerInit ==
    /\ Init
    /\ program \in Programs
    /\ controller \in Brokers /\ elections = 0 /\ applied = {}
    /\ current = NotHeld /\ guard = Nobody
    /\ stage = [c \in Admin |-> "idle"]
    /\ held = [c \in Admin |-> NotHeld]
    /\ id = [c \in Admin |-> NoBroker]
    /\ reply = [c \in Admin |-> NoReply]
    /\ \A s \in Specific \ program.calls : target[s] = controller   \* of no interest

-----------------------------------------------------------------------------

To(c, label) == stage' = [stage EXCEPT ![c] = label]

Leave(c) == guard' = IF guard = c THEN Nobody ELSE guard

Election == elections < MaxElections /\ elections' = elections + 1

\* create_topic or delete_topic is called.
StartAdmin(c) ==
    /\ stage[c] = "idle" /\ To(c, "get")
    /\ UNCHANGED <<vars, program, kafka_vars, cache_vars, held, id, reply>>

-----------------------------------------------------------------------------
(* get(): the lock is kept until the new connection is cached.             *)

\* A metadata request over the arbitrary broker begins.
RequestMetadata(c) ==
    /\ Goto(c, "get")
    /\ UNCHANGED <<cluster_vars, faults, topology, conns, cached, lock, order, idx, using,
                   target>>

\* The cached connection, or the search for the controller.
GetController(c) ==
    /\ stage[c] = "get" /\ guard = Nobody
    /\ \/ /\ current.conn # 0
          /\ held' = [held EXCEPT ![c] = current]
          /\ To(c, "send")
          /\ UNCHANGED <<vars, guard>>
       \/ /\ current.conn = 0
          /\ guard' = c
          /\ RequestMetadata(c)
          /\ To(c, "lookup")
          /\ UNCHANGED held
    /\ UNCHANGED <<program, kafka_vars, current, id, reply>>

\* The steps of the metadata request before its answer.
MetadataLock(c) ==
    stage[c] \in {"lookup", "refresh"} /\ GetLock(c) /\ UNCHANGED controller_vars

MetadataForget(c) ==
    stage[c] \in {"lookup", "refresh"} /\ Invalidate(c) /\ UNCHANGED controller_vars

MetadataStep(c) ==
    /\ stage[c] \in {"lookup", "refresh"}
    /\ Connect(c) \/ Refuse(c) \/ Broken(c)
    /\ UNCHANGED controller_vars

\* get_controller_id: the broker asked may not know the new controller, or none.
GetControllerId(c) ==
    /\ stage[c] = "lookup" /\ Answer(c)
    /\ \E b \in Brokers \cup {NoBroker} :
          /\ id' = [id EXCEPT ![c] = b]
          /\ IF b = controller THEN UNCHANGED elections ELSE Election
    /\ To(c, "connect")
    /\ UNCHANGED <<program, controller, applied, cache_vars, held, reply>>

\* The metadata request fails: an error of the connection, which is retried.
LookupFails(c) ==
    /\ stage[c] = "lookup" /\ pc[c] = "failed"
    /\ To(c, "get") /\ Leave(c)
    /\ UNCHANGED <<vars, program, kafka_vars, current, held, id, reply>>

\* The new connection is cached under the next generation.
InstallController == [conn |-> Len(conns) + 1, gen |-> current.gen + 1]

\* An answer without controller, or without its address, is fatal; a connection that
\* fails is retried.
ConnectController(c) ==
    LET known == id[c] # NoBroker /\ topology[id[c]] # NoAddr
        up == known /\ Reachable(topology[id[c]])
    IN
    /\ stage[c] = "connect"
    /\ \/ /\ ~known
          /\ To(c, "failed")
          /\ UNCHANGED <<faults, conns, current, held>>
       \/ /\ up
          /\ conns' = Append(conns, [addr |-> topology[id[c]], ok |-> TRUE])
          /\ current' = InstallController
          /\ held' = [held EXCEPT ![c] = InstallController]
          /\ To(c, "send")
          /\ UNCHANGED faults
       \/ /\ known
          /\ IF up THEN Fault ELSE UNCHANGED faults
          /\ To(c, "get")
          /\ UNCHANGED <<conns, current, held>>
    /\ Leave(c)
    /\ id' = [id EXCEPT ![c] = NoBroker]
    /\ UNCHANGED <<cluster_vars, topology, cached, lock, call_vars, program, kafka_vars, reply>>

-----------------------------------------------------------------------------
(* create_topic, delete_topic and maybe_retry                              *)

\* The broker answers (external): only the controller carries the request out; any
\* answer may ask for a pause, and the request may be refused for other reasons.
AnswerAdmin(c) ==
    LET k == held[c].conn
        atController == addr[controller] = conns[k].addr
        result == IF ~atController THEN "not_controller"
                  ELSE IF c \in applied THEN "again" ELSE "ok"
    IN
    /\ stage[c] = "send" /\ conns[k].ok
    /\ \/ /\ reply' = [reply EXCEPT ![c] = [result |-> result, throttled |-> FALSE]]
          /\ applied' = IF atController THEN applied \cup {c} ELSE applied
          /\ UNCHANGED faults
       \/ /\ reply' = [reply EXCEPT ![c] = [result |-> result, throttled |-> TRUE]]
          /\ applied' = IF atController THEN applied \cup {c} ELSE applied
          /\ Fault
       \/ /\ reply' = [reply EXCEPT ![c] = [result |-> "error", throttled |-> FALSE]]
          /\ Fault
          /\ UNCHANGED applied
    /\ To(c, "reply")
    /\ UNCHANGED <<cluster_vars, topology, conns, cached, lock, call_vars, program, controller,
                   elections, cache_vars, held, id>>

\* Variant: a broker that is not the controller is asked again.
AfterReplySameBroker(answer) ==
    IF answer.throttled THEN "get"
    ELSE CASE answer.result = "ok" -> "refresh"
           [] answer.result = "not_controller" -> "get"
           [] OTHER -> "failed"

\* Variant: the error of the topic is not looked at.
AfterReplyNoError(answer) ==
    IF answer.throttled THEN "get"
    ELSE IF answer.result = "error" THEN "failed" ELSE "refresh"

\* maybe_throttle first, then the one topic and its error.
AfterReply(answer) ==
    IF answer.throttled THEN "get"
    ELSE CASE answer.result = "ok" -> "refresh"
           [] answer.result = "not_controller" -> "forget"
           [] OTHER -> "failed"

\* The answer is taken in; after a success the metadata is refreshed.
ReceiveAdmin(c) ==
    /\ stage[c] = "reply" /\ conns[held[c].conn].ok
    /\ To(c, AfterReply(reply[c]))
    /\ IF AfterReply(reply[c]) = "refresh" THEN RequestMetadata(c) ELSE UNCHANGED vars
    /\ reply' = [reply EXCEPT ![c] = NoReply]
    /\ held' = IF AfterReply(reply[c]) = "forget" THEN held ELSE [held EXCEPT ![c] = NotHeld]
    /\ UNCHANGED <<program, kafka_vars, cache_vars, id>>

\* The connection breaks before the answer is read.
BrokenAdmin(c) ==
    /\ stage[c] \in {"send", "reply"} /\ ~conns[held[c].conn].ok
    /\ To(c, "forget")
    /\ reply' = [reply EXCEPT ![c] = NoReply]
    /\ UNCHANGED <<vars, program, kafka_vars, cache_vars, held, id>>

\* Variant: the generation is not compared.
ForgetsAnyController(c) == TRUE

\* Whether the generation that failed is the cached one.
ForgetsController(c) == current.gen = held[c].gen

\* invalidate(), then the next attempt.
InvalidateController(c) ==
    /\ stage[c] = "forget" /\ guard = Nobody
    /\ current' = IF ForgetsController(c) THEN [current EXCEPT !.conn = 0] ELSE current
    /\ held' = [held EXCEPT ![c] = NotHeld]
    /\ To(c, "get")
    /\ UNCHANGED <<vars, program, kafka_vars, guard, id, reply>>

\* refresh_metadata ends; its result is ignored.
Refreshed(c) ==
    /\ stage[c] = "refresh"
    /\ \/ Answer(c)
       \/ pc[c] = "failed" /\ UNCHANGED vars
    /\ To(c, "done")
    /\ UNCHANGED <<program, kafka_vars, cache_vars, held, id, reply>>

\* The call is dropped, with the metadata request it waits for and their locks.
CancelAdmin(c) ==
    /\ stage[c] \in Busy
    /\ To(c, "cancelled") /\ Leave(c)
    /\ held' = [held EXCEPT ![c] = NotHeld]
    /\ id' = [id EXCEPT ![c] = NoBroker]
    /\ reply' = [reply EXCEPT ![c] = NoReply]
    /\ IF pc[c] \in Active THEN Cancel(c) ELSE UNCHANGED vars
    /\ UNCHANGED <<program, kafka_vars, current>>

\* The cluster elects another controller (external).
Elect(b) ==
    /\ b # controller /\ Election /\ controller' = b
    /\ UNCHANGED <<vars, program, applied, cache_vars, admin_vars>>

-----------------------------------------------------------------------------

AdminStep(c) ==
    \/ GetController(c)
    \/ MetadataLock(c) \/ MetadataStep(c) \/ MetadataForget(c)
    \/ GetControllerId(c) \/ LookupFails(c) \/ ConnectController(c)
    \/ AnswerAdmin(c) \/ ReceiveAdmin(c) \/ BrokenAdmin(c) \/ InvalidateController(c)
    \/ Refreshed(c)

PlainStep(c) == CallStep(c) /\ UNCHANGED controller_vars

Ended ==
    /\ \A c \in Admin \cap program.calls : stage[c] \notin Busy \cup {"idle"}
    /\ \A c \in program.calls \ Admin : pc[c] \notin Active \cup {"idle"}
    /\ UNCHANGED all_vars

ControllerSteps ==
    \/ \E c \in Admin \cap program.calls : StartAdmin(c) \/ AdminStep(c) \/ CancelAdmin(c)
    \/ \E c \in program.calls \ Admin :
          PlainStep(c) \/ ((Start(c) \/ Cancel(c)) /\ UNCHANGED controller_vars)
    \/ \E b \in Brokers : Elect(b)
    \/ \E b \in Brokers, a \in Addrs : MoveBroker(b, a) /\ UNCHANGED controller_vars
    \/ \E k \in DOMAIN conns : BreakConnection(k) /\ UNCHANGED controller_vars
    \/ Ended

\* The trouble a program meets is bounded.
ControllerNext == ControllerSteps /\ moves' + faults' + elections' <= program.trouble

ControllerSpec == ControllerInit /\ [][ControllerNext]_all_vars

\* tokio's mutexes hand the lock on in order, so that a call that waits for one gets
\* it; otherwise a call is polled to its end, and the brokers answer.
ControllerFairSpec ==
    /\ ControllerSpec
    /\ \A c \in Admin : SF_all_vars(AdminStep(c))
    /\ \A c \in Callers \ Admin : SF_all_vars(PlainStep(c))

-----------------------------------------------------------------------------
(* Properties                                                              *)

\* A late report, of a broken connection or of a broker that is no longer the
\* controller, never discards the connection that replaced the one it is about.
ForgetsOnlyFailedController ==
    [][current.conn # 0 /\ current'.conn = 0 =>
          \E c \in Admin : stage[c] = "forget" /\ held[c].conn = current.conn]_all_vars

\* An operation that succeeds has been carried out by the controller, whatever
\* happened to earlier attempts and whoever is the controller by now.
SuccessIsApplied ==
    \A c \in Admin : stage[c] \in {"refresh", "done"} => c \in applied

\* Every create_topic and delete_topic ends, if the addresses that any call tries
\* hold from some time on a reachable one: a controller that moves, breaks its
\* connections or hands over its office is found in the end.
AdminEnds ==
    <>[](\A c \in Callers : CanConnect(c))
        => \A c \in Admin : stage[c] \in Busy ~> stage[c] \notin Busy
=============================================================================
