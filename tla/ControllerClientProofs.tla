----------------------- MODULE ControllerClientProofs ------------------------
(***************************************************************************)
(* The cached connections: that to an arbitrary broker (BrokerConnector),  *)
(* then that to the controller and the first again under administrative    *)
(* calls (ControllerClient).  Proofs for any sets of calls, brokers and    *)
(* addresses and any amount of trouble.                                    *)
(***************************************************************************)
EXTENDS ControllerClient, TLAPS

-----------------------------------------------------------------------------
(* BrokerConnector: the generations of the cached arbitrary broker         *)

Generations ==
    /\ addr \in [Brokers -> Addrs] /\ before \in [Brokers -> Addrs]
    /\ topology \in [Brokers -> Addrs \cup {NoAddr}]
    /\ conns \in Seq([addr : Addrs, ok : BOOLEAN])
    /\ cached \in [conn : Nat, gen : Nat]
    /\ using \in [Callers -> [conn : Nat, gen : Nat]]
    /\ pc \in [Callers -> Active \cup {"idle", "done", "failed", "cancelled"}]
    /\ \A c \in Callers : /\ pc[c] \in {"get", "connect", "invalidate"} => c \in Arbitrary
                          /\ pc[c] = "open" => c \in Specific
    /\ target \in [Specific -> Brokers]
    /\ DOMAIN order = Callers
    /\ \A c \in Callers : \A i \in DOMAIN order[c] : order[c][i] \in Addrs

\* A generation is never reused: all that calls hold are at most the cached one, and
\* those of that generation hold its connection.
IInv ==
    /\ Generations
    /\ \A c \in Arbitrary : using[c].gen <= cached.gen
    /\ \A c \in Arbitrary :
          using[c].conn # 0 /\ using[c].gen = cached.gen /\ cached.conn # 0
              => using[c].conn = cached.conn
    /\ \A c \in Arbitrary : pc[c] \in {"request", "invalidate"} => using[c].conn # 0
    /\ GenerationNamesConnection

LEMMA FunctionIsSeq ==
    ASSUME NEW S, NEW n \in Nat, NEW f \in [1 .. n -> S]
    PROVE  f \in Seq(S)
OBVIOUS

\* What the invariant says of the connections and of the known addresses.
LEMMA Known ==
    ASSUME IInv
    PROVE  /\ conns \in Seq([addr : Addrs, ok : BOOLEAN]) /\ Len(conns) \in Nat
           /\ conns \in [1 .. Len(conns) -> [addr : Addrs, ok : BOOLEAN]]
           /\ topology \in [Brokers -> Addrs \cup {NoAddr}]
           /\ addr \in [Brokers -> Addrs]
<1>1. /\ conns \in Seq([addr : Addrs, ok : BOOLEAN])
      /\ topology \in [Brokers -> Addrs \cup {NoAddr}]
      /\ addr \in [Brokers -> Addrs]
  BY Zenon DEF IInv, Generations
<1>2. \A S : \A s \in Seq(S) : Len(s) \in Nat /\ s \in [1 .. Len(s) -> S]
  OBVIOUS
<1> QED BY <1>1, <1>2, Zenon

\* Steps that change neither the cache nor what calls use of it keep the invariant,
\* if no such call gets to its request.
LEMMA Untouched ==
    ASSUME IInv, UNCHANGED cached, \A c \in Arbitrary : using'[c] = using[c], Generations',
           \A c \in Arbitrary : pc'[c] \in {"request", "invalidate"}
                                    => pc[c] \in {"request", "invalidate"}
    PROVE  IInv'
BY DEF IInv, GenerationNamesConnection

LEMMA GetLockKeeps ==
    ASSUME IInv, NEW c \in Callers, GetLock(c)
    PROVE  IInv'
<1>1. CASE cached.conn # 0
  <2>1. /\ using' = [using EXCEPT ![c] = cached]
        /\ pc' = [pc EXCEPT ![c] = "request"]
        /\ UNCHANGED <<addr, before, topology, conns, cached, order, target>>
    BY <1>1 DEF GetLock, Goto, cluster_vars
  <2>2. Generations'
    BY <2>1 DEF IInv, Generations, Active
  <2> QED
    BY <1>1, <2>1, <2>2 DEF IInv, Generations, GenerationNamesConnection, Callers
<1>2. CASE cached.conn = 0
  <2>1. /\ pc[c] = "get" /\ pc' = [pc EXCEPT ![c] = "connect"]
        /\ UNCHANGED <<addr, before, topology, conns, cached, using, target>>
    BY <1>2 DEF GetLock, Goto, cluster_vars
  <2>2. PICK s \in Orders(KnownAddrs) : order' = [order EXCEPT ![c] = s]
    BY <1>2 DEF GetLock
  <2>3. KnownAddrs \subseteq Addrs
    BY ConnectorAssumption DEF KnownAddrs, IInv, Generations
  <2>4. \A i \in DOMAIN s : s[i] \in Addrs
    BY <2>3 DEF Orders
  <2>5. Generations'
    BY <2>1, <2>2, <2>4 DEF IInv, Generations, Active
  <2> QED BY <2>1, <2>5, Untouched DEF IInv, Generations, Callers
<1> QED BY <1>1, <1>2, Zenon

LEMMA ConnectKeeps ==
    ASSUME IInv, NEW c \in Callers, Connect(c)
    PROVE  IInv'
<1>0. order[c][idx[c]] \in Addrs /\ UNCHANGED <<addr, before, topology, target>>
  BY Zenon DEF Connect, IInv, Generations, cluster_vars
<1>1. CASE UNCHANGED <<conns, cached, using, lock, pc, order>>
  BY <1>0, <1>1, Untouched DEF IInv, Generations
<1>2. CASE /\ conns' = Append(conns, [addr |-> order[c][idx[c]], ok |-> TRUE])
           /\ cached' = Install
           /\ using' = [using EXCEPT ![c] = Install]
           /\ order' = [order EXCEPT ![c] = <<>>]
           /\ Goto(c, "request")
  <2>1. Len(conns) \in Nat /\ cached.gen \in Nat
    BY DEF IInv, Generations
  <2>2. /\ Install \in [conn : Nat, gen : Nat]
        /\ Install.conn # 0 /\ Install.gen = cached.gen + 1
    BY <2>1 DEF Install
  <2>3. Generations'
    BY <1>0, <1>2, <2>2 DEF IInv, Generations, Goto, Active
  <2>4. \A d \in Arbitrary : d # c => using'[d] = using[d] /\ using'[d].gen < cached'.gen
    BY <1>2, <2>1, <2>2 DEF IInv, Generations, Callers
  <2>5. using'[c] = cached' /\ using'[c].conn # 0
    BY <1>2, <2>2 DEF IInv, Generations
  <2>6. \A d \in Arbitrary : d # c => pc'[d] = pc[d]
    BY <1>2 DEF IInv, Generations, Goto, Callers
  <2>7. cached'.gen \in Nat /\ \A d \in Arbitrary : using'[d].gen \in Nat
    BY <2>3 DEF Generations, Callers
  <2> QED
    BY <2>3, <2>4, <2>5, <2>6, <2>7 DEF IInv, GenerationNamesConnection
<1> QED BY <1>1, <1>2 DEF Connect

\* Every step keeps the invariant.
LEMMA NextKeeps ==
    ASSUME IInv, [Next]_vars
    PROVE  IInv'
<1> USE DEF Goto, Active, cluster_vars, call_vars
<1>1. ASSUME NEW c \in Callers, Start(c) PROVE IInv'
  <2>1. Generations'
    BY <1>1 DEF Start, IInv, Generations, Callers
  <2> QED BY <1>1, <2>1, Untouched, Zenon DEF Start, IInv, Generations, Callers
<1>2. ASSUME NEW c \in Callers, Open(c) PROVE IInv'
  <2>1. c \in Specific /\ c \notin Arbitrary
    BY <1>2, ConnectorAssumption DEF Open, IInv, Generations
  <2>2. topology[target[c]] \in Addrs \cup {NoAddr}
    BY <2>1 DEF IInv, Generations
  <2>3. Len(conns) \in Nat
    BY Known, Zenon
  <2>4. CASE UNCHANGED <<conns, using>>
    <3>1. Generations'
      BY <1>2, <2>1, <2>4, Zenon DEF Open, IInv, Generations
    <3> QED BY <1>2, <2>4, <3>1, Untouched, SMTT(30) DEF Open, IInv, Generations, Callers
  <2>5. CASE /\ conns' = Append(conns, [addr |-> topology[target[c]], ok |-> TRUE])
             /\ topology[target[c]] # NoAddr
             /\ using' = [using EXCEPT ![c] = [conn |-> Len(conns) + 1, gen |-> 0]]
             /\ pc' = [pc EXCEPT ![c] = "request"]
    <3>1. [addr |-> topology[target[c]], ok |-> TRUE] \in [addr : Addrs, ok : BOOLEAN]
      BY <2>2, <2>5, Zenon
    <3>2. conns' \in Seq([addr : Addrs, ok : BOOLEAN])
      BY <2>5, <3>1, SMTT(30) DEF IInv, Generations
    <3>3. Generations'
      BY <1>2, <2>1, <2>3, <2>5, <3>2 DEF Open, IInv, Generations
    <3>4. \A d \in Arbitrary : using'[d] = using[d] /\ pc'[d] = pc[d]
      BY <2>1, <2>5, Zenon DEF IInv, Generations, Callers
    <3> QED BY <1>2, <3>3, <3>4, Untouched, Zenon DEF Open
  <2> QED BY <1>2, <2>4, <2>5, Zenon DEF Open
<1>3. ASSUME NEW c \in Callers, Answer(c) PROVE IInv'
  <2>1. topology' \in [Brokers -> Addrs \cup {NoAddr}]
    BY <1>3 DEF Answer, UpdateTopology, IInv, Generations
  <2>2. Generations'
    BY <1>3, <2>1, Zenon DEF Answer, IInv, Generations
  <2> QED BY <1>3, <2>2, Untouched, ZenonT(30) DEF Answer, IInv, Generations, Callers
<1>4. ASSUME NEW c \in Callers, Refuse(c) PROVE IInv'
  <2>1. /\ pc' \in [Callers -> Active \cup {"idle", "done", "failed", "cancelled"}]
        /\ \A d \in Callers : /\ pc'[d] \in {"get", "connect", "invalidate"} => d \in Arbitrary
                              /\ pc'[d] = "open" => d \in Specific
    <3>1. PICK label \in {"get", "request", "failed"} :
             pc' = [pc EXCEPT ![c] = label] /\ (label = "get" => c \in Arbitrary)
      BY <1>4, Zenon DEF Refuse
    <3> QED BY <3>1 DEF IInv, Generations
  <2>2. Generations'
    BY <1>4, <2>1, Zenon DEF Refuse, IInv, Generations
  <2> QED BY <1>4, <2>2, Untouched, Zenon DEF Refuse, IInv, Generations, Callers
<1>5. ASSUME NEW c \in Callers, Broken(c) PROVE IInv'
  <2>1. Generations'
    BY <1>5, Zenon DEF Broken, IInv, Generations
  <2> QED BY <1>5, <2>1, Untouched, Zenon DEF Broken, IInv, Generations, Callers
<1>6. ASSUME NEW c \in Callers, Invalidate(c) PROVE IInv'
  <2>1. Generations'
    BY <1>6, Zenon DEF Invalidate, IInv, Generations
  <2>2. cached'.gen = cached.gen /\ (cached'.conn = cached.conn \/ cached'.conn = 0)
    BY <1>6 DEF Invalidate, IInv, Generations
  <2> QED
    BY <1>6, <2>1, <2>2
    DEF Invalidate, IInv, Generations, Callers, GenerationNamesConnection
<1>7. ASSUME NEW c \in Callers, Cancel(c) PROVE IInv'
  <2>1. Generations'
    BY <1>7 DEF Cancel, IInv, Generations
  <2> QED BY <1>7, <2>1, Untouched, Zenon DEF Cancel, IInv, Generations, Callers
<1>8. ASSUME NEW b \in Brokers, NEW a \in Addrs, MoveBroker(b, a) PROVE IInv'
  <2>1. conns' \in Seq([addr : Addrs, ok : BOOLEAN])
    <3>1. conns \in [1 .. Len(conns) -> [addr : Addrs, ok : BOOLEAN]] /\ Len(conns) \in Nat
      BY Known, Zenon
    <3>2. conns' \in [1 .. Len(conns) -> [addr : Addrs, ok : BOOLEAN]]
      BY <1>8, <3>1, Zenon DEF MoveBroker
    <3> QED BY <3>1, <3>2, FunctionIsSeq, Zenon
  <2>2. Generations'
    BY <1>8, <2>1 DEF MoveBroker, IInv, Generations
  <2> QED BY <1>8, <2>2, Untouched DEF MoveBroker
<1>9. ASSUME NEW k \in DOMAIN conns, BreakConnection(k) PROVE IInv'
  <2>1. conns' \in Seq([addr : Addrs, ok : BOOLEAN])
    <3>1. conns \in [1 .. Len(conns) -> [addr : Addrs, ok : BOOLEAN]] /\ Len(conns) \in Nat
      BY Known, Zenon
    <3>2. conns' \in [1 .. Len(conns) -> [addr : Addrs, ok : BOOLEAN]]
      BY <1>9, <3>1, Zenon DEF BreakConnection
    <3> QED BY <3>1, <3>2, FunctionIsSeq, Zenon
  <2>2. Generations'
    BY <1>9, <2>1, Zenon DEF BreakConnection, IInv, Generations
  <2> QED BY <1>9, <2>2, Untouched DEF BreakConnection
<1>10. CASE UNCHANGED vars
  BY <1>10, Zenon DEF vars, IInv, Generations, GenerationNamesConnection
<1> QED
  BY <1>1, <1>2, <1>3, <1>4, <1>5, <1>6, <1>7, <1>8, <1>9, <1>10, GetLockKeeps,
     ConnectKeeps, Zenon
  DEF Next, CallStep, Terminated

\* The invariant holds initially.
LEMMA InitHolds == Init => IInv
<1> SUFFICES ASSUME Init PROVE IInv
  OBVIOUS
<1>1. conns = <<>> /\ conns \in Seq([addr : Addrs, ok : BOOLEAN])
  BY DEF Init
<1>2. \A c \in Callers : order[c] = <<>> /\ pc[c] = "idle"
  BY Zenon DEF Init
<1>3. Generations
  BY <1>1, <1>2, ConnectorAssumption DEF Init, Generations, Active
<1>4. \A c \in Arbitrary : using[c] = [conn |-> 0, gen |-> 0]
  BY DEF Init, Callers
<1>5. \A c \in Arbitrary : pc[c] = "idle"
  BY <1>2 DEF Callers
<1>6. cached = [conn |-> 0, gen |-> 0]
  BY DEF Init
<1> QED BY <1>3, <1>4, <1>5, <1>6 DEF IInv, GenerationNamesConnection

\* The invariant is inductive.
THEOREM Invariance == Spec => []IInv
<1>1. Init => IInv
  BY InitHolds
<1>2. IInv /\ [Next]_vars => IInv'
  BY NextKeeps
<1> QED BY <1>1, <1>2, PTL DEF Spec

\* Calls with the same generation of the cached broker have the same connection.
THEOREM GenerationsAreUnique == Spec => []GenerationNamesConnection
<1>1. IInv => GenerationNamesConnection
  BY Zenon DEF IInv
<1> QED BY <1>1, Invariance, PTL

\* A step that discards the cached connection is one of a call that has used it.
LEMMA ForgetStep ==
    ASSUME IInv, [Next]_vars, cached.conn # 0, cached'.conn = 0
    PROVE  \E c \in Arbitrary : pc[c] = "invalidate" /\ using[c].conn = cached.conn
<1>1. \A c \in Callers : ~Connect(c)
  <2> SUFFICES ASSUME NEW c \in Callers, Connect(c) PROVE FALSE
    BY Zenon
  <2>1. cached' = Install
    BY Zenon DEF Connect
  <2>2. Len(conns) \in Nat
    BY DEF IInv, Generations
  <2> QED BY <2>1, <2>2 DEF Install
<1>2. PICK c \in Callers : Invalidate(c)
  BY <1>1, Zenon
  DEF Next, CallStep, Terminated, vars, Start, GetLock, Open, Answer, Refuse, Broken,
      Cancel, MoveBroker, BreakConnection
<1>3. pc[c] = "invalidate" /\ Forgets(c)
  BY <1>2 DEF Invalidate
<1>4. c \in Arbitrary /\ using[c].conn # 0 /\ using[c].gen = cached.gen
  BY <1>3 DEF IInv, Generations, Forgets
<1> QED BY <1>3, <1>4, Zenon DEF IInv

\* invalidate() only discards a connection the reporting call has used.
THEOREM OnlyFailedForgotten == Spec => ForgetsOnlyFailedConnection
<1>1. IInv /\ [Next]_vars =>
        [cached.conn # 0 /\ cached'.conn = 0 =>
           \E c \in Arbitrary : pc[c] = "invalidate" /\ using[c].conn = cached.conn]_vars
  BY ForgetStep
<1> QED BY <1>1, Invariance, PTL DEF Spec, ForgetsOnlyFailedConnection

-----------------------------------------------------------------------------
(* ControllerClient                                                        *)

Stages == Busy \cup {"idle", "done", "failed", "cancelled"}

Replies == [result : {"none", "ok", "again", "not_controller", "error"}, throttled : BOOLEAN]

ControllerTypes ==
    /\ program \in Programs
    /\ current \in [conn : Nat, gen : Nat] /\ held \in [Admin -> [conn : Nat, gen : Nat]]
    /\ stage \in [Admin -> Stages]
    /\ reply \in [Admin -> Replies]

\* A generation stands for one connection to a controller.
HeldMatches(c) ==
    /\ held[c].conn # 0 /\ held[c].gen <= current.gen
    /\ held[c].gen = current.gen /\ current.conn # 0 => held[c].conn = current.conn

\* The part of the invariant that is about the variables of ControllerClient.
ControllerPart ==
    /\ ControllerTypes
    /\ \A c \in Admin : stage[c] \in {"send", "reply", "forget"} => HeldMatches(c)
    /\ \A c \in Admin : reply[c].result = "ok" => c \in applied
    /\ SuccessIsApplied

CInv == IInv /\ ControllerPart

-----------------------------------------------------------------------------
(* The connector's invariant                                               *)

LEMMA CallersOfProgram ==
    ASSUME CInv
    PROVE  /\ Admin \subseteq Callers /\ Admin \subseteq Arbitrary
           /\ program.calls \subseteq Callers
BY ControllerAssumption DEF CInv, ControllerPart, ControllerTypes, Callers

LEMMA RequestMetadataKeeps ==
    ASSUME CInv, NEW c \in Admin, RequestMetadata(c)
    PROVE  IInv'
<1>1. c \in Callers /\ c \in Arbitrary
  BY CallersOfProgram
<1>2. IInv
  BY DEF CInv
<1>3. /\ pc' = [pc EXCEPT ![c] = "get"]
      /\ UNCHANGED <<addr, before, topology, conns, cached, order, using, target>>
  BY Zenon DEF RequestMetadata, Goto, cluster_vars
<1>4. Generations'
  BY <1>1, <1>2, <1>3 DEF IInv, Generations, Active
<1> QED BY <1>1, <1>2, <1>3, <1>4, Untouched, Zenon DEF IInv, Generations, Callers

LEMMA ConnectControllerKeeps ==
    ASSUME CInv, NEW c \in Admin, ConnectController(c)
    PROVE  IInv'
<1>1. IInv
  BY DEF CInv
<1>2. UNCHANGED <<addr, before, topology, cached, order, using, target, pc>>
  BY Zenon DEF ConnectController, cluster_vars, call_vars
<1>3. conns' \in Seq([addr : Addrs, ok : BOOLEAN])
  <2>1. CASE UNCHANGED conns
    BY <1>1, <2>1, Known, Zenon
  <2>2. CASE /\ Reachable(topology[id[c]])
             /\ topology[id[c]] # NoAddr
             /\ id[c] # NoBroker
             /\ conns' = Append(conns, [addr |-> topology[id[c]], ok |-> TRUE])
    <3>1. topology[id[c]] \in Addrs
      BY <1>1, <2>2, Known, ConnectorAssumption DEF Reachable
    <3>2. [addr |-> topology[id[c]], ok |-> TRUE] \in [addr : Addrs, ok : BOOLEAN]
      BY <3>1
    <3>3. conns \in Seq([addr : Addrs, ok : BOOLEAN])
      BY <1>1, Known, Zenon
    <3> QED BY <2>2, <3>2, <3>3
  <2> QED BY <2>1, <2>2, Zenon DEF ConnectController
<1>4. Generations'
  BY <1>1, <1>2, <1>3 DEF IInv, Generations
<1> QED BY <1>1, <1>2, <1>4, Untouched, Zenon

\* A step of the composition is one of the connector, for the connector's variables, or
\* one of these three.
LEMMA ConnectorSteps ==
    ASSUME CInv, [ControllerNext]_all_vars
    PROVE  \/ [Next]_vars
           \/ \E c \in Admin : RequestMetadata(c) \/ ConnectController(c) \/ AnswerAdmin(c)
<1>1. CASE UNCHANGED all_vars
  BY <1>1 DEF all_vars
<1>2. CASE \E c \in Admin \cap program.calls :
               StartAdmin(c) \/ AdminStep(c) \/ CancelAdmin(c)
  <2>1. PICK c \in Admin : c \in Callers /\ (StartAdmin(c) \/ AdminStep(c) \/ CancelAdmin(c))
    BY <1>2, CallersOfProgram
  <2>2. CASE StartAdmin(c)
    BY <2>2 DEF StartAdmin
  <2>3. CASE CancelAdmin(c)
    BY <2>1, <2>3, Zenon DEF CancelAdmin, Next
  <2>4. CASE AdminStep(c)
    <3>1. CASE MetadataLock(c) \/ MetadataStep(c) \/ MetadataForget(c) \/ GetControllerId(c)
      BY <2>1, <3>1 DEF MetadataLock, MetadataStep, MetadataForget, GetControllerId,
                        Next, CallStep
    <3>2. CASE Refreshed(c)
      BY <2>1, <3>2, Zenon DEF Refreshed, Next, CallStep
    <3>3. CASE GetController(c) \/ ReceiveAdmin(c)
      BY <3>3 DEF GetController, ReceiveAdmin
    <3>4. CASE LookupFails(c) \/ BrokenAdmin(c) \/ InvalidateController(c)
      BY <3>4, Zenon DEF LookupFails, BrokenAdmin, InvalidateController
    <3> QED BY <2>4, <3>1, <3>2, <3>3, <3>4 DEF AdminStep
  <2> QED BY <2>1, <2>2, <2>3, <2>4
<1>3. CASE \E c \in program.calls \ Admin : PlainStep(c) \/ Start(c) \/ Cancel(c)
  BY <1>3, CallersOfProgram DEF PlainStep, Next
<1>4. CASE \E b \in Brokers : Elect(b)
  BY <1>4 DEF Elect
<1>5. CASE \/ \E b \in Brokers, a \in Addrs : MoveBroker(b, a)
           \/ \E k \in DOMAIN conns : BreakConnection(k)
  BY <1>5, Zenon DEF Next
<1>6. CASE Ended
  BY <1>6, Zenon DEF Ended, all_vars
<1> QED BY <1>1, <1>2, <1>3, <1>4, <1>5, <1>6 DEF ControllerNext, ControllerSteps

\* Every step of the composition keeps the invariant of the connector.
LEMMA ConnectorKeeps ==
    ASSUME CInv, [ControllerNext]_all_vars
    PROVE  IInv'
<1>1. IInv
  BY DEF CInv
<1>2. CASE [Next]_vars
  BY <1>1, <1>2, NextKeeps
<1>3. CASE \E c \in Admin : RequestMetadata(c)
  BY <1>3, RequestMetadataKeeps, Zenon
<1>4. CASE \E c \in Admin : ConnectController(c)
  BY <1>4, ConnectControllerKeeps, Zenon
<1>5. CASE \E c \in Admin : AnswerAdmin(c)
  <2>1. UNCHANGED <<addr, before, topology, conns, cached, order, using, target, pc>>
    BY <1>5, Zenon DEF AnswerAdmin, cluster_vars, call_vars
  <2>2. Generations'
    BY <1>1, <2>1 DEF IInv, Generations
  <2> QED BY <1>1, <2>1, <2>2, Untouched
<1> QED BY <1>2, <1>3, <1>4, <1>5, ConnectorSteps

-----------------------------------------------------------------------------
(* The controller's invariant                                              *)

LEMMA NoReplyIsReply == NoReply \in Replies /\ NoReply.result # "ok"
BY Zenon DEF NoReply, Replies

\* Steps of a call that keep the cached connection, what is held and the answers.
LEMMA StageKeeps ==
    ASSUME ControllerPart, NEW c \in Admin, NEW label \in Stages,
           stage' = [stage EXCEPT ![c] = label],
           label \in {"send", "reply", "forget"} => stage[c] \in {"send", "reply", "forget"},
           label \in {"refresh", "done"} => c \in applied,
           UNCHANGED <<program, current, held, applied>>,
           reply' = reply \/ reply' = [reply EXCEPT ![c] = NoReply]
    PROVE  ControllerPart'
<1>1. ControllerTypes'
  BY NoReplyIsReply, Zenon DEF ControllerPart, ControllerTypes
<1>2. \A d \in Admin : reply'[d].result = "ok" => d \in applied'
  BY NoReplyIsReply, Zenon DEF ControllerPart, ControllerTypes
<1>3. SuccessIsApplied'
  BY Zenon DEF ControllerPart, ControllerTypes, SuccessIsApplied
<1>4. \A d \in Admin : stage'[d] \in {"send", "reply", "forget"} => HeldMatches(d)'
  BY DEF ControllerPart, ControllerTypes, HeldMatches
<1> QED BY <1>1, <1>2, <1>3, <1>4, Zenon DEF ControllerPart

\* Steps of a call that forget what it held.
LEMMA DropKeeps ==
    ASSUME ControllerPart, NEW c \in Admin, NEW label \in Stages,
           stage' = [stage EXCEPT ![c] = label],
           label \notin {"send", "reply", "forget"},
           label \in {"refresh", "done"} => c \in applied,
           UNCHANGED <<program, applied>>,
           held' = [held EXCEPT ![c] = NotHeld],
           current' = current \/ current' = [current EXCEPT !.conn = 0],
           reply' = reply \/ reply' = [reply EXCEPT ![c] = NoReply]
    PROVE  ControllerPart'
<1>0. /\ current' \in [conn : Nat, gen : Nat] /\ current'.gen = current.gen
      /\ current'.conn = current.conn \/ current'.conn = 0
  BY DEF ControllerPart, ControllerTypes
<1>1. ControllerTypes'
  BY <1>0, NoReplyIsReply DEF ControllerPart, ControllerTypes, NotHeld
<1>2. \A d \in Admin : reply'[d].result = "ok" => d \in applied'
  BY NoReplyIsReply DEF ControllerPart, ControllerTypes
<1>3. SuccessIsApplied'
  BY DEF ControllerPart, ControllerTypes, SuccessIsApplied
<1>4. ASSUME NEW d \in Admin, stage'[d] \in {"send", "reply", "forget"} PROVE HeldMatches(d)'
  <2>1. d # c /\ stage[d] = stage'[d] /\ held'[d] = held[d]
    BY <1>4 DEF ControllerPart, ControllerTypes
  <2> QED BY <1>0, <1>4, <2>1 DEF ControllerPart, HeldMatches
<1> QED BY <1>1, <1>2, <1>3, <1>4 DEF ControllerPart

LEMMA GetControllerKeeps ==
    ASSUME ControllerPart, NEW c \in Admin, GetController(c)
    PROVE  ControllerPart'
<1>1. CASE current.conn = 0
  <2>1. stage' = [stage EXCEPT ![c] = "lookup"] /\ UNCHANGED <<program, current, held, applied, reply>>
    BY <1>1, Zenon DEF GetController, To, kafka_vars
  <2> QED BY <2>1, StageKeeps, Zenon DEF Stages, Busy
<1>2. CASE current.conn # 0
  <2>1. /\ stage' = [stage EXCEPT ![c] = "send"] /\ held' = [held EXCEPT ![c] = current]
        /\ UNCHANGED <<program, current, applied, reply>>
    BY <1>2, Zenon DEF GetController, To, kafka_vars
  <2>2. ControllerTypes'
    BY <2>1, Zenon DEF ControllerPart, ControllerTypes, Stages, Busy
  <2>3. SuccessIsApplied'
    BY <2>1 DEF ControllerPart, ControllerTypes, SuccessIsApplied
  <2>4. ASSUME NEW d \in Admin, stage'[d] \in {"send", "reply", "forget"} PROVE HeldMatches(d)'
    <3>1. CASE d = c
      BY <1>2, <2>1, <3>1 DEF ControllerPart, ControllerTypes, HeldMatches
    <3>2. CASE d # c
      BY <2>1, <2>4, <3>2, SMTT(30) DEF ControllerPart, ControllerTypes, HeldMatches
    <3> QED BY <3>1, <3>2, Zenon
  <2> QED BY <2>1, <2>2, <2>3, <2>4, Zenon DEF ControllerPart
<1> QED BY <1>1, <1>2

LEMMA ConnectControllerKeepsPart ==
    ASSUME IInv, ControllerPart, NEW c \in Admin, ConnectController(c)
    PROVE  ControllerPart'
<1>1. CASE /\ stage' = [stage EXCEPT ![c] = "failed"] \/ stage' = [stage EXCEPT ![c] = "get"]
           /\ UNCHANGED <<current, held>>
  <2>1. PICK label \in {"failed", "get"} : stage' = [stage EXCEPT ![c] = label]
    BY <1>1
  <2>2. UNCHANGED <<program, current, held, applied, reply>>
    BY <1>1, Zenon DEF ConnectController, kafka_vars
  <2> QED BY <2>1, <2>2, StageKeeps, Zenon DEF Stages, Busy
<1>2. CASE /\ current' = InstallController
           /\ held' = [held EXCEPT ![c] = InstallController]
           /\ stage' = [stage EXCEPT ![c] = "send"]
  <2>0. UNCHANGED <<program, applied, reply>>
    BY Zenon DEF ConnectController, kafka_vars
  <2>1. Len(conns) \in Nat /\ current.gen \in Nat
    <3>1. Len(conns) \in Nat
      BY Known, Zenon
    <3> QED BY <3>1, SMTT(30) DEF ControllerPart, ControllerTypes
  <2>2. /\ InstallController \in [conn : Nat, gen : Nat]
        /\ InstallController.conn # 0 /\ InstallController.gen = current.gen + 1
    BY <2>1 DEF InstallController
  <2>3. ControllerTypes'
    BY <1>2, <2>0, <2>2, Zenon DEF ControllerPart, ControllerTypes, Stages, Busy
  <2>4. SuccessIsApplied'
    BY <1>2, <2>0 DEF ControllerPart, ControllerTypes, SuccessIsApplied
  <2>5. ASSUME NEW d \in Admin, stage'[d] \in {"send", "reply", "forget"} PROVE HeldMatches(d)'
    <3>1. CASE d = c
      BY <1>2, <2>2, <3>1 DEF ControllerPart, ControllerTypes, HeldMatches
    <3>2. CASE d # c
      <4>1. held'[d] = held[d] /\ held[d].gen \in Nat /\ stage'[d] = stage[d]
        BY <1>2, <3>2, Zenon DEF ControllerPart, ControllerTypes
      <4>2. held[d].conn # 0 /\ held[d].gen <= current.gen
        BY <2>5, <4>1, Zenon DEF ControllerPart, HeldMatches
      <4> QED BY <1>2, <2>1, <2>2, <4>1, <4>2 DEF HeldMatches
    <3> QED BY <3>1, <3>2, Zenon
  <2> QED BY <2>0, <2>3, <2>4, <2>5, Zenon DEF ControllerPart
<1> QED BY <1>1, <1>2 DEF ConnectController, To

LEMMA AnswerAdminKeeps ==
    ASSUME ControllerPart, NEW c \in Admin, AnswerAdmin(c)
    PROVE  ControllerPart'
<1>1. /\ stage[c] = "send" /\ stage' = [stage EXCEPT ![c] = "reply"]
      /\ UNCHANGED <<program, current, held>>
  BY DEF AnswerAdmin, To, cache_vars
<1>2. PICK result \in {"ok", "again", "not_controller", "error"}, throttled \in BOOLEAN :
        /\ reply' = [reply EXCEPT ![c] = [result |-> result, throttled |-> throttled]]
        /\ result = "ok" => c \in applied'
        /\ applied \subseteq applied'
  BY Zenon DEF AnswerAdmin
<1>3. ControllerTypes'
  <2>1. [result |-> result, throttled |-> throttled] \in Replies
    BY Zenon DEF Replies
  <2> QED BY <1>1, <1>2, <2>1, Zenon DEF ControllerPart, ControllerTypes, Stages, Busy
<1>4. \A d \in Admin : reply'[d].result = "ok" => d \in applied'
  BY <1>2, Zenon DEF ControllerPart, ControllerTypes
<1>5. SuccessIsApplied'
  BY <1>1, <1>2, Zenon DEF ControllerPart, ControllerTypes, SuccessIsApplied
<1>6. \A d \in Admin : stage'[d] \in {"send", "reply", "forget"} => HeldMatches(d)'
  BY <1>1 DEF ControllerPart, ControllerTypes, HeldMatches
<1> QED BY <1>3, <1>4, <1>5, <1>6, SMTT(30) DEF ControllerPart

LEMMA ReceiveAdminKeeps ==
    ASSUME ControllerPart, NEW c \in Admin, ReceiveAdmin(c)
    PROVE  ControllerPart'
<1>1. /\ stage[c] = "reply" /\ stage' = [stage EXCEPT ![c] = AfterReply(reply[c])]
      /\ reply' = [reply EXCEPT ![c] = NoReply]
      /\ UNCHANGED <<program, current, applied>>
      /\ held' = IF AfterReply(reply[c]) = "forget" THEN held
                                                    ELSE [held EXCEPT ![c] = NotHeld]
  BY Zenon DEF ReceiveAdmin, To, cache_vars, kafka_vars
<1>2. /\ AfterReply(reply[c]) \in {"get", "refresh", "forget", "failed"}
      /\ AfterReply(reply[c]) = "refresh" => reply[c].result = "ok"
  BY Zenon DEF AfterReply
<1>3. AfterReply(reply[c]) \in Stages
  BY <1>2, Zenon DEF Stages, Busy
<1>4. AfterReply(reply[c]) \in {"refresh", "done"} => c \in applied
  BY <1>2 DEF ControllerPart
<1>5. CASE AfterReply(reply[c]) = "forget"
  BY <1>1, <1>3, <1>4, <1>5, StageKeeps, Zenon
<1>6. CASE AfterReply(reply[c]) # "forget"
  BY <1>1, <1>2, <1>3, <1>4, <1>6, DropKeeps, Zenon
<1> QED BY <1>5, <1>6, Zenon

\* Steps that are none of an administrative call keep what is about those.
LEMMA OthersKeep ==
    ASSUME ControllerPart, UNCHANGED <<program, current, held, stage, reply, applied>>
    PROVE  ControllerPart'
BY Zenon DEF ControllerPart, ControllerTypes, HeldMatches, SuccessIsApplied

\* Every step of an administrative call keeps what is about those.
LEMMA AdminKeeps ==
    ASSUME CInv, NEW c \in Admin, StartAdmin(c) \/ AdminStep(c) \/ CancelAdmin(c)
    PROVE  ControllerPart'
<1> USE DEF Stages, Busy, To, kafka_vars, cache_vars, admin_vars, controller_vars
<1>0. IInv /\ ControllerPart
  BY DEF CInv
<1>1. CASE StartAdmin(c)
  <2>1. stage' = [stage EXCEPT ![c] = "get"] /\ UNCHANGED <<program, current, held, applied, reply>>
    BY <1>1 DEF StartAdmin
  <2> QED BY <1>0, <2>1, StageKeeps, Zenon
<1>2. CASE CancelAdmin(c)
  <2>1. /\ stage' = [stage EXCEPT ![c] = "cancelled"] /\ held' = [held EXCEPT ![c] = NotHeld]
        /\ reply' = [reply EXCEPT ![c] = NoReply] /\ UNCHANGED <<program, current, applied>>
    BY <1>2 DEF CancelAdmin
  <2> QED BY <1>0, <2>1, DropKeeps, Zenon
<1>3. CASE MetadataLock(c) \/ MetadataStep(c) \/ MetadataForget(c)
  <2>1. UNCHANGED <<program, current, held, stage, reply, applied>>
    BY <1>3 DEF MetadataLock, MetadataStep, MetadataForget
  <2> QED BY <1>0, <2>1, OthersKeep, Zenon
<1>4. CASE GetControllerId(c)
  <2>1. stage' = [stage EXCEPT ![c] = "connect"] /\ UNCHANGED <<program, current, held, applied, reply>>
    BY <1>4, Zenon DEF GetControllerId
  <2> QED BY <1>0, <2>1, StageKeeps, Zenon
<1>5. CASE LookupFails(c)
  <2>1. stage' = [stage EXCEPT ![c] = "get"] /\ UNCHANGED <<program, current, held, applied, reply>>
    BY <1>5 DEF LookupFails
  <2> QED BY <1>0, <2>1, StageKeeps, Zenon
<1>6. CASE BrokenAdmin(c)
  <2>1. /\ stage[c] \in {"send", "reply"} /\ stage' = [stage EXCEPT ![c] = "forget"]
        /\ reply' = [reply EXCEPT ![c] = NoReply] /\ UNCHANGED <<program, current, held, applied>>
    BY <1>6 DEF BrokenAdmin
  <2> QED BY <1>0, <2>1, StageKeeps, Zenon
<1>7. CASE InvalidateController(c)
  <2>1. /\ stage' = [stage EXCEPT ![c] = "get"] /\ held' = [held EXCEPT ![c] = NotHeld]
        /\ current' = current \/ current' = [current EXCEPT !.conn = 0]
        /\ UNCHANGED <<program, applied, reply>>
    BY <1>7 DEF InvalidateController
  <2> QED BY <1>0, <2>1, DropKeeps, Zenon
<1>8. CASE Refreshed(c)
  <2>1. /\ stage[c] = "refresh" /\ stage' = [stage EXCEPT ![c] = "done"]
        /\ UNCHANGED <<program, current, held, applied, reply>>
    BY <1>8, Zenon DEF Refreshed
  <2>2. c \in applied
    BY <1>0, <2>1, Zenon DEF ControllerPart, SuccessIsApplied
  <2> QED BY <1>0, <2>1, <2>2, StageKeeps, Zenon
<1> QED
  BY <1>0, <1>1, <1>2, <1>3, <1>4, <1>5, <1>6, <1>7, <1>8, GetControllerKeeps,
     ConnectControllerKeepsPart, AnswerAdminKeeps, ReceiveAdminKeeps, Zenon
  DEF AdminStep

\* The invariant is inductive.
THEOREM ControllerInvariance == ControllerSpec => []CInv
<1>1. ControllerInit => CInv
  <2> SUFFICES ASSUME ControllerInit PROVE CInv
    OBVIOUS
  <2>1. IInv
    BY InitHolds, Zenon DEF ControllerInit
  <2>2. ControllerTypes
    BY NoReplyIsReply, Zenon DEF ControllerInit, ControllerTypes, NotHeld, Stages
  <2>3. /\ \A c \in Admin : stage[c] = "idle"
        /\ \A c \in Admin : reply[c].result # "ok"
    BY NoReplyIsReply DEF ControllerInit
  <2> QED BY <2>1, <2>2, <2>3, Zenon DEF CInv, ControllerPart, SuccessIsApplied
<1>2. CInv /\ [ControllerNext]_all_vars => CInv'
  <2> SUFFICES ASSUME CInv, [ControllerNext]_all_vars PROVE CInv'
    OBVIOUS
  <2>1. IInv'
    BY ConnectorKeeps
  <2>2. ControllerPart'
    <3>1. CASE \E c \in Admin \cap program.calls :
                   StartAdmin(c) \/ AdminStep(c) \/ CancelAdmin(c)
      BY <3>1, AdminKeeps
    <3>2. CASE UNCHANGED <<program, current, held, stage, reply, applied>>
      BY <3>2, OthersKeep, Zenon DEF CInv
    <3> QED
      BY <3>1, <3>2, Zenon
      DEF ControllerNext, ControllerSteps, PlainStep, Elect, Ended, all_vars,
          controller_vars, kafka_vars, cache_vars, admin_vars
  <2> QED BY <2>1, <2>2 DEF CInv
<1> QED BY <1>1, <1>2, PTL DEF ControllerSpec

\* create_topic and delete_topic only succeed after the controller carried them out.
THEOREM SuccessesAreApplied == ControllerSpec => []SuccessIsApplied
<1>1. CInv => SuccessIsApplied
  BY DEF CInv, ControllerPart
<1> QED BY <1>1, ControllerInvariance, PTL

\* ControllerClient::invalidate only discards a connection the reporting call has used.
THEOREM OnlyFailedControllerForgotten == ControllerSpec => ForgetsOnlyFailedController
<1>1. CInv /\ [ControllerNext]_all_vars =>
        [current.conn # 0 /\ current'.conn = 0 =>
           \E c \in Admin : stage[c] = "forget" /\ held[c].conn = current.conn]_all_vars
  <2> SUFFICES ASSUME CInv, [ControllerNext]_all_vars, current.conn # 0, current'.conn = 0
               PROVE  \E c \in Admin : stage[c] = "forget" /\ held[c].conn = current.conn
    BY Zenon
  <2> USE DEF kafka_vars, cache_vars, admin_vars, controller_vars
  <2>1. \A c \in Admin : ~ConnectController(c)
    <3> SUFFICES ASSUME NEW c \in Admin, ConnectController(c) PROVE FALSE
      BY Zenon
    <3>1. current' = InstallController
      BY Zenon DEF ConnectController
    <3>2. Len(conns) \in Nat
      BY DEF CInv, IInv, Generations
    <3> QED BY <3>1, <3>2 DEF InstallController
  <2>2. PICK c \in Admin : StartAdmin(c) \/ AdminStep(c) \/ CancelAdmin(c)
    BY Zenon DEF ControllerNext, ControllerSteps, PlainStep, Elect, Ended, all_vars
  <2>3. InvalidateController(c)
    BY <2>1, <2>2, Zenon
    DEF StartAdmin, CancelAdmin, AdminStep, GetController, MetadataLock, MetadataStep,
        MetadataForget, GetControllerId, LookupFails, AnswerAdmin, ReceiveAdmin,
        BrokenAdmin, Refreshed
  <2>4. stage[c] = "forget" /\ ForgetsController(c)
    BY <2>3 DEF InvalidateController
  <2>5. HeldMatches(c) /\ held[c].gen = current.gen
    BY <2>4, Zenon DEF CInv, ControllerPart, ForgetsController
  <2> QED BY <2>4, <2>5, Zenon DEF HeldMatches
<1> QED BY <1>1, ControllerInvariance, PTL DEF ControllerSpec, ForgetsOnlyFailedController

\* Under administrative calls, too, BrokerConnector::invalidate only discards a
\* connection the reporting call has used.
THEOREM OnlyFailedForgottenByAdmin == ControllerSpec => ForgetsOnlyFailedConnection
<1>1. CInv /\ [ControllerNext]_all_vars =>
        [cached.conn # 0 /\ cached'.conn = 0 =>
           \E c \in Arbitrary : pc[c] = "invalidate" /\ using[c].conn = cached.conn]_vars
  <2> SUFFICES ASSUME CInv, [ControllerNext]_all_vars, cached.conn # 0, cached'.conn = 0
               PROVE  \E c \in Arbitrary : pc[c] = "invalidate" /\ using[c].conn = cached.conn
    OBVIOUS
  <2>1. [Next]_vars
    BY ConnectorSteps, Zenon DEF RequestMetadata, ConnectController, AnswerAdmin
  <2> QED BY <2>1, ForgetStep, Zenon DEF CInv
<1> QED BY <1>1, ControllerInvariance, PTL DEF ControllerSpec, ForgetsOnlyFailedConnection
=============================================================================
