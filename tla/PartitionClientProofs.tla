------------------------ MODULE PartitionClientProofs ------------------------
(***************************************************************************)
(* The cached leader connection and what produce calls promise: proofs     *)
(* about PartitionClient for any sets of brokers and calls, any number of  *)
(* leadership changes and any amount of trouble.                           *)
(***************************************************************************)
EXTENDS PartitionClient, SequenceTheorems, TLAPS

Conn  == [broker : Brokers, ok : BOOLEAN]
Usage == [conn : Nat, gen : Int]

ClientTypes ==
    /\ faults \in Nat /\ appended \in [Callers -> Nat]
    /\ topology \subseteq Brokers /\ conns \in Seq(Conn)
    /\ current.conn \in Nat /\ current.gen \in Nat
    /\ using \in [Callers -> Usage]
    /\ DOMAIN pc = Callers /\ DOMAIN result = Callers

\* A call that uses a connection of the current generation uses the cached one.
UsesKnown(c) ==
    /\ using[c].conn # 0 /\ using[c].gen <= current.gen
    /\ using[c].gen = current.gen /\ current.conn # 0 => using[c].conn = current.conn

\* What a produce call has added to the log: each time but the last one was a fault.
Appends(c) ==
    /\ appended[c] <= 1 + faults
    /\ pc[c] # "done" => appended[c] <= faults
    /\ result[c] = "ok" => appended[c] > 0

\* current is a record of these fields.
HasFields == DOMAIN current = {"conn", "gen", "gen_arbitrary", "gen_self"}

PInv ==
    /\ ClientTypes /\ HasFields
    /\ \A c \in Callers : pc[c] = "verify" => using[c].conn # 0
    /\ \A c \in Callers : pc[c] \in {"request", "invalidate"} => UsesKnown(c)
    /\ \A c \in Callers \ {Creator} : Appends(c)

-----------------------------------------------------------------------------

LEMMA FunctionIsSeq ==
    ASSUME NEW S, NEW n \in Nat, NEW f \in [1 .. n -> S]
    PROVE  f \in Seq(S)
BY SeqDef

LEMMA BreakKeepsType ==
    ASSUME conns \in Seq(Conn), NEW k \in 1 .. Len(conns)
    PROVE  [conns EXCEPT ![k].ok = FALSE] \in Seq(Conn)
<1>1. conns \in [1 .. Len(conns) -> Conn] /\ Len(conns) \in Nat
  BY LenProperties
<1>2. [conns[k] EXCEPT !.ok = FALSE] \in Conn
  BY <1>1, Zenon DEF Conn
<1>3. [conns EXCEPT ![k].ok = FALSE] \in [1 .. Len(conns) -> Conn]
  BY <1>1, <1>2
<1> QED BY <1>1, <1>3, FunctionIsSeq

LEMMA DropKeepsType ==
    ASSUME conns \in Seq(Conn)
    PROVE  SubSeq(conns, 1, Len(conns) - 1) \in Seq(Conn)
<1>1. Len(conns) \in Nat /\ conns \in [1 .. Len(conns) -> Conn]
  BY LenProperties
<1>2. CASE Len(conns) = 0
  BY <1>1, <1>2
<1>3. CASE Len(conns) # 0
  BY <1>1, <1>3, SubSeqProperties
<1> QED BY <1>2, <1>3

\* A step of one call that does not touch the cached connection.
LEMMA CallKeeps ==
    ASSUME PInv, ClientTypes', NEW c \in Callers,
           UNCHANGED current,
           \A d \in Callers : d # c => /\ pc'[d] = pc[d] /\ using'[d] = using[d]
                                       /\ result'[d] = result[d] /\ appended'[d] = appended[d],
           pc'[c] = "verify" => using'[c].conn # 0,
           pc'[c] \in {"request", "invalidate"} => UsesKnown(c)',
           c # Creator => Appends(c)',
           faults <= faults'
    PROVE  PInv'
<1>1. \A d \in Callers : pc'[d] = "verify" => using'[d].conn # 0
  BY DEF PInv
<1>2. ASSUME NEW d \in Callers, pc'[d] \in {"request", "invalidate"} PROVE UsesKnown(d)'
  BY <1>2 DEF PInv, UsesKnown
<1>3. ASSUME NEW d \in Callers \ {Creator} PROVE Appends(d)'
  <2>1. CASE d = c
    BY <1>3, <2>1
  <2>2. CASE d # c
    <3>1. Appends(d) /\ faults \in Nat /\ faults' \in Nat /\ appended[d] \in Nat
      BY <1>3 DEF PInv, ClientTypes
    <3> QED BY <1>3, <2>2, <3>1 DEF Appends
  <2> QED BY <2>1, <2>2
<1> QED BY <1>1, <1>2, <1>3 DEF PInv, HasFields

\* A step of no call.
LEMMA OutsideKeeps ==
    ASSUME PInv, ClientTypes', UNCHANGED <<pc, using, result, appended, current>>,
           faults <= faults'
    PROVE  PInv'
<1>1. \A c \in Callers : pc'[c] = "verify" => using'[c].conn # 0
  BY DEF PInv
<1>2. ASSUME NEW d \in Callers, pc'[d] \in {"request", "invalidate"} PROVE UsesKnown(d)'
  BY <1>2 DEF PInv, UsesKnown
<1>3. ASSUME NEW d \in Callers \ {Creator} PROVE Appends(d)'
  <2>1. Appends(d) /\ faults \in Nat /\ faults' \in Nat /\ appended[d] \in Nat
    BY <1>3 DEF PInv, ClientTypes
  <2> QED BY <1>3, <2>1 DEF Appends
<1> QED BY <1>1, <1>2, <1>3 DEF PInv, HasFields

\* A step of one call that leaves the log and the cached connection alone.
LEMMA MoveKeeps ==
    ASSUME PInv, ClientTypes', NEW c \in Callers, pc[c] # "done",
           \A d \in Callers : d # c => /\ pc'[d] = pc[d] /\ using'[d] = using[d]
                                       /\ result'[d] = result[d],
           c = Creator \/ result'[c] # "ok" \/ result'[c] = result[c],
           UNCHANGED <<appended, current>>,
           pc'[c] = "verify" => using'[c].conn # 0,
           pc'[c] \in {"request", "invalidate"} => UsesKnown(c)',
           faults <= faults'
    PROVE  PInv'
<1>1. appended[c] \in Nat /\ faults \in Nat /\ faults' \in Nat
  BY DEF PInv, ClientTypes
<1>2. ASSUME c # Creator PROVE Appends(c)'
  <2>1. appended[c] <= faults /\ (result[c] = "ok" => appended[c] > 0)
    BY <1>2 DEF PInv, Appends
  <2>2. result'[c] = "ok" => result[c] = "ok"
    BY <1>2
  <2> QED BY <1>1, <2>1, <2>2 DEF Appends
<1> QED BY <1>2, CallKeeps

\* What Goto and End leave of the labels and the results.
LEMMA Moves ==
    ASSUME PInv, NEW c \in Callers, NEW label, NEW r,
           Goto(c, label) \/ (label = "done" /\ End(c, r))
    PROVE  /\ DOMAIN pc' = Callers /\ DOMAIN result' = Callers
           /\ pc'[c] = label /\ (result'[c] = result[c] \/ result'[c] = r)
           /\ \A d \in Callers : d # c => pc'[d] = pc[d] /\ result'[d] = result[d]
BY DEF PInv, ClientTypes, Goto, End

\* What an attempt that is over leaves of the connections in use.
LEMMA DropAttemptKeeps ==
    ASSUME PInv, NEW c \in Callers, DropAttempt(c)
    PROVE  /\ using' \in [Callers -> Usage]
           /\ \A d \in Callers : d # c => using'[d] = using[d]
<1>1. NotUsed \in Usage
  BY DEF NotUsed, NoGen, Usage
<1>2. using \in [Callers -> Usage] /\ using' = [using EXCEPT ![c] = NotUsed]
  BY DEF PInv, ClientTypes, DropAttempt
<1> QED BY <1>1, <1>2, Zenon

\* get() returns the connection k: nobody but the call itself is concerned.
LEMMA ProceedKeeps ==
    ASSUME PInv, NEW c \in Callers, NEW k \in Nat, NEW gen \in Nat, Proceed(c, k, gen)
    PROVE  /\ DOMAIN pc' = Callers /\ DOMAIN result' = Callers
           /\ using' \in [Callers -> Usage]
           /\ \/ c = Creator /\ pc'[c] = "done"
              \/ /\ pc'[c] = "request" /\ result'[c] = result[c]
                 /\ using'[c].conn = k /\ using'[c].gen = gen
           /\ \A d \in Callers : d # c => /\ pc'[d] = pc[d] /\ result'[d] = result[d]
                                         /\ using'[d] = using[d]
<1>1. CASE c = Creator /\ Return(c, "ok")
  <2>1. /\ using' \in [Callers -> Usage]
        /\ \A d \in Callers : d # c => using'[d] = using[d]
    BY <1>1, DropAttemptKeeps DEF Return
  <2>2. /\ DOMAIN pc' = Callers /\ DOMAIN result' = Callers /\ pc'[c] = "done"
        /\ \A d \in Callers : d # c => pc'[d] = pc[d] /\ result'[d] = result[d]
    BY <1>1, Zenon DEF PInv, ClientTypes, Return, End
  <2> QED BY <1>1, <2>1, <2>2, Zenon
<1>2. CASE /\ c # Creator /\ Goto(c, "request")
           /\ using' = [using EXCEPT ![c] = [conn |-> k, gen |-> gen]]
  <2>1. [conn |-> k, gen |-> gen] \in Usage
    BY DEF Usage
  <2>2. /\ using' \in [Callers -> Usage] /\ using'[c] = [conn |-> k, gen |-> gen]
        /\ \A d \in Callers : d # c => using'[d] = using[d]
    BY <1>2, <2>1, Zenon DEF PInv, ClientTypes
  <2>3. /\ DOMAIN pc' = Callers /\ DOMAIN result' = Callers /\ pc'[c] = "request"
        /\ result' = result /\ \A d \in Callers : d # c => pc'[d] = pc[d]
    BY <1>2, Zenon DEF PInv, ClientTypes, Goto
  <2>4. using'[c].conn = k /\ using'[c].gen = gen
    BY <2>2
  <2> QED BY <2>2, <2>3, <2>4, Zenon
<1> QED BY <1>1, <1>2 DEF Proceed

LEMMA GetLockKeeps ==
    ASSUME PInv, NEW c \in Callers, GetLock(c)
    PROVE  PInv'
<1>1. /\ pc[c] = "get"
      /\ UNCHANGED <<faults, appended, conns, topology, current>>
  BY DEF GetLock
<1>2. faults \in Nat /\ faults <= faults'
  BY <1>1 DEF PInv, ClientTypes
<1>3. CASE current.conn # 0
  <2>1. current.conn \in Nat /\ current.gen \in Nat
    BY DEF PInv, ClientTypes
  <2>2. Proceed(c, current.conn, current.gen)
    BY <1>3 DEF GetLock
  <2>3. /\ DOMAIN pc' = Callers /\ DOMAIN result' = Callers
        /\ using' \in [Callers -> Usage]
        /\ \/ c = Creator /\ pc'[c] = "done"
           \/ /\ pc'[c] = "request" /\ result'[c] = result[c]
              /\ using'[c].conn = current.conn /\ using'[c].gen = current.gen
        /\ \A d \in Callers : d # c => /\ pc'[d] = pc[d] /\ result'[d] = result[d]
                                      /\ using'[d] = using[d]
    BY <2>1, <2>2, ProceedKeeps, Zenon
  <2>4. ClientTypes'
    BY <1>1, <2>3, Zenon DEF PInv, ClientTypes
  <2>5. pc'[c] # "done" => UsesKnown(c)'
    BY <1>1, <1>3, <2>1, <2>3 DEF UsesKnown
  <2> QED BY <1>1, <1>2, <2>3, <2>4, <2>5, MoveKeeps
<1>4. CASE current.conn = 0
  <2>1. UNCHANGED using /\ Goto(c, "lookup")
    BY <1>4 DEF GetLock
  <2>2. /\ DOMAIN pc' = Callers /\ pc'[c] = "lookup" /\ result' = result
        /\ \A d \in Callers : d # c => pc'[d] = pc[d]
    BY <2>1 DEF Goto, PInv, ClientTypes
  <2>3. ClientTypes'
    BY <1>1, <2>1, <2>2 DEF PInv, ClientTypes
  <2> QED BY <1>1, <1>2, <2>1, <2>2, <2>3, MoveKeeps, Zenon
<1> QED BY <1>3, <1>4

\* The steps that neither open a connection nor use one.
LEMMA SearchKeeps ==
    ASSUME PInv, NEW c \in Callers,
           Start(c) \/ Lookup(c) \/ DiscardAbsent(c) \/ AskArbitrary(c)
    PROVE  PInv'
<1> USE DEF cluster_vars, client_vars, call_vars, refresh_vars
<1>1. /\ pc[c] \in {"idle", "lookup", "absent", "ask"}
      /\ UNCHANGED <<appended, conns, current>>
  BY DEF Start, Lookup, DiscardAbsent, AskArbitrary
<1>2. faults \in Nat /\ (faults' = faults \/ faults' = faults + 1)
  BY DEF Start, Lookup, DiscardAbsent, AskArbitrary, Fault, PInv, ClientTypes
<1>3. topology' \subseteq Brokers
  BY DEF Start, Lookup, DiscardAbsent, AskArbitrary, PInv, ClientTypes
<1>4. /\ \E label \in {"get", "connect", "absent", "ask"} : Goto(c, label) \/ End(c, "fatal")
      /\ UNCHANGED using \/ DropAttempt(c)
  BY DEF Start, Lookup, DiscardAbsent, AskArbitrary, TakeLeader, Retry, Return
<1>5. /\ DOMAIN pc' = Callers /\ DOMAIN result' = Callers
      /\ pc'[c] \in {"get", "connect", "absent", "ask", "done"}
      /\ result'[c] # "ok" \/ result'[c] = result[c]
      /\ \A d \in Callers : d # c => pc'[d] = pc[d] /\ result'[d] = result[d]
  BY <1>4, Zenon DEF PInv, ClientTypes, Goto, End
<1>6. /\ using' \in [Callers -> Usage]
      /\ \A d \in Callers : d # c => using'[d] = using[d]
  BY <1>4, DropAttemptKeeps, Zenon DEF PInv, ClientTypes
<1>7. ClientTypes'
  BY <1>1, <1>2, <1>3, <1>5, <1>6 DEF PInv, ClientTypes
<1>8. pc[c] # "done" /\ faults <= faults'
  BY <1>1, <1>2
<1> QED BY <1>1, <1>5, <1>6, <1>7, <1>8, MoveKeeps

LEMMA UseKeepsType ==
    ASSUME using \in [Callers -> Usage], NEW c \in Callers, NEW n \in Nat,
           using' = [using EXCEPT ![c].conn = n]
    PROVE  /\ using' \in [Callers -> Usage] /\ using'[c].conn = n
           /\ \A d \in Callers : d # c => using'[d] = using[d]
<1>1. [using[c] EXCEPT !.conn = n] \in Usage /\ [using[c] EXCEPT !.conn = n].conn = n
  BY DEF Usage
<1> QED BY <1>1

LEMMA ConnectKeeps ==
    ASSUME PInv, NEW c \in Callers, Connect(c)
    PROVE  PInv'
<1>1. pc[c] = "connect" /\ UNCHANGED <<appended, topology, current>>
  BY DEF Connect
<1>2. Len(conns) \in Nat /\ faults \in Nat
  BY DEF PInv, ClientTypes
<1>3. faults' = faults \/ faults' = faults + 1
  BY Zenon DEF Connect, Fault
<1>4. CASE /\ found[c].leader \in topology
           /\ conns' = Append(conns, [broker |-> found[c].leader, ok |-> TRUE])
           /\ using' = [using EXCEPT ![c].conn = Len(conns) + 1]
           /\ Goto(c, "verify")
           /\ UNCHANGED faults
  <2>1. [broker |-> found[c].leader, ok |-> TRUE] \in Conn
    BY <1>4 DEF PInv, ClientTypes, Conn
  <2>2. conns' \in Seq(Conn)
    BY <1>4, <2>1 DEF PInv, ClientTypes
  <2>3. /\ using' \in [Callers -> Usage] /\ using'[c].conn # 0
        /\ \A d \in Callers : d # c => using'[d] = using[d]
    <3>1. Len(conns) + 1 \in Nat /\ Len(conns) + 1 # 0
      BY <1>2
    <3>2. using \in [Callers -> Usage]
      BY DEF PInv, ClientTypes
    <3>3. /\ using' \in [Callers -> Usage] /\ using'[c].conn = Len(conns) + 1
          /\ \A d \in Callers : d # c => using'[d] = using[d]
      BY <1>4, <3>1, <3>2, UseKeepsType, Zenon
    <3> QED BY <3>1, <3>3
  <2>4. /\ DOMAIN pc' = Callers /\ pc'[c] = "verify" /\ result' = result
        /\ \A d \in Callers : d # c => pc'[d] = pc[d]
    BY <1>4 DEF PInv, ClientTypes, Goto
  <2>5. ClientTypes'
    BY <1>1, <1>4, <2>2, <2>3, <2>4 DEF PInv, ClientTypes
  <2>6. pc[c] # "done" /\ faults <= faults' /\ pc'[c] \notin {"request", "invalidate"}
    BY <1>1, <1>2, <1>4, <2>4
  <2> QED BY <1>1, <2>3, <2>4, <2>5, <2>6, MoveKeeps
<1>5. CASE UNCHANGED conns /\ (Retry(c) \/ Return(c, "invalid_response"))
  <2>1. /\ DOMAIN pc' = Callers /\ DOMAIN result' = Callers
        /\ pc'[c] \in {"get", "done"}
        /\ result'[c] # "ok" \/ result'[c] = result[c]
        /\ \A d \in Callers : d # c => pc'[d] = pc[d] /\ result'[d] = result[d]
    BY <1>5 DEF PInv, ClientTypes, Retry, Return, Goto, End
  <2>2. /\ using' \in [Callers -> Usage]
        /\ \A d \in Callers : d # c => using'[d] = using[d]
    BY <1>5, DropAttemptKeeps, Zenon DEF Retry, Return
  <2>3. ClientTypes'
    BY <1>1, <1>2, <1>3, <1>5, <2>1, <2>2 DEF PInv, ClientTypes
  <2>4. pc[c] # "done" /\ faults <= faults'
    BY <1>1, <1>2, <1>3
  <2> QED BY <1>1, <2>1, <2>2, <2>3, <2>4, MoveKeeps
<1> QED BY <1>4, <1>5 DEF Connect

\* The broker agrees: the connection is cached under a generation of its own.
LEMMA InstallKeeps ==
    ASSUME PInv, NEW c \in Callers, NEW a, NEW b,
           pc[c] = "verify", Proceed(c, using[c].conn, current.gen + 1),
           current' = [conn |-> using[c].conn, gen |-> current.gen + 1,
                       gen_arbitrary |-> a, gen_self |-> b],
           topology' \subseteq Brokers, UNCHANGED <<faults, appended, conns>>
    PROVE  PInv'
<1>1. /\ using[c].conn \in Nat /\ using[c].conn # 0
      /\ current.gen \in Nat /\ current.gen + 1 \in Nat
  BY DEF PInv, ClientTypes, Usage
<1>2. current'.conn = using[c].conn /\ current'.gen = current.gen + 1
  OBVIOUS
<1>3. /\ DOMAIN pc' = Callers /\ DOMAIN result' = Callers
      /\ using' \in [Callers -> Usage]
      /\ \/ c = Creator /\ pc'[c] = "done"
         \/ /\ pc'[c] = "request" /\ result'[c] = result[c]
            /\ using'[c].conn = using[c].conn /\ using'[c].gen = current.gen + 1
      /\ \A d \in Callers : d # c => /\ pc'[d] = pc[d] /\ result'[d] = result[d]
                                    /\ using'[d] = using[d]
  BY <1>1, ProceedKeeps, Zenon
<1>4. ClientTypes'
  BY <1>1, <1>2, <1>3 DEF PInv, ClientTypes
<1>5. \A d \in Callers : pc'[d] = "verify" => using'[d].conn # 0
  BY <1>3 DEF PInv
<1>6. ASSUME NEW d \in Callers, pc'[d] \in {"request", "invalidate"} PROVE UsesKnown(d)'
  <2>1. CASE d = c
    BY <1>1, <1>2, <1>3, <1>6, <2>1 DEF UsesKnown
  <2>2. CASE d # c
    <3>1. UsesKnown(d) /\ using[d].gen \in Int
      BY <1>3, <1>6, <2>2 DEF PInv, ClientTypes, Usage
    <3> QED BY <1>1, <1>2, <1>3, <2>2, <3>1 DEF UsesKnown
  <2> QED BY <2>1, <2>2
<1>7. ASSUME NEW d \in Callers \ {Creator} PROVE Appends(d)'
  <2>1. Appends(d)
    BY <1>7 DEF PInv
  <2>2. result'[d] = result[d] /\ (pc'[d] # "done" => pc[d] # "done")
    BY <1>3, <1>7, Zenon
  <2> QED BY <2>1, <2>2 DEF Appends
<1> QED BY <1>4, <1>5, <1>6, <1>7 DEF PInv, HasFields

LEMMA VerifyKeeps ==
    ASSUME PInv, NEW c \in Callers, Verify(c)
    PROVE  PInv'
<1>1. pc[c] = "verify" /\ UNCHANGED appended
  BY DEF Verify
<1>2. CASE /\ current' = [conn |-> using[c].conn, gen |-> current.gen + 1,
                          gen_arbitrary |-> found[c].gen, gen_self |-> GenOfRequest]
           /\ Proceed(c, using[c].conn, current.gen + 1)
           /\ topology' = Brokers
           /\ UNCHANGED <<faults, conns>>
  BY <1>1, <1>2, InstallKeeps, Zenon
<1>3. CASE /\ DropUnused /\ (Retry(c) \/ Return(c, "fatal"))
           /\ topology' \in {topology, Brokers} /\ UNCHANGED current
           /\ faults' = faults \/ faults' = faults + 1
  <2>1. /\ DOMAIN pc' = Callers /\ DOMAIN result' = Callers
        /\ pc'[c] \in {"get", "done"}
        /\ result'[c] # "ok" \/ result'[c] = result[c]
        /\ \A d \in Callers : d # c => pc'[d] = pc[d] /\ result'[d] = result[d]
    BY <1>3 DEF PInv, ClientTypes, Retry, Return, Goto, End
  <2>2. /\ using' \in [Callers -> Usage]
        /\ \A d \in Callers : d # c => using'[d] = using[d]
    BY <1>3, DropAttemptKeeps, Zenon DEF Retry, Return
  <2>3. conns' \in Seq(Conn)
    BY <1>3, DropKeepsType DEF PInv, ClientTypes, DropUnused
  <2>4. faults \in Nat /\ faults <= faults' /\ faults' \in Nat
    BY <1>3 DEF PInv, ClientTypes
  <2>5. ClientTypes'
    BY <1>1, <1>3, <2>1, <2>2, <2>3, <2>4 DEF PInv, ClientTypes
  <2> QED BY <1>1, <1>3, <2>1, <2>2, <2>4, <2>5, MoveKeeps
<1> QED BY <1>2, <1>3, Zenon DEF Verify, Fault

LEMMA RequestServedKeeps ==
    ASSUME PInv, NEW c \in Callers, RequestServed(c)
    PROVE  PInv'
<1>1. /\ pc[c] = "request" /\ UNCHANGED <<topology, current>>
      /\ appended' = [appended EXCEPT ![c] = @ + 1]
  BY DEF RequestServed, client_vars
<1>2. UsesKnown(c) /\ appended[c] \in Nat /\ faults \in Nat /\ conns \in Seq(Conn)
  BY <1>1 DEF PInv, ClientTypes
<1>3. /\ appended' \in [Callers -> Nat] /\ appended'[c] = appended[c] + 1
      /\ \A d \in Callers : d # c => appended'[d] = appended[d]
  BY <1>1, <1>2 DEF PInv, ClientTypes
<1>4. \/ Return(c, "ok") /\ faults' = faults
      \/ Retry(c) /\ faults' = faults + 1
      \/ Goto(c, "invalidate") /\ UNCHANGED using /\ faults' = faults + 1
  BY DEF RequestServed, Fault
<1>5. /\ DOMAIN pc' = Callers /\ DOMAIN result' = Callers
      /\ pc'[c] \in {"get", "invalidate", "done"}
      /\ \A d \in Callers : d # c => pc'[d] = pc[d] /\ result'[d] = result[d]
      /\ pc'[c] # "done" => faults' = faults + 1
      /\ pc'[c] = "invalidate" => using' = using
  BY <1>4 DEF PInv, ClientTypes, Retry, Return, Goto, End
<1>6. conns' \in Seq(Conn)
  <2>1. CASE UNCHANGED conns
    BY <1>2, <2>1
  <2>2. CASE conns' = [conns EXCEPT ![using[c].conn].ok = FALSE]
    <3>1. CASE using[c].conn \in 1 .. Len(conns)
      BY <1>2, <2>2, <3>1, BreakKeepsType
    <3>2. CASE using[c].conn \notin 1 .. Len(conns)
      <4>1. conns \in [1 .. Len(conns) -> Conn]
        BY <1>2, LenProperties
      <4>2. conns' = conns
        BY <2>2, <3>2, <4>1, Zenon
      <4> QED BY <1>2, <4>2
    <3> QED BY <3>1, <3>2
  <2> QED BY <2>1, <2>2 DEF RequestServed
<1>7. /\ using' \in [Callers -> Usage]
      /\ \A d \in Callers : d # c => using'[d] = using[d]
  BY <1>4, DropAttemptKeeps, Zenon DEF PInv, ClientTypes, Retry, Return
<1>8. ClientTypes' /\ faults <= faults'
  BY <1>1, <1>2, <1>3, <1>4, <1>5, <1>6, <1>7 DEF PInv, ClientTypes
<1>9. pc'[c] = "invalidate" => UsesKnown(c)'
  BY <1>1, <1>2, <1>5 DEF UsesKnown
<1>10. ASSUME c # Creator PROVE Appends(c)'
  <2>1. appended[c] <= faults
    BY <1>1, <1>10, Zenon DEF PInv, Appends
  <2>2. result'[c] = "ok" \/ pc'[c] # "done"
    BY <1>4 DEF PInv, ClientTypes, Retry, Return, Goto, End
  <2> QED BY <1>2, <1>3, <1>4, <1>5, <2>1, <2>2 DEF Appends
<1> QED BY <1>1, <1>3, <1>5, <1>7, <1>8, <1>9, <1>10, CallKeeps, Zenon

LEMMA RequestFailedKeeps ==
    ASSUME PInv, NEW c \in Callers, RequestFailed(c)
    PROVE  PInv'
<1>1. pc[c] = "request" /\ UNCHANGED <<appended, conns, topology, current>>
  BY DEF RequestFailed, client_vars
<1>2. \/ UNCHANGED using /\ pc'[c] = "invalidate"
      \/ DropAttempt(c) /\ pc'[c] # "invalidate"
  BY DEF RequestFailed, PInv, ClientTypes, Retry, Return, Goto, End
<1>3. faults \in Nat /\ (faults' = faults \/ faults' = faults + 1)
  BY Zenon DEF RequestFailed, Fault, PInv, ClientTypes
<1>4. /\ DOMAIN pc' = Callers /\ DOMAIN result' = Callers
      /\ pc'[c] \in {"get", "invalidate", "done"}
      /\ result'[c] # "ok" \/ result'[c] = result[c]
      /\ \A d \in Callers : d # c => pc'[d] = pc[d] /\ result'[d] = result[d]
  BY Zenon DEF RequestFailed, PInv, ClientTypes, Retry, Return, Goto, End
<1>5. /\ using' \in [Callers -> Usage]
      /\ \A d \in Callers : d # c => using'[d] = using[d]
  BY <1>2, DropAttemptKeeps, Zenon DEF PInv, ClientTypes
<1>6. ClientTypes'
  BY <1>1, <1>3, <1>4, <1>5, SMTT(30) DEF PInv, ClientTypes
<1>7. pc'[c] = "invalidate" => UsesKnown(c)'
  BY <1>1, <1>2, Zenon DEF PInv, UsesKnown
<1>8. faults <= faults'
  BY <1>3
<1> QED BY <1>1, <1>4, <1>5, <1>6, <1>7, <1>8, MoveKeeps, Zenon

LEMMA InvalidateKeeps ==
    ASSUME PInv, NEW c \in Callers, Invalidate(c)
    PROVE  PInv'
<1>1. pc[c] = "invalidate" /\ UNCHANGED <<faults, appended, conns, topology, result>>
  BY DEF Invalidate
<1>2. current'.gen = current.gen /\ (current'.conn = current.conn \/ current'.conn = 0)
  BY DEF Invalidate, PInv, HasFields
<1>3. /\ DOMAIN pc' = Callers /\ pc'[c] \in {"get", "done"}
      /\ \A d \in Callers : d # c => pc'[d] = pc[d]
  BY Zenon DEF Invalidate, PInv, ClientTypes
<1>4. /\ using' \in [Callers -> Usage]
      /\ \A d \in Callers : d # c => using'[d] = using[d]
  BY DropAttemptKeeps, Zenon DEF Invalidate
<1>5. ClientTypes'
  BY <1>1, <1>2, <1>3, <1>4 DEF PInv, ClientTypes
<1>6. \A d \in Callers : pc'[d] = "verify" => using'[d].conn # 0
  BY <1>1, <1>3, <1>4, Zenon DEF PInv
<1>7. ASSUME NEW d \in Callers, pc'[d] \in {"request", "invalidate"} PROVE UsesKnown(d)'
  <2>1. UsesKnown(d) /\ using'[d] = using[d]
    BY <1>3, <1>7, <1>4, Zenon DEF PInv
  <2> QED BY <1>1, <1>2, <2>1, Zenon DEF UsesKnown
<1>8. ASSUME NEW d \in Callers \ {Creator} PROVE Appends(d)'
  <2>1. Appends(d) /\ (pc'[d] # "done" => pc[d] # "done")
    BY <1>1, <1>3, <1>8 DEF PInv
  <2> QED BY <1>1, <2>1, Zenon DEF Appends
<1>9. HasFields'
  BY Zenon DEF Invalidate, PInv, HasFields
<1> QED BY <1>5, <1>6, <1>7, <1>8, <1>9 DEF PInv

LEMMA CancelKeeps ==
    ASSUME PInv, NEW c \in Callers, Cancel(c)
    PROVE  PInv'
<1>1. pc[c] \in Active /\ UNCHANGED <<faults, appended, topology, current, result>>
  BY Zenon DEF Cancel, Goto
<1>2. /\ DOMAIN pc' = Callers /\ pc'[c] = "cancelled"
      /\ \A d \in Callers : d # c => pc'[d] = pc[d]
  BY DEF Cancel, Goto, PInv, ClientTypes
<1>3. /\ using' \in [Callers -> Usage] /\ conns' \in Seq(Conn)
      /\ \A d \in Callers : d # c => using'[d] = using[d]
  <2>1. conns \in Seq(Conn) /\ (UNCHANGED conns \/ DropUnused)
    BY DEF PInv, ClientTypes, Cancel
  <2>2. conns' \in Seq(Conn)
    BY <2>1, DropKeepsType, Zenon DEF DropUnused
  <2> QED BY <2>2, DropAttemptKeeps, Zenon DEF Cancel
<1>4. ClientTypes'
  BY <1>1, <1>2, <1>3 DEF PInv, ClientTypes
<1>5. pc[c] # "done" /\ faults \in Nat /\ faults <= faults'
  BY <1>1 DEF Active, PInv, ClientTypes
<1> QED BY <1>1, <1>2, <1>3, <1>4, <1>5, MoveKeeps, Zenon

LEMMA OthersKeep ==
    ASSUME PInv,
           \/ \E f \in Refreshers : RefreshStep(f)
           \/ \E l \in Leaders : MoveLeader(l)
           \/ \E b \in Brokers : LearnLeader(b)
           \/ \E k \in 1 .. Len(conns) : BreakConnection(k)
           \/ UNCHANGED vars
    PROVE  PInv'
<1> USE DEF vars, cluster_vars, client_vars, call_vars, refresh_vars
<1>1. CASE \E k \in 1 .. Len(conns) : BreakConnection(k)
  <2>1. PICK k \in 1 .. Len(conns) : BreakConnection(k)
    BY <1>1
  <2>2. conns' \in Seq(Conn)
    BY <2>1, BreakKeepsType, Zenon DEF BreakConnection, PInv, ClientTypes
  <2>3. /\ UNCHANGED <<appended, topology, current, pc, using, result>>
        /\ faults \in Nat /\ faults' = faults + 1
    BY <2>1, Zenon DEF BreakConnection, Fault, PInv, ClientTypes
  <2>4. ClientTypes' /\ faults <= faults'
    BY <2>2, <2>3 DEF PInv, ClientTypes
  <2> QED BY <2>3, <2>4, OutsideKeeps
<1>2. CASE /\ UNCHANGED <<faults, appended, conns, current, pc, using, result>>
           /\ topology' \in {topology, Brokers}
  <2>1. ClientTypes' /\ faults <= faults'
    BY <1>2 DEF PInv, ClientTypes
  <2> QED BY <1>2, <2>1, OutsideKeeps, Zenon
<1> QED BY <1>1, <1>2 DEF RefreshStep, RefreshAnswer, RefreshCache, RefreshTopology,
                          MoveLeader, LearnLeader

-----------------------------------------------------------------------------

\* The cached connection belongs to the generation of its calls, and a batch is
\* appended once more for each fault at most: what every step keeps.
THEOREM Invariance == Spec => []PInv
<1>1. Init => PInv
  <2> SUFFICES ASSUME Init PROVE PInv
    BY Zenon
  <2>1. ClientTypes /\ HasFields
    BY PartitionAssumption, SMTT(30)
    DEF Init, ClientTypes, HasFields, Usage, NotFound, NotUsed, NoGen
  <2>2. \A c \in Callers : pc[c] = "idle" /\ appended[c] = 0 /\ result[c] = "none" /\ faults = 0
    BY Zenon DEF Init
  <2>3. \A c \in Callers : Appends(c)
    BY <2>2 DEF Appends
  <2> QED BY <2>1, <2>2, <2>3 DEF PInv
<1>2. PInv /\ [Next]_vars => PInv'
  <2> SUFFICES ASSUME PInv, [Next]_vars PROVE PInv'
    BY Zenon
  <2>1. CASE \E c \in Callers : Start(c) \/ CallStep(c) \/ Cancel(c)
    BY <2>1, GetLockKeeps, SearchKeeps, ConnectKeeps, VerifyKeeps, RequestServedKeeps,
       RequestFailedKeeps, InvalidateKeeps, CancelKeeps, Zenon DEF CallStep
  <2>2. CASE \/ \E f \in Refreshers : RefreshStep(f)
             \/ \E l \in Leaders : MoveLeader(l)
             \/ \E b \in Brokers : LearnLeader(b)
             \/ \E k \in 1 .. Len(conns) : BreakConnection(k)
             \/ UNCHANGED vars
    BY <2>2, OthersKeep
  <2> QED BY <2>1, <2>2 DEF Next, Terminated
<1> QED BY <1>1, <1>2, PTL DEF Spec

\* A produce call that returned Ok was appended, and every further append of its
\* batch is owed to an answer that was lost or asked for a pause: for any number
\* of brokers, calls, leadership changes and faults.
THEOREM AcknowledgedAreAppended == Spec => []AcknowledgedIsAppended
<1>1. PInv => AcknowledgedIsAppended
  BY DEF PInv, Appends, AcknowledgedIsAppended
<1> QED BY <1>1, Invariance, PTL

\* BrokerCache::invalidate: the cached leader connection is forgotten only by a
\* call whose own request failed on that very connection.
THEOREM OnlyFailedForgotten == Spec => ForgetsOnlyFailedConnection
<1> DEFINE Failed == \E c \in Callers : /\ pc[c] = "invalidate" /\ pc'[c] # "invalidate"
                                        /\ using[c].conn = current.conn
<1>1. PInv /\ [Next]_vars => [current.conn # 0 /\ current'.conn = 0 => Failed]_vars
  <2> SUFFICES ASSUME PInv, Next, current.conn # 0, current'.conn = 0 PROVE Failed
    BY Zenon
  <2> USE DEF vars, cluster_vars, client_vars, call_vars, refresh_vars
  <2>1. PICK c \in Callers : Verify(c) \/ Invalidate(c)
    BY Zenon DEF Next, CallStep, Start, GetLock, Lookup, DiscardAbsent, AskArbitrary, Connect,
           RequestServed, RequestFailed, Cancel, RefreshStep, RefreshAnswer, RefreshCache,
           RefreshTopology, MoveLeader, LearnLeader, BreakConnection, Terminated
  <2>2. ~ Verify(c)
    <3> SUFFICES ASSUME Verify(c) PROVE FALSE
      OBVIOUS
    <3>1. using[c].conn # 0
      BY Zenon DEF Verify, PInv
    <3>2. current' = current \/ current'.conn = using[c].conn
      BY DEF Verify
    <3> QED BY <3>1, <3>2
  <2>3. Invalidate(c)
    BY <2>1, <2>2
  <2>4. pc[c] = "invalidate" /\ pc'[c] # "invalidate"
    BY <2>3 DEF Invalidate, PInv, ClientTypes
  <2>5. current.gen = using[c].gen
    BY <2>3, Zenon DEF Invalidate
  <2>6. using[c].conn = current.conn
    BY <2>4, <2>5 DEF PInv, UsesKnown
  <2> QED BY <2>4, <2>6
<1> QED BY <1>1, Invariance, PTL DEF Spec, ForgetsOnlyFailedConnection
=============================================================================
