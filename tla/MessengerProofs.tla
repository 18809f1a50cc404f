--------------------------- MODULE MessengerProofs ---------------------------
(***************************************************************************)
(* The safety invariants of Messenger hold for every set of calls and      *)
(* every number of correlation ids.                                        *)
(***************************************************************************)
EXTENDS Messenger, TLAPS

\* Calls whose correlation id is somewhere in use.
Uses(r) ==
    \/ pc[r] \in Waiting \cup {"prepared"}
    \/ r \in delivered
    \/ writer = r
    \/ \E f \in frames : f.req = r
    \/ \E i \in Ids : request_map[i] = r

\* A call without an id has not started or failed before it took one.
HasId ==
    \A r \in Requests :
        /\ pc[r] = "idle" => corr[r] = NoId
        /\ pc[r] \in Waiting \cup {"prepared", "cancelled", "abandoned"}
              => corr[r] \in Ids

\* Requests reach the broker from the write half only, and frames carry the id
\* of the request they answer.
WireIds ==
    /\ writer # Nobody => pc[writer] \in {"writing", "cancelled"}
    /\ \A r \in delivered : corr[r] \in Ids
    /\ \A f \in frames : corr[f.req] = f.id

\* No two calls use the same id at the same time.
UniqueIds ==
    \A r, q \in Requests : Uses(r) /\ Uses(q) /\ corr[r] = corr[q] => r = q

\* An entry of the map has an unused channel, and a poisoned map is empty.
EntryUnserved ==
    /\ \A i \in Ids : request_map[i] # Nobody => channel[request_map[i]].tag = "empty"
    /\ state = "Poison" => \A i \in Ids : request_map[i] = Nobody
    /\ \A r \in Requests : pc[r] \in {"idle", "prepared"} => channel[r].tag = "empty"

\* What the reader task holds is the request that its frame answers, taken out
\* of the map and not yet served.
HeldMatches ==
    reader = "dispatching" =>
        /\ held.to \in Requests
        /\ held.to = held.req
        /\ \A i \in Ids : request_map[i] # held.to
        /\ pc[held.to] \notin {"idle", "prepared"}
        /\ pc[held.to] \in Waiting => channel[held.to].tag = "empty"

\* A waiting call that got nothing yet is in the map or held by the reader.
WaitingRegistered ==
    \A r \in Requests : pc[r] \in Waiting /\ channel[r].tag = "empty" =>
        \/ request_map[corr[r]] = r
        \/ reader = "dispatching" /\ held.to = r

IInv ==
    /\ TypeOK
    /\ HasId
    /\ WireIds
    /\ UniqueIds
    /\ NoStaleEntry
    /\ EntryUnserved
    /\ HeldMatches
    /\ WaitingRegistered
    /\ AnswerMatchesRequest
    /\ NoClosedChannel
-----------------------------------------------------------------------------

\* The wrapped counter stays a correlation id.
LEMMA FetchAddType == \A id \in Ids : FetchAdd(id) \in Ids
  BY MessengerAssumption DEF Ids, FetchAdd

\* The mark of a call without an id is no correlation id.
LEMMA NoIdIsNoId == NoId \notin Ids
  BY DEF NoId, Ids

\* What MessengerState::poison does to the state: the map is emptied, and a call
\* whose channel was in it is told, unless the stream was poisoned before.
LEMMA PoisonEffect ==
  ASSUME IInv, Poison
  PROVE  /\ state' = "Poison"
         /\ request_map' \in [Ids -> Requests \cup {Nobody}]
         /\ \A i \in Ids : request_map'[i] = Nobody
         /\ channel' \in [Requests -> Content]
         /\ \A r \in Requests :
               \/ channel'[r] = channel[r] /\ \A i \in Ids : request_map[i] # r
               \/ channel'[r] = Signal("poisoned") /\ \E i \in Ids : request_map[i] = r
<1>1. CASE state = "Poison"
  BY <1>1, MessengerAssumption DEF IInv, TypeOK, EntryUnserved, Poison, state_vars
<1>2. CASE state = "RequestMap"
  BY <1>2, MessengerAssumption DEF IInv, TypeOK, Poison, Content, Signal
<1> QED
  BY <1>1, <1>2 DEF IInv, TypeOK

\* Every step of calls, writer, reader and broker preserves the invariant.
LEMMA IInvStep == IInv /\ [Next]_vars => IInv'
<1> SUFFICES ASSUME IInv, [Next]_vars
             PROVE  IInv'
  BY Zenon
<1> USE MessengerAssumption, FetchAddType, NoIdIsNoId
        DEF IInv, TypeOK, HasId, WireIds, UniqueIds, Uses, NoStaleEntry, EntryUnserved, HeldMatches,
            WaitingRegistered, AnswerMatchesRequest, NoClosedChannel,
            Frame, Content, Holding, Signal, NothingHeld, Waiting, Finished, PCs, Outcomes, AllReplyKinds, Return,
            req_vars, state_vars, write_vars, broker_vars, reader_vars, vars
<1>1. ASSUME NEW r \in Requests, NoVersionMatch(r) PROVE IInv'
  BY <1>1 DEF NoVersionMatch
<1>2. ASSUME NEW r \in Requests, Prepare(r) PROVE IInv'
  <2>1. ~Uses(r)
    BY <1>2 DEF Prepare
  <2>2. \A q \in Requests : corr[q] = correlation_id => ~Uses(q)
    BY <1>2 DEF Prepare, IdInUse
  <2>3. /\ corr' = [corr EXCEPT ![r] = correlation_id]
        /\ \/ pc' = [pc EXCEPT ![r] = "prepared"]
           \/ pc' = [pc EXCEPT ![r] = "done"]
        /\ pc[r] = "idle"
        /\ UNCHANGED <<state_vars, write_vars, broker_vars, reader_vars>>
    BY <1>2, Zenon DEF Prepare
  <2>4. \A q \in Requests : q # r => corr'[q] = corr[q] /\ pc'[q] = pc[q]
    BY <2>3
  <2>5. TypeOK'
    BY <1>2 DEF Prepare
  <2>6. HasId' /\ WireIds'
    BY <2>1, <2>3, <2>4
  <2>7. UniqueIds'
    <3>1. ASSUME NEW q \in Requests, q # r, Uses(q)' PROVE Uses(q)
      BY <3>1, <2>3, <2>4, Zenon
    <3>2. corr'[r] = correlation_id
      BY <2>3
    <3> QED
      BY <3>1, <3>2, <2>2, <2>4 DEF UniqueIds
  <2>8. NoStaleEntry'
    BY <2>1, <2>3, <2>4
  <2>9. EntryUnserved' /\ HeldMatches' /\ AnswerMatchesRequest' /\ NoClosedChannel'
    BY <2>1, <2>3, <2>4
  <2>10. WaitingRegistered'
    BY <2>3, <2>4
  <2> QED
    BY <2>5, <2>6, <2>7, <2>8, <2>9, <2>10, Zenon
<1>3. ASSUME NEW r \in Requests, Insert(r) PROVE IInv'
  <2>1. state = "RequestMap" => request_map[corr[r]] = Nobody
    BY <1>3 DEF Insert
  <2>2. channel' = channel
    BY <1>3, <2>1 DEF Insert, DropSender
  <2>3. TypeOK'
    <3>0. \/ pc' = [pc EXCEPT ![r] = "queued"] /\ outcome' = outcome
          \/ /\ pc' = [pc EXCEPT ![r] = "done"]
             /\ outcome' = [outcome EXCEPT ![r] = "poisoned"]
      BY <1>3 DEF Insert
    <3>1. pc' \in [Requests -> PCs] /\ outcome' \in [Requests -> Outcomes]
      <4>1. pc \in [Requests -> PCs] /\ outcome \in [Requests -> Outcomes]
        BY Zenon
      <4> HIDE DEF IInv
      <4> QED
        BY <3>0, <4>1
    <3>2. request_map' \in [Ids -> Requests \cup {Nobody}]
      BY <1>3 DEF Insert
    <3>3. UNCHANGED <<state, corr, correlation_id, write_vars, broker_vars, reader_vars>>
      BY <1>3, Zenon DEF Insert
    <3> QED
      BY <2>2, <3>1, <3>2, <3>3
  <2>4. HasId' /\ WireIds'
    BY <1>3, <2>1, <2>2 DEF Insert
  <2>5. UniqueIds'
    BY <1>3, <2>1, <2>2 DEF Insert
  <2>6. NoStaleEntry'
    BY <1>3, <2>1, <2>2 DEF Insert
  <2>7. EntryUnserved'
    BY <1>3, <2>1, <2>2 DEF Insert
  <2>8. HeldMatches' /\ WaitingRegistered'
    BY <1>3, <2>1, <2>2 DEF Insert
  <2>9. AnswerMatchesRequest' /\ NoClosedChannel'
    BY <1>3, <2>1, <2>2 DEF Insert
  <2> QED
    BY <2>3, <2>4, <2>5, <2>6, <2>7, <2>8, <2>9, Zenon
<1>4. ASSUME NEW r \in Requests, LockWriter(r) PROVE IInv'
  <2>1. TypeOK'
    BY <1>4, Zenon DEF LockWriter
  <2>2. HasId' /\ WireIds'
    BY <1>4 DEF LockWriter
  <2>3. UniqueIds'
    BY <1>4 DEF LockWriter
  <2>4. NoStaleEntry'
    BY <1>4 DEF LockWriter
  <2>5. EntryUnserved'
    BY <1>4 DEF LockWriter
  <2>6. HeldMatches' /\ WaitingRegistered'
    BY <1>4 DEF LockWriter
  <2>7. AnswerMatchesRequest' /\ NoClosedChannel'
    BY <1>4 DEF LockWriter
  <2> QED
    BY <2>1, <2>2, <2>3, <2>4, <2>5, <2>6, <2>7
<1>5. ASSUME NEW r \in Requests, PoisonAfterWrite(r) PROVE IInv'
  <2>1. /\ Poison
        /\ pc[r] = "failed"
        /\ pc' = [pc EXCEPT ![r] = "done"]
        /\ outcome' = [outcome EXCEPT ![r] = "poisoned"]
        /\ UNCHANGED <<corr, correlation_id, write_vars, broker_vars, reader_vars>>
    BY <1>5, Zenon DEF PoisonAfterWrite
  <2>2. /\ state' = "Poison"
        /\ request_map' \in [Ids -> Requests \cup {Nobody}]
        /\ \A i \in Ids : request_map'[i] = Nobody
        /\ channel' \in [Requests -> Content]
    BY <2>1, PoisonEffect, Zenon
  <2>3. \A q \in Requests :
          \/ channel'[q] = channel[q] /\ \A i \in Ids : request_map[i] # q
          \/ channel'[q] = Signal("poisoned") /\ \E i \in Ids : request_map[i] = q
    BY <2>1, PoisonEffect, Zenon
  <2>4. TypeOK'
    <3>1. TypeOK
      OBVIOUS
    <3>2. /\ corr' = corr /\ correlation_id' = correlation_id
          /\ writer' = writer /\ written' = written /\ torn' = torn /\ write_err' = write_err
          /\ delivered' = delivered /\ frames' = frames /\ reader' = reader /\ held' = held
      BY <2>1
    <3> HIDE DEF IInv
    <3>3. pc' \in [Requests -> PCs] /\ outcome' \in [Requests -> Outcomes]
      BY <2>1, <3>1, Zenon
    <3> QED
      BY <2>2, <3>1, <3>2, <3>3
  <2>5. HasId' /\ WireIds' /\ NoStaleEntry'
    BY <2>1, <2>2
  <2>6. UniqueIds'
    <3>1. ASSUME NEW q \in Requests, Uses(q)' PROVE Uses(q)
      BY <3>1, <2>1, <2>2
    <3> QED
      BY <3>1, <2>1
  <2>7. EntryUnserved'
    BY <2>1, <2>2, <2>3
  <2>8. HeldMatches'
    BY <2>1, <2>2, <2>3
  <2>9. WaitingRegistered'
    BY <2>1, <2>2, <2>3
  <2>10. AnswerMatchesRequest'
    BY <2>1, <2>3
  <2>11. NoClosedChannel'
    BY <2>1, <2>3
  <2> QED
    BY <2>4, <2>5, <2>6, <2>7, <2>8, <2>9, <2>10, <2>11
<1>6. ASSUME NEW r \in Requests, Receive(r) PROVE IInv'
  BY <1>6 DEF Receive, Decode
<1>7. ASSUME NEW r \in Requests, CancelBeforeSent(r) PROVE IInv'
  <2>1. request_map[corr[r]] \in {r, Nobody}
    BY <1>7 DEF CancelBeforeSent
  <2>2. TypeOK'
    <3>1. /\ pc' = [pc EXCEPT ![r] = "cancelled"]
          /\ UNCHANGED <<outcome, corr, correlation_id, state, write_vars,
                         broker_vars, reader_vars>>
      BY <1>7, Zenon DEF CancelBeforeSent, CleanupEntry, state_vars
    <3>2. request_map' \in [Ids -> Requests \cup {Nobody}]
      BY <1>7 DEF CancelBeforeSent, CleanupEntry, state_vars
    <3>3. channel' \in [Requests -> Content]
      <4>1. channel' = DropSender(request_map[corr[r]]) \/ UNCHANGED channel
        BY <1>7, Zenon DEF CancelBeforeSent, CleanupEntry, state_vars
      <4>2. DropSender(request_map[corr[r]]) \in [Requests -> Content]
        BY <2>1, Zenon DEF DropSender
      <4> QED
        BY <4>1, <4>2
    <3>4. pc' \in [Requests -> PCs]
      BY <3>1, Zenon
    <3>5. /\ outcome' = outcome /\ corr' = corr /\ correlation_id' = correlation_id
          /\ state' = state /\ writer' = writer /\ written' = written
          /\ torn' = torn /\ write_err' = write_err /\ delivered' = delivered
          /\ frames' = frames /\ reader' = reader /\ held' = held
      BY <3>1, Zenon
    <3>6. TypeOK
      OBVIOUS
    <3> HIDE DEF IInv
    <3> QED
      BY <3>2, <3>3, <3>4, <3>5, <3>6
  <2>3. HasId' /\ WireIds'
    BY <1>7, <2>1 DEF CancelBeforeSent, CleanupEntry, DropSender
  <2>4. UniqueIds'
    BY <1>7, <2>1 DEF CancelBeforeSent, CleanupEntry, DropSender
  <2>5. NoStaleEntry'
    BY <1>7, <2>1 DEF CancelBeforeSent, CleanupEntry, DropSender
  <2>6. EntryUnserved'
    BY <1>7, <2>1 DEF CancelBeforeSent, CleanupEntry, DropSender
  <2>7. HeldMatches' /\ WaitingRegistered'
    BY <1>7, <2>1 DEF CancelBeforeSent, CleanupEntry, DropSender
  <2>8. AnswerMatchesRequest' /\ NoClosedChannel'
    BY <1>7, <2>1, SMTT(30) DEF CancelBeforeSent, CleanupEntry, DropSender
  <2> QED
    BY <2>2, <2>3, <2>4, <2>5, <2>6, <2>7, <2>8
<1>8. ASSUME NEW r \in Requests, CancelAfterSent(r) PROVE IInv'
  BY <1>8, SMTT(30) DEF CancelAfterSent
<1>9. ASSUME PutOnWire PROVE IInv'
  BY <1>9, SMTT(30) DEF PutOnWire
<1>10. ASSUME WriteOk PROVE IInv'
  BY <1>10, SMTT(30) DEF WriteOk
<1>11. ASSUME WriteFail PROVE IInv'
  <2>1. writer \in Requests /\ writer' = Nobody
    BY <1>11, Zenon DEF WriteFail
  <2>2. torn' \in BOOLEAN
    BY <1>11, Zenon DEF WriteFail
  <2>3. TypeOK'
    BY <1>11, <2>1, <2>2, SMTT(30) DEF WriteFail
  <2>4. HasId' /\ WireIds' /\ UniqueIds'
    BY <1>11, <2>1 DEF WriteFail
  <2>5. NoStaleEntry' /\ EntryUnserved' /\ HeldMatches'
    BY <1>11, <2>1 DEF WriteFail
  <2>6. WaitingRegistered' /\ AnswerMatchesRequest' /\ NoClosedChannel'
    BY <1>11, <2>1 DEF WriteFail
  <2> QED
    BY <2>3, <2>4, <2>5, <2>6, Zenon
<1>12. ASSUME Dispatch PROVE IInv'
  <2>1. /\ pc' = pc /\ corr' = corr /\ correlation_id' = correlation_id /\ outcome' = outcome
        /\ state' = state /\ request_map' = request_map
        /\ writer' = writer /\ written' = written /\ torn' = torn /\ write_err' = write_err
        /\ delivered' = delivered /\ frames' = frames
    BY <1>12, Zenon DEF Dispatch
  <2>2. TypeOK'
    BY <1>12, <2>1 DEF Dispatch
  <2>3. HasId' /\ WireIds' /\ UniqueIds' /\ NoStaleEntry'
    BY <2>1
  <2>4. EntryUnserved' /\ HeldMatches'
    BY <1>12, <2>1 DEF Dispatch
  <2>5. WaitingRegistered'
    BY <1>12, <2>1 DEF Dispatch
  <2>6. AnswerMatchesRequest' /\ NoClosedChannel'
    BY <1>12, <2>1 DEF Dispatch
  <2> QED
    BY <2>2, <2>3, <2>4, <2>5, <2>6, Zenon
<1>13. ASSUME ReadFail PROVE IInv'
  <2>1. /\ Poison
        /\ reader = "reading" /\ reader' = "stopped"
        /\ pc' = pc /\ corr' = corr /\ correlation_id' = correlation_id /\ outcome' = outcome
        /\ writer' = writer /\ written' = written /\ torn' = torn /\ write_err' = write_err
        /\ delivered' = delivered /\ frames' = frames /\ held' = held
    BY <1>13, Zenon DEF ReadFail
  <2>2. /\ state' = "Poison"
        /\ request_map' \in [Ids -> Requests \cup {Nobody}]
        /\ \A i \in Ids : request_map'[i] = Nobody
        /\ channel' \in [Requests -> Content]
    BY <2>1, PoisonEffect, Zenon
  <2>3. \A q \in Requests :
          \/ channel'[q] = channel[q] /\ \A i \in Ids : request_map[i] # q
          \/ channel'[q] = Signal("poisoned") /\ \E i \in Ids : request_map[i] = q
    BY <2>1, PoisonEffect, Zenon
  <2>4. TypeOK'
    <3>1. TypeOK
      BY Zenon
    <3> HIDE DEF IInv
    <3> QED
      BY <2>1, <2>2, <3>1, Zenon
  <2>5. HasId' /\ WireIds' /\ NoStaleEntry'
    BY <2>1, <2>2, SMTT(30)
  <2>6. UniqueIds'
    <3>1. ASSUME NEW q \in Requests, Uses(q)' PROVE Uses(q)
      BY <3>1, <2>1, <2>2
    <3> QED
      BY <3>1, <2>1
  <2>7. EntryUnserved'
    BY <2>1, <2>2, <2>3, SMTT(30)
  <2>8. HeldMatches'
    BY <2>1
  <2>9. WaitingRegistered'
    BY <2>1, <2>2, <2>3
  <2>10. AnswerMatchesRequest' /\ NoClosedChannel'
    BY <2>1, <2>3
  <2> QED
    BY <2>4, <2>5, <2>6, <2>7, <2>8, <2>9, <2>10, Zenon
<1>14. ASSUME DropMessenger PROVE IInv'
  BY <1>14, SMTT(30) DEF DropMessenger
<1>15. ASSUME Terminated PROVE IInv'
  BY <1>15, SMTT(30) DEF Terminated
<1>16. ASSUME NEW r \in Requests, NEW kind \in ReplyKinds, BrokerReply(r, kind) PROVE IInv'
  BY <1>16, SMTT(60) DEF BrokerReply
<1>17. ASSUME NEW f \in frames, ReadFrame(f) PROVE IInv'
  <2>1. request_map[f.id] \in {f.req, Nobody}
    OBVIOUS
  <2>2. TypeOK'
    <3>1. /\ request_map' \in [Ids -> Requests \cup {Nobody}]
          /\ frames' \subseteq frames
      BY <1>17, <2>1, SMTT(30) DEF ReadFrame, ResponseKey
    <3>2. (reader' = reader /\ held' = held) \/ (reader' = "stopped" /\ held' = held)
          \/ (reader' = "dispatching" /\ held' = [to |-> f.req, req |-> f.req, kind |-> f.kind])
      BY <1>17, <2>1, Zenon DEF ReadFrame, ResponseKey
    <3>3. /\ pc' = pc /\ corr' = corr /\ correlation_id' = correlation_id /\ outcome' = outcome
          /\ state' = state /\ channel' = channel /\ delivered' = delivered
          /\ writer' = writer /\ written' = written /\ torn' = torn /\ write_err' = write_err
      BY <1>17, Zenon DEF ReadFrame
    <3>4. TypeOK /\ f \in Frame
      BY <1>17, Zenon
    <3> HIDE DEF IInv
    <3> QED
      BY <3>1, <3>2, <3>3, <3>4
  <2>3. HasId' /\ WireIds'
    BY <1>17, <2>1, SMTT(30) DEF ReadFrame, ResponseKey
  <2>4. UniqueIds'
    BY <1>17, <2>1, SMTT(30) DEF ReadFrame, ResponseKey
  <2>5. NoStaleEntry'
    BY <1>17, <2>1, SMTT(30) DEF ReadFrame, ResponseKey
  <2>6. EntryUnserved'
    BY <1>17, <2>1, SMTT(30) DEF ReadFrame, ResponseKey
  <2>7. HeldMatches' /\ WaitingRegistered'
    BY <1>17, <2>1, SMTT(30) DEF ReadFrame, ResponseKey
  <2>8. AnswerMatchesRequest' /\ NoClosedChannel'
    BY <1>17, <2>1, SMTT(30) DEF ReadFrame, ResponseKey
  <2> QED
    BY <2>2, <2>3, <2>4, <2>5, <2>6, <2>7, <2>8, Zenon
<1>18. ASSUME UNCHANGED vars PROVE IInv'
  <2>1. /\ pc' = pc /\ corr' = corr /\ correlation_id' = correlation_id /\ outcome' = outcome
        /\ state' = state /\ request_map' = request_map /\ channel' = channel
        /\ writer' = writer /\ written' = written /\ torn' = torn /\ write_err' = write_err
        /\ delivered' = delivered /\ frames' = frames /\ reader' = reader /\ held' = held
    BY <1>18, Zenon
  <2>2. TypeOK' /\ HasId' /\ WireIds' /\ UniqueIds' /\ NoStaleEntry'
    BY <2>1, SMTT(30)
  <2>3. EntryUnserved' /\ HeldMatches' /\ WaitingRegistered'
    BY <2>1, SMTT(30)
  <2>4. AnswerMatchesRequest' /\ NoClosedChannel'
    BY <2>1
  <2> QED
    BY <2>2, <2>3, <2>4, Zenon
<1> QED
  BY <1>1, <1>2, <1>3, <1>4, <1>5, <1>6, <1>7, <1>8, <1>9,
     <1>10, <1>11, <1>12, <1>13, <1>14, <1>15, <1>16, <1>17, <1>18, Zenon
  DEF Next, RequestStep

\* The invariant holds for a new connection.
LEMMA IInvInit == Init => IInv
<1> SUFFICES ASSUME Init PROVE IInv
  OBVIOUS
<1>1. 0 \in Ids
  BY MessengerAssumption DEF Ids
<1>2. TypeOK
  BY <1>1, MessengerAssumption, Zenon
     DEF Init, TypeOK, Content, Holding, Signal, NothingHeld, PCs, Outcomes
<1>3. HasId /\ WireIds
  BY DEF Init, HasId, WireIds, Waiting
<1>4. UniqueIds
  BY MessengerAssumption DEF Init, UniqueIds, Uses, Waiting
<1>5. NoStaleEntry /\ EntryUnserved
  BY DEF Init, NoStaleEntry, EntryUnserved, Signal
<1>6. HeldMatches /\ WaitingRegistered /\ AnswerMatchesRequest /\ NoClosedChannel
  BY DEF Init, HeldMatches, WaitingRegistered, AnswerMatchesRequest,
         NoClosedChannel, Signal, Waiting
<1> QED
  BY <1>2, <1>3, <1>4, <1>5, <1>6 DEF IInv

\* The invariant holds in every reachable state.
LEMMA IInvInvariant == Spec => []IInv
  BY IInvInit, IInvStep, PTL DEF Spec

\* The variables of the connection keep their types, in particular every frame
\* and every map key is a correlation id that was handed out.
THEOREM TypeCorrect == Spec => []TypeOK
<1>1. IInv => TypeOK
  BY DEF IInv
<1> QED
  BY <1>1, IInvInvariant, PTL

\* For any number of concurrent calls and any id width, a response reaches only
\* the call it answers.
THEOREM AnswersMatch == Spec => []AnswerMatchesRequest
<1>1. IInv => AnswerMatchesRequest
  BY DEF IInv
<1> QED
  BY <1>1, IInvInvariant, PTL

\* The expect on rx.await never fails: no waiting call loses its sender.
THEOREM ChannelsStayOpen == Spec => []NoClosedChannel
<1>1. IInv => NoClosedChannel
  BY DEF IInv
<1> QED
  BY <1>1, IInvInvariant, PTL

\* The request map never keeps an entry of a call that ended before its message
\* was sent, or that was already served.
THEOREM NoStaleEntries == Spec => []NoStaleEntry
<1>1. IInv => NoStaleEntry
  BY DEF IInv
<1> QED
  BY <1>1, IInvInvariant, PTL

\* A poisoned connection leaves no call waiting uninformed.
THEOREM PoisonIsTotal == Spec => []PoisonReachesEveryone
<1>1. IInv => PoisonReachesEveryone
  <2> SUFFICES ASSUME IInv, state = "Poison", NEW r \in Requests,
                      pc[r] \in {"queued", "writing", "sent"},
                      channel[r].tag = "empty"
               PROVE  held.to = r
    BY Zenon DEF PoisonReachesEveryone
  <2>1. request_map[corr[r]] # r
    BY MessengerAssumption, Zenon DEF IInv, EntryUnserved, HasId, Waiting
  <2> QED
    BY <2>1 DEF IInv, WaitingRegistered, Waiting
<1> QED
  BY <1>1, IInvInvariant, PTL

-----------------------------------------------------------------------------
(* Failed writes                                                           *)

WInv == WriteErrorPoisons /\ CancelNeverTears

\* The stream is never cured, and a call leaves the states in which its write has
\* failed or in which it was dropped only by poisoning the stream.
LEMMA FailedStaysFailed ==
    ASSUME IInv, [Next]_vars, NEW r \in Requests
    PROVE  /\ state = "Poison" => state' = "Poison"
           /\ pc[r] \in {"failed", "cancelled"}
                 => pc'[r] \in {"failed", "cancelled"} \/ state' = "Poison"
<1> USE DEF req_vars, state_vars, write_vars, broker_vars, reader_vars, vars
<1>0. pc \in [Requests -> PCs] /\ (writer # Nobody => pc[writer] \in {"writing", "cancelled"})
  BY Zenon DEF IInv, TypeOK, WireIds
<1>1. ASSUME NEW q \in Requests, RequestStep(q), ~PoisonAfterWrite(q)
      PROVE  /\ state' = state
             /\ pc' = pc \/ \E label : pc' = [pc EXCEPT ![q] = label]
             /\ pc[q] \notin {"failed", "cancelled"}
  <2>1. CASE Insert(q) \/ CancelBeforeSent(q)
    BY <2>1, Zenon DEF Insert, CancelBeforeSent, CleanupEntry, Return
  <2>2. CASE NoVersionMatch(q) \/ Prepare(q) \/ LockWriter(q) \/ Receive(q) \/ CancelAfterSent(q)
    BY <2>2 DEF NoVersionMatch, Prepare, LockWriter, Receive, CancelAfterSent, Return
  <2> QED BY <1>1, <2>1, <2>2, Zenon DEF RequestStep
<1>2. CASE \E q \in Requests : PoisonAfterWrite(q)
  BY <1>2 DEF PoisonAfterWrite, Poison
<1>3. CASE \E q \in Requests : RequestStep(q) /\ ~PoisonAfterWrite(q)
  BY <1>0, <1>1, <1>3, Zenon
<1>4. CASE WriteOk \/ WriteFail
  BY <1>0, <1>4, Zenon DEF WriteOk, WriteFail
<1>5. CASE ReadFail
  BY <1>5 DEF ReadFail, Poison
<1>6. CASE UNCHANGED <<pc, state>>
  BY <1>6, Zenon
<1> QED
  BY <1>2, <1>3, <1>4, <1>5, <1>6, Zenon
  DEF Next, PutOnWire, BrokerReply, ReadFrame, Dispatch, DropMessenger, Terminated

LEMMA WriteErrorsStep == IInv /\ WInv /\ [Next]_vars => WInv'
<1> SUFFICES ASSUME IInv, WInv, [Next]_vars PROVE WInv'
  OBVIOUS
<1> USE DEF req_vars, state_vars, write_vars, broker_vars, reader_vars, vars
<1>1. CASE WriteFail
  <2>1. /\ writer \in Requests /\ write_err' = write_err \cup {writer}
        /\ pc[writer] \in {"writing", "cancelled"} /\ pc \in [Requests -> PCs]
        /\ pc' = IF pc[writer] = "writing" THEN [pc EXCEPT ![writer] = "failed"] ELSE pc
    BY <1>1 DEF WriteFail, IInv, TypeOK, WireIds
  <2>2. CancelNeverTears'
    BY <2>1 DEF CancelNeverTears
  <2>3. ASSUME NEW r \in write_err'
        PROVE  pc'[r] \in {"failed", "cancelled"} \/ state' = "Poison"
    <3>1. CASE r = writer
      BY <2>1, <3>1, Zenon
    <3>2. CASE r # writer
      BY <2>1, <2>3, <3>2, FailedStaysFailed, Zenon DEF WInv, WriteErrorPoisons, IInv, TypeOK
    <3> QED BY <3>1, <3>2
  <2> QED BY <2>2, <2>3, Zenon DEF WInv, WriteErrorPoisons
<1>2. CASE UNCHANGED <<write_err, torn>>
  BY <1>2, FailedStaysFailed
  DEF WInv, WriteErrorPoisons, CancelNeverTears, IInv, TypeOK
<1> QED
  BY <1>1, <1>2, Zenon
  DEF Next, RequestStep, NoVersionMatch, Prepare, Insert, LockWriter, PoisonAfterWrite,
      Receive, CancelBeforeSent, CancelAfterSent, PutOnWire, WriteOk, BrokerReply, ReadFrame,
      Dispatch, ReadFail, DropMessenger, Terminated

LEMMA WriteErrorsInvariant == Spec => []WInv
<1>1. Init => WInv
  BY DEF Init, WInv, WriteErrorPoisons, CancelNeverTears
<1> QED BY <1>1, WriteErrorsStep, IInvInvariant, PTL DEF Spec

\* A call whose write failed has poisoned the stream by the time it returns.
THEOREM FailedWritesPoison == Spec => []WriteErrorPoisons
<1>1. WInv => WriteErrorPoisons
  BY DEF WInv
<1> QED BY <1>1, WriteErrorsInvariant, PTL

\* However many calls are dropped, and wherever, only a write error tears a frame.
THEOREM CancellationIsSafe == Spec => []CancelNeverTears
<1>1. WInv => CancelNeverTears
  BY DEF WInv
<1> QED BY <1>1, WriteErrorsInvariant, PTL
=============================================================================
