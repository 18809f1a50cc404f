------------------------------- MODULE Session -------------------------------
(***************************************************************************)
(* One connection from its start: Messenger::sync_versions, do_sasl        *)
(* (src/messenger.rs) as BrokerRepresentation::connect calls them          *)
(* (src/connection.rs), then one call of a client.  Every request is       *)
(* encoded in the version that was negotiated, every response is framed,   *)
(* delivered by the worker task and decoded, with a broker that knows some *)
(* versions only, throttles, refuses, answers badly or closes.             *)
(*                                                                         *)
(* Messenger models many requests on one connection with their            *)
(* cancellation; here there is one at a time, down to its bytes.           *)
(***************************************************************************)
EXTENDS Broker, Wire

CONSTANTS Profiles,      \* brokers, configurations and calls to start from
          MaxThrottles,  \* bound: how often a broker asks to wait
          Mechanism,     \* SaslConfig::mechanism
          ClientId, ClientName

VARIABLES profile,    \* the broker's and the caller's side, fixed by Init
          step,       \* "sync", "handshake", "authenticate", "call" or "done"
          upper,      \* upper_bound of sync_versions
          ranges,     \* version_ranges, by API key
          rounds,     \* SASL messages answered so far
          next_id,    \* correlation_id
          pending,    \* the request in flight, or Null
          request,    \* bytes on their way to the broker
          answer,     \* what the broker answered last
          throttles,  \* how often it asked to wait
          reply,      \* what the worker sent to the waiting request, or Null
          body,       \* the response body the call was given
          result      \* what the session ended with, or Null

session_vars == <<profile, step, upper, ranges, rounds, next_id, pending, request, answer,
                  throttles, reply, body, result>>

vars == <<session_vars, wire_vars>>

Init ==
    /\ WireInit
    /\ profile \in Profiles
    /\ step = "sync"
    /\ upper = ApiVersionsApi.max
    /\ ranges = <<>>
    /\ rounds = 0
    /\ next_id = 0
    /\ pending = Null
    /\ request = <<>>
    /\ answer = Answer(0, <<>>, Null)
    /\ throttles = 0
    /\ reply = Null
    /\ body = Null
    /\ result = Null

-----------------------------------------------------------------------------
(* request_with_version_ranges                                             *)

\* Variant of match_versions: the newest version of the broker.
match_versions_server(server, api) ==
    IF server.min <= api.max /\ api.min <= server.max THEN server.max ELSE Null

match_versions(server, api) ==
    IF server.min <= api.max /\ api.min <= server.max THEN Min({server.max, api.max}) ELSE Null

Version(version_ranges, api) ==
    IF api.key \in DOMAIN version_ranges THEN match_versions(version_ranges[api.key], api)
    ELSE Null

\* Variant of HeaderVersion: tagged fields only after the first flexible version.
HeaderVersionLate(api, version) == IF version > api.tagged_request THEN 2 ELSE 1

HeaderVersion(api, version) == IF version >= api.tagged_request THEN 2 ELSE 1

RequestBytes(api, version, id, message) ==
    LET header == [request_api_key |-> api.key, request_api_version |-> version,
                   correlation_id |-> id, client_id |-> ClientId, tagged_fields |-> <<>>]
    IN  WriteValue(RequestHeader, header, HeaderVersion(api, version))
        \o WriteValue(api.request, message, version)

\* The session ends: connect returns an error, or the call returns.
Finish(outcome) ==
    /\ step' = "done"
    /\ result' = outcome
    /\ pending' = Null
    /\ reply' = Null
    /\ UNCHANGED <<profile, upper, ranges, rounds, next_id, request, answer, throttles>>

\* Up to the point where the response is awaited.  The version assertions of the
\* encoders panic.
SendRequest(api, message, version_ranges, no_match) ==
    LET version == Version(version_ranges, api)
    IN  /\ pending = Null
        /\ IF version = Null THEN Finish(Err(no_match))
           ELSE IF version > api.max THEN Finish(Err("panic"))
           ELSE IF FieldNotAvailable(api.request, message, version)
                THEN Finish(Err("invalid_message"))
           ELSE IF phase = "dead" THEN Finish(Err("poisoned"))
           ELSE /\ request' = Frame(RequestBytes(api, version, next_id, message))
                /\ pending' = [api |-> api, version |-> version, id |-> next_id,
                               message |-> message,
                               use_tagged_fields_in_response |-> version >= api.tagged_response]
                /\ next_id' = next_id + 1
                /\ UNCHANGED <<profile, step, upper, ranges, rounds, answer, throttles, reply,
                               result>>
        /\ UNCHANGED <<body, wire_vars>>

\* The record batches of a fetch response are readable.
Readable(api, response) ==
    api = FetchApi =>
        \A topic \in Range(response.responses) : \A partition \in Range(topic.partitions) :
            ReadBatches(partition.records).pos >= 0

\* The body, read in the version of the request; all of the message must be used.
ReadResponse ==
    Then(reply, LAMBDA message, p :
    Then(ReadValue(pending.api.response, message, p, pending.version), LAMBDA val, end :
        IF end = Len(message) /\ Readable(pending.api, val) THEN Done(val, end)
        ELSE Fail(Malformed)))

\* The request returns: its errors are Errors(status), its body is for Rest.
Receive(Errors(_), Rest(_)) ==
    /\ pending # Null
    /\ \/ /\ reply # Null
          /\ LET read == ReadResponse
             IN  IF read.pos = Panic THEN Finish(Err("panic")) /\ UNCHANGED body
                 ELSE IF read.pos < 0 THEN Errors("unreadable") /\ UNCHANGED body
                 ELSE Rest(read.val)
       \/ /\ reply = Null
          /\ phase = "dead"
          /\ Errors("poisoned")
          /\ UNCHANGED body
    /\ UNCHANGED wire_vars

\* The response was dealt with and the session goes on.
Proceed(next_step) ==
    /\ step' = next_step
    /\ pending' = Null
    /\ reply' = Null
    /\ UNCHANGED <<profile, next_id, request, answer, throttles, body, result>>

-----------------------------------------------------------------------------
(* sync_versions                                                           *)

VersionsRequest ==
    [client_software_name |-> ClientName, client_software_version |-> ClientName,
     tagged_fields |-> <<>>]

SendVersions ==
    /\ step = "sync"
    /\ SendRequest(ApiVersionsApi, VersionsRequest,
                   (ApiVersionsApi.key :> [min |-> ApiVersionsApi.min, max |-> upper]), "panic")

\* continue 'iter_upper_bound
NextUpperBound ==
    IF upper = ApiVersionsApi.min THEN Finish(Err("no_working_version"))
    ELSE /\ upper' = upper - 1
         /\ step' = "sync"
         /\ pending' = Null
         /\ reply' = Null
         /\ UNCHANGED <<profile, ranges, rounds, next_id, request, answer, throttles, result>>

\* Variant of VersionsRefused: the error code of the response is not looked at.
VersionsRefusedNever(response) == FALSE

VersionsRefused(response) == response.error_code # 0

Flipped(response) ==
    \E i \in DOMAIN response.api_keys :
        response.api_keys[i].min_version > response.api_keys[i].max_version

\* ApiVersionRange::new asserts that the range is not empty; of several rows with the
\* same key the HashMap keeps the last.
SetVersionRanges(response) ==
    LET rows == response.api_keys
        row(key) == rows[Max({i \in DOMAIN rows : rows[i].api_key = key})]
        range(key) == [min |-> row(key).min_version, max |-> row(key).max_version]
        keys == {rows[i].api_key : i \in DOMAIN rows}
    IN  IF \E i \in DOMAIN rows : rows[i].min_version > rows[i].max_version
        THEN Finish(Err("panic")) /\ UNCHANGED body
        ELSE /\ ranges' = [key \in keys |-> range(key)]
             /\ Proceed(IF profile.sasl = Null THEN "call" ELSE "handshake")
             /\ UNCHANGED <<upper, rounds>>

ReceiveVersions ==
    /\ step = "sync"
    /\ Receive(LAMBDA status : IF status = "unreadable" THEN NextUpperBound
                               ELSE Finish(Err(status)),
               LAMBDA response :
                   IF Throttled(response.throttle_time_ms)
                   THEN Proceed("sync") /\ UNCHANGED <<upper, ranges, rounds>>
                   ELSE IF VersionsRefused(response) THEN NextUpperBound /\ UNCHANGED body
                   ELSE IF Flipped(response)
                        THEN Finish(Err("flipped_range")) /\ UNCHANGED body
                   ELSE SetVersionRanges(response))

-----------------------------------------------------------------------------
(* do_sasl                                                                 *)

SendHandshake ==
    /\ step = "handshake"
    /\ SendRequest(SaslHandshakeApi, [mechanism |-> Mechanism], ranges, "no_version_match")

\* Every name in the broker's list must parse, whichever is wanted.
ReceiveHandshake ==
    /\ step = "handshake"
    /\ Receive(LAMBDA status : Finish(Err(status)),
               LAMBDA response :
                   LET offered == MechanismSet(response.mechanisms) IN
                   IF response.error_code # 0
                   THEN Finish(Err("sasl_error")) /\ UNCHANGED body
                   ELSE IF \E name \in offered : ~IsMechname(name)
                   THEN Finish(Err("invalid_mechanism")) /\ UNCHANGED body
                   ELSE IF Mechanism \in offered
                   THEN Proceed("authenticate") /\ UNCHANGED <<upper, ranges, rounds>>
                   ELSE Finish(Err("unsupported_mechanism")) /\ UNCHANGED body)

\* rsasl's session.step is running for the first `rounds' times, and then finishes or
\* fails.
SaslRunning == rounds < profile.sasl.rounds

SendAuthentication ==
    /\ step = "authenticate"
    /\ SaslRunning
    /\ SendRequest(SaslAuthenticateApi, [auth_bytes |-> <<rounds>>, tagged_fields |-> <<>>],
                   ranges, "no_version_match")

ReceiveAuthentication ==
    /\ step = "authenticate"
    /\ Receive(LAMBDA status : Finish(Err(status)),
               LAMBDA response :
                   IF response.error_code # 0
                   THEN Finish(Err("sasl_error")) /\ UNCHANGED body
                   ELSE /\ Proceed("authenticate")
                        /\ rounds' = rounds + 1
                        /\ UNCHANGED <<upper, ranges>>)

FinishSasl ==
    /\ step = "authenticate"
    /\ pending = Null
    /\ ~SaslRunning
    /\ \/ Proceed("call") /\ UNCHANGED <<upper, ranges, rounds>>
       \/ Finish(Err("sasl_session")) /\ UNCHANGED body
    /\ UNCHANGED wire_vars

-----------------------------------------------------------------------------
(* The call, and the worker task of Messenger::new                         *)

SendCall ==
    /\ step = "call"
    /\ SendRequest(ApiOf(profile.call), Request(profile.call), ranges, "no_version_match")

\* A throttled call sleeps and sends its request again.
ReceiveCall ==
    /\ step = "call"
    /\ Receive(LAMBDA status : Finish(Err(status)),
               LAMBDA response :
                   LET outcome == Process(profile.call, response)
                   IN  IF outcome.status = "throttle"
                       THEN Proceed("call") /\ UNCHANGED <<upper, ranges, rounds>>
                       ELSE Finish(outcome) /\ body' = response)

\* One message of the worker: a response that nobody waits for and one without a
\* correlation ID are ignored, an error of read_message poisons the connection.
Deliver ==
    LET header == ReadValue(ResponseHeader, frame, 0, 0)
        known == /\ header.pos > 0
                 /\ pending # Null
                 /\ reply = Null
                 /\ header.val.correlation_id = pending.id
        tags == ReadTaggedFields(frame, header.pos)
    IN  /\ \/ /\ frame = Null
              /\ Take("dead")
              /\ UNCHANGED reply
           \/ /\ frame # Null
              /\ Take("length")
              /\ reply' = IF ~known THEN reply
                          ELSE IF ~pending.use_tagged_fields_in_response
                          THEN Done(frame, header.pos)
                          ELSE Then(tags, LAMBDA fields, end : Done(frame, end))
        /\ UNCHANGED <<profile, step, upper, ranges, rounds, next_id, pending, request, answer,
                       throttles, body, result>>

-----------------------------------------------------------------------------
(* The broker                                                              *)

Answers(key, version) ==
    CASE key = ApiVersionsApi.key -> VersionsAnswers(profile.table, profile.busy, version, profile.tags)
      [] key = SaslHandshakeApi.key -> HandshakeAnswers(Mechanism, profile.mechanisms)
      [] key = SaslAuthenticateApi.key -> AuthenticateAnswers(version, <<9>>, profile.tags)
      [] OTHER -> IF profile.stored THEN FetchAnswers(profile.call, profile.tags)
                  ELSE CallAnswers(profile.call, version, profile.tags)

\* A broker asks to wait a bounded number of times.
Waits(a) == a.meant = Continue /\ "throttle_time_ms" \in DOMAIN a.body /\ a.body.throttle_time_ms > 0

\* The broker reads the request and answers it, after a message that answers nothing,
\* perhaps.  It closes the connection if it cannot read the request.
Serve ==
    LET read == ReadRequest(SubSeq(request, 5, Len(request)))
        header == read.val.header
        api == Apis[CHOOSE i \in DOMAIN Apis : Apis[i].key = header.request_api_key]
        stray == IF profile.stray = Null THEN <<>> ELSE <<profile.stray>>
    IN  /\ open
        /\ request # <<>>
        /\ request' = <<>>
        /\ IF read.pos < 0
           THEN /\ open' = FALSE
                /\ UNCHANGED <<stream, phase, left, buf, frame, due, answer, throttles>>
           ELSE \E a \in Answers(header.request_api_key, header.request_api_version) :
                    /\ Waits(a) => throttles < MaxThrottles
                    /\ answer' = a
                    /\ throttles' = IF Waits(a) THEN throttles + 1 ELSE throttles
                    /\ Write(stray \o <<WriteAnswer(api, header.correlation_id, a, profile.tags)>>)
        /\ UNCHANGED <<profile, step, upper, ranges, rounds, next_id, pending, reply, body,
                       result>>

Client ==
    \/ SendVersions \/ ReceiveVersions
    \/ SendHandshake \/ ReceiveHandshake
    \/ SendAuthentication \/ ReceiveAuthentication \/ FinishSasl
    \/ SendCall \/ ReceiveCall

Reader == (ReadPrefix \/ Skip \/ ReadMessage \/ ReadFails) /\ UNCHANGED session_vars

PeerCloses ==
    /\ profile.closes
    /\ step # "done"
    /\ phase # "dead"
    /\ Close
    /\ UNCHANGED session_vars

Next == Client \/ Reader \/ Deliver \/ Serve \/ PeerCloses

\* When the caller can go on: it has something to send, was answered, or learns that
\* the connection is poisoned.
ClientReady ==
    \/ pending = Null /\ step # "done"
    \/ pending # Null /\ (reply # Null \/ phase = "dead")

\* The steps of Client are those that change these.
ClientMoves == pending' # pending \/ step' # step

\* The runtime polls the caller and the worker, and a broker that does not close the
\* connection answers: there is no timeout for a request.  The first three conjuncts
\* are weak fairness of Client, of Serve and of Deliver with ENABLED written out; a step
\* of the last two disables itself.
FairSpec ==
    /\ Init /\ [][Next]_vars
    /\ []<>~ClientReady \/ []<><<ClientMoves>>_vars
    /\ []<>~(open /\ request # <<>>)
    /\ []<>(phase # "returned")
    /\ WF_vars(Reader)

-----------------------------------------------------------------------------
\* The types of the session and of the reader.  read_message never allocates more than
\* max_message_size ("check max message size to not blow up memory").
TypeOK ==
    /\ step \in {"sync", "handshake", "authenticate", "call", "done"}
    /\ upper \in ApiVersionsApi.min..ApiVersionsApi.max
    /\ throttles \in 0..MaxThrottles
    /\ open \in BOOLEAN
    /\ phase \in {"length", "skip", "body", "returned", "dead"}
    /\ left \in Nat
    /\ buf \in 0..MaxMessageSize
    /\ (step = "done") <=> (result # Null)

\* The versions that sync_versions leaves behind are those the broker really supports,
\* however many of its answers were throttled, refused or in another version than
\* asked for; and they are there before anything else is sent.
RangesAreBrokers ==
    /\ ranges # <<>> => ranges = profile.table
    /\ step \in {"handshake", "authenticate", "call"} => ranges # <<>>

\* What a peer that reads `type' in `version' makes of a message.
RECURSIVE Normal(_, _, _)
Normal(type, val, version) ==
    CASE type.kind = "struct" ->
             LET given(f) == IF val[f.name] = Absent THEN f.default ELSE val[f.name]
                 field(name) == type.fields[CHOOSE i \in DOMAIN type.fields :
                                                type.fields[i].name = name]
             IN  [name \in {type.fields[i].name : i \in DOMAIN type.fields} |->
                     IF Has(field(name), version)
                     THEN Normal(field(name).type, given(field(name)), version) ELSE Absent]
      [] type.kind = "array" /\ val # Null ->
             [i \in DOMAIN val |-> Normal(type.of, val[i], version)]
      [] OTHER -> val

\* Every request the messenger writes is in a version the broker supports, and the
\* broker reads from its bytes the message the client meant, to the last byte: header
\* version, compact encodings, tagged fields and the fields of that version agree.  A
\* produce request carries the records that were given, in one batch.
BrokerReadsRequest ==
    request # <<>> /\ pending # Null =>
        LET message == SubSeq(request, 5, Len(request))
            read == ReadRequest(message)
            version == pending.version
            key == pending.api.key
        IN  /\ ReadInt(request, 0, 4).val = Len(message)
            /\ read.pos = Len(message)
            /\ key # ApiVersionsApi.key =>
                   version \in profile.table[key].min .. profile.table[key].max
            /\ read.val.header.correlation_id = pending.id
            /\ read.val.header.client_id = ClientId
            /\ read.val.body = Normal(pending.api.request, pending.message, version)
            /\ key = ProduceApi.key =>
                   ReadBatches(read.val.body.topic_data[1].partition_data[1].records).val
                       = <<ProducedBatch(profile.call)>>

Supported(api) ==
    /\ api.key \in DOMAIN profile.table
    /\ \E v \in api.min..api.max : profile.table[api.key].min <= v /\ v <= profile.table[api.key].max

Needed ==
    {ApiOf(profile.call).key}
    \cup (IF profile.sasl = Null THEN {} ELSE {SaslHandshakeApi.key, SaslAuthenticateApi.key})

TooLarge == Len(WriteAnswer(FetchApi, 0, answer, profile.tags)) > MaxMessageSize

\* The session ends as its last answer says: a call succeeds with what the broker
\* reported for its own topic and partition, and an answer that says something else, or
\* has more or fewer entries or bytes, is an error.  Without a usable version the call
\* fails; a connection is given up only when it was closed or a message was too large.
OutcomeIsBrokers ==
    step = "done" =>
        CASE result.status = "poisoned" -> ~open \/ (profile.stored /\ TooLarge)
          [] result.status = "no_version_match" ->
                 \E i \in DOMAIN Apis : Apis[i].key \in Needed /\ ~Supported(Apis[i])
          [] result.status = "sasl_session" -> profile.sasl # Null
          [] OTHER -> answer.meant \in {Null, result}

\* Neither an answer nor a version range makes the client panic: sync_versions' and
\* extract_offset's unreachable!, the version assertions of the codecs and the assertion
\* of ApiVersionRange::new.  (The subtraction in CompactBytes::read is not among them:
\* no answer of Broker has a null token.)
NeverPanics == step = "done" => result.status # "panic"

\* Nothing waits for bytes nobody will send and no retry goes on for ever: a connection
\* to a broker that answers or closes is set up, and its call ends.
SessionEnds == <>(step = "done")

-----------------------------------------------------------------------------
(* Fetched records                                                         *)

\* The batches that lie completely before the cut.
WholeBatches(s) ==
    LET whole == {k \in 0..Len(s.entries) : Len(WriteBatches(SubSeq(s.entries, 1, k))) <= s.cut}
    IN  [i \in 1..Max(whole) |-> s.entries[i].batch]

Fetched == ReadBatches(body.responses[1].partitions[1].records).val

\* The records with the offset asked for or a later one, of batches with data.
RecordsFrom(batches, offset) ==
    UNION {{<<b.base_offset + r.offset_delta, b.first_timestamp + r.timestamp_delta, r.key, r.value>> :
               r \in {x \in Range(b.records) : b.base_offset + x.offset_delta >= offset}} :
           b \in Range(batches)}

\* An undamaged response gives exactly the batches that arrived completely, field by
\* field, wherever the broker cut it: between two batches, inside a header, inside a
\* varint or inside a compressed block, and whichever encoder wrote them.  The caller
\* gets their records from the offset it asked for on.
WholeBatchesAreRead ==
    step = "done" /\ phase # "dead" /\ answer.stored.entries # <<>> /\ answer.stored.at = 0 =>
        /\ body # Null
        /\ Fetched = WholeBatches(answer.stored)
        /\ LET wanted == RecordsFrom(WholeBatches(answer.stored), profile.call.offset)
               overflow == \E w \in wanted : w[2] > MaxLong
           IN  /\ overflow <=> result.status = "invalid_response"
               /\ ~overflow => /\ result.status = "ok"
                               /\ {<<v.offset, v.timestamp, v.key, v.value>> :
                                      v \in Range(result.value)} = wanted

\* A stored byte that changed is noticed or harmless: every batch that Records::read
\* still returns has the records and flags its producer wrote.  Only the base offset
\* and the leader epoch, which the checksum of RecordBatch::read does not cover, may
\* differ.
DamageForgesNothing ==
    body # Null /\ answer.stored.at # 0 =>
        \A i \in DOMAIN Fetched :
            Fetched[i] = [answer.stored.entries[i].batch EXCEPT
                             !.base_offset = Fetched[i].base_offset,
                             !.partition_leader_epoch = Fetched[i].partition_leader_epoch]
=============================================================================
