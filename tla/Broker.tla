------------------------------- MODULE Broker -------------------------------
(***************************************************************************)
(* The broker at the other end of a connection (external): how it reads a  *)
(* request, and the answers it may give.  An answer is the version it is   *)
(* encoded in, its body, bytes that follow the body, and the outcome it    *)
(* means for the caller.                                                   *)
(***************************************************************************)
EXTENDS Requests

CONSTANTS Topic, OtherTopic,  \* topic names
          Entries,            \* batches a partition is made of
          MaxBatches,         \* bound: batches per fetch response
          DamageValues        \* bound: what a damaged byte may turn into

UnsupportedVersion == 35

\* What a fetch response holds: stored batches, cut off after some byte, and one
\* byte of them damaged, if `at' is not 0.
Stored(entries, cut, at, value) ==
    [entries |-> entries, cut |-> cut, at |-> at, value |-> value]

NothingStored == Stored(<<>>, 0, 0, 0)

Answer(version, body, meant) ==
    [version |-> version, body |-> body, trailing |-> <<>>, meant |-> meant,
     stored |-> NothingStored]

Continue == Outcome("continue", <<>>)

\* The header's first fields are the same in all versions; a request of a known
\* version is read completely.
ReadRequest(message) ==
    LET prefix == ReadValue(RequestHeader, message, 0, 0)
        key == prefix.val.request_api_key
        api == Apis[CHOOSE i \in DOMAIN Apis : Apis[i].key = key]
        version == prefix.val.request_api_version
        flexible == version >= api.tagged_request
    IN  Then(ReadValue(RequestHeader, message, 0, IF flexible THEN 2 ELSE 1), LAMBDA header, p :
        Then(ReadValue(api.request, message, p, version), LAMBDA body, end :
            Done([header |-> header, body |-> body], end)))

\* Apache Kafka answers ApiVersions with the oldest response header.
WriteAnswer(api, id, answer, tags) ==
    WriteValue(ResponseHeader, [correlation_id |-> id, tagged_fields |-> tags],
               IF answer.version >= api.tagged_request /\ api # ApiVersionsApi THEN 1 ELSE 0)
    \o WriteValue(api.response, answer.body, answer.version) \o answer.trailing

-----------------------------------------------------------------------------
(* ApiVersions and SASL                                                    *)

VersionsBody(table, keys, error, throttle, tags) ==
    LET row(key) == [api_key |-> key, min_version |-> table[key].min,
                     max_version |-> table[key].max, tagged_fields |-> tags]
        order == SetToSeq(keys)
    IN  [error_code |-> error, throttle_time_ms |-> throttle, tagged_fields |-> tags,
         api_keys |-> [i \in DOMAIN order |-> row(order[i])]]

\* A version the broker does not know is answered in version 0, with nothing but the
\* error, or with the range of ApiVersions.  A busy broker may ask to wait, or refuse.
VersionsAnswers(table, busy, version, tags) ==
    LET body(keys, error, throttle) == VersionsBody(table, keys, error, throttle, tags)
        flipped == \E key \in DOMAIN table : table[key].min > table[key].max
        good == IF flipped THEN Err("flipped_range") ELSE Continue
    IN  IF version > table[ApiVersionsApi.key].max
        THEN {Answer(0, body(keys, UnsupportedVersion, 0), Continue) :
                 keys \in {{}, {ApiVersionsApi.key}}}
        ELSE {Answer(version, body(DOMAIN table, 0, 0), good)}
             \cup {a \in {Answer(version, body(DOMAIN table, 0, 1),
                                 IF version = 0 THEN good ELSE Continue),
                          Answer(version, body({}, 1, 0),
                                 IF version = 0 THEN Err("no_working_version") ELSE Continue)} :
                      busy}

\* What rsasl's Mechname::parse accepts: 1 to 20 capitals, digits, '-' and '_'.
IsMechname(name) ==
    /\ Len(name) \in 1 .. 20
    /\ \A i \in DOMAIN name : name[i] \in 65 .. 90 \cup 48 .. 57 \cup {45, 95}

\* The names in a list of mechanisms, which may be null.
MechanismSet(mechanisms) ==
    IF mechanisms = Null THEN {} ELSE {mechanisms[i] : i \in DOMAIN mechanisms}

HandshakeAnswers(mechanism, mechanisms) ==
    LET body(error) == [error_code |-> error, mechanisms |-> mechanisms]
        offered == MechanismSet(mechanisms)
        meant == IF \E name \in offered : ~IsMechname(name) THEN Err("invalid_mechanism")
                 ELSE IF mechanism \in offered THEN Continue
                 ELSE Err("unsupported_mechanism")
    IN  {Answer(1, body(0), meant), Answer(1, body(33), Err("sasl_error"))}

AuthenticateAnswers(version, bytes, tags) ==
    LET body(error, message) ==
            [error_code |-> error, error_message |-> message, auth_bytes |-> bytes,
             session_lifetime_ms |-> 0, tagged_fields |-> tags]
    IN  {Answer(version, body(0, Null), Continue),
         Answer(version, body(58, <<1>>), Err("sasl_error"))}

-----------------------------------------------------------------------------
(* The calls                                                               *)

BaseOffset == 7

\* `payload' is the records of a fetch, or the old style offsets of ListOffsets.
PartitionBody(call, index, error, payload, tags) ==
    CASE call.op = "produce" ->
             [index |-> index, error |-> error, base_offset |-> BaseOffset,
              log_append_time_ms |-> -1, log_start_offset |-> 0]
      [] call.op = "fetch_records" ->
             [partition_index |-> index, error_code |-> error, high_watermark |-> BaseOffset,
              last_stable_offset |-> BaseOffset, records |-> payload,
              aborted_transactions |-> <<[producer_id |-> 1, first_offset |-> 2]>>]
      [] call.op = "get_offset" ->
             [partition_index |-> index, error_code |-> error,
              old_style_offsets |-> payload, timestamp |-> -1, offset |-> BaseOffset]
      [] call.op = "delete_records" ->
             [partition_index |-> index, low_watermark |-> 3, error |-> error,
              tagged_fields |-> tags]

TopicBody(call, name, error, partitions, tags) ==
    CASE call.op = "produce" -> [name |-> name, partition_responses |-> partitions]
      [] call.op = "fetch_records" -> [topic |-> name, partitions |-> partitions]
      [] call.op = "get_offset" -> [name |-> name, partitions |-> partitions]
      [] call.op = "delete_records" ->
             [name |-> name, partitions |-> partitions, tagged_fields |-> tags]
      [] call.op = "create_topic" ->
             [name |-> name, error |-> error, error_message |-> Null, num_partitions |-> 1,
              replication_factor |-> 1, tagged_fields |-> tags,
              configs |-> <<[name |-> <<1>>, value |-> Null, read_only |-> FALSE,
                             config_source |-> 5, is_sensitive |-> TRUE,
                             tagged_fields |-> tags]>>]
      [] call.op = "delete_topic" ->
             [name |-> name, error |-> error, error_message |-> Null, tagged_fields |-> tags]

\* `shape' lists the topics and, for each of them, the partitions of an answer.
Body(call, shape, payload, tags) ==
    LET partition(index) == PartitionBody(call, index, shape.error, payload, tags)
        topic(name) == TopicBody(call, name, shape.error,
                           [i \in DOMAIN shape.indices |-> partition(shape.indices[i])], tags)
        topics == [i \in DOMAIN shape.names |-> topic(shape.names[i])]
    IN  IF call.op \in {"produce", "fetch_records", "delete_topic"}
        THEN [responses |-> topics, throttle_time_ms |-> shape.throttle, tagged_fields |-> tags]
        ELSE [topics |-> topics, throttle_time_ms |-> shape.throttle, tagged_fields |-> tags]

Shape(names, indices, error, throttle) ==
    [names |-> names, indices |-> indices, error |-> error, throttle |-> throttle]

GoodShape(call) == Shape(<<call.topic>>, <<call.partition>>, 0, 0)

\* What a broker may get wrong about an answer, one thing at a time.  Nothing is said
\* about another topic in the answer of a controller.
BadShapes(call) ==
    LET good == GoodShape(call)
        names == {<<>>, <<call.topic, OtherTopic>>, <<OtherTopic>>}
        indices == {<<>>, <<call.partition, call.partition + 1>>, <<call.partition + 1>>}
        controller == call.op \in {"create_topic", "delete_topic"}
    IN  {[good EXCEPT !.names = n] : n \in IF controller THEN names \ {<<OtherTopic>>} ELSE names}
        \cup {[good EXCEPT !.indices = i] : i \in IF controller THEN {} ELSE indices}

HasThrottle(api, version) ==
    \E i \in DOMAIN api.response.fields :
        /\ api.response.fields[i].name = "throttle_time_ms"
        /\ Has(api.response.fields[i], version)

GoodOutcome(call) ==
    CASE call.op = "produce" -> Ok([i \in DOMAIN call.records |-> BaseOffset + i - 1])
      [] call.op = "get_offset" -> Ok(<<BaseOffset>>)
      [] OTHER -> Ok(<<>>)

GoodPayload(call) == IF call.op = "get_offset" THEN <<BaseOffset>> ELSE <<>>

ShapedAnswers(call, version, tags) ==
    LET good == GoodShape(call)
        answer(shape, meant) ==
            Answer(version, Body(call, shape, GoodPayload(call), tags), meant)
        throttled == IF HasThrottle(ApiOf(call), version) THEN Continue ELSE GoodOutcome(call)
    IN  {answer(good, GoodOutcome(call)),
         answer([good EXCEPT !.throttle = -1], GoodOutcome(call)),
         answer([good EXCEPT !.throttle = 1], throttled),
         answer([good EXCEPT !.error = 6], Err("server_error")),
         [answer(good, Err("unreadable")) EXCEPT !.trailing = <<0>>]}
        \cup {answer(shape, Err("invalid_response")) : shape \in BadShapes(call)}

\* Version 0 of ListOffsets has an array of offsets.
OffsetsAnswers(call, tags) ==
    {Answer(0, Body(call, GoodShape(call), offsets, tags), Err("invalid_response")) :
        offsets \in {<<>>, <<BaseOffset, 0>>, Null}}

\* What a partition may return: the stored batches, cut off anywhere, or with any one
\* byte damaged.
FetchAnswers(call, tags) ==
    LET answer(s, bytes) ==
            [Answer(4, Body(call, GoodShape(call), bytes, tags), Null) EXCEPT !.stored = s]
        cut(e, data) == {answer(Stored(e, n, 0, 0), SubSeq(data, 1, n)) : n \in 0..Len(data)}
        damaged(e, data) == {answer(Stored(e, Len(data), i, x), [data EXCEPT ![i] = x]) :
                                i \in DOMAIN data, x \in DamageValues}
    IN  UNION {cut(e, WriteBatches(e)) \cup damaged(e, WriteBatches(e)) :
                  e \in BoundedSeq(Entries, MaxBatches)}

MetadataAnswers(version) ==
    LET partition == [error |-> 0, partition_index |-> 4, leader_id |-> 1,
                      replica_nodes |-> <<1>>, isr_nodes |-> Null]
        topic(name, internal) ==
            [error |-> 0, name |-> name, is_internal |-> internal, partitions |-> <<partition>>]
        body(throttle) ==
            [throttle_time_ms |-> throttle, controller_id |-> 1, cluster_id |-> Null,
             brokers |-> <<[node_id |-> 1, host |-> <<2>>, port |-> 3, rack |-> Null]>>,
             topics |-> <<topic(Topic, FALSE), topic(OtherTopic, TRUE)>>]
        listed(name) == [name |-> name, partitions |-> <<4>>]
        good == IF version = 0 THEN Ok(<<listed(Topic), listed(OtherTopic)>>)
                ELSE Ok(<<listed(Topic)>>)
    IN  {Answer(version, body(0), good),
         Answer(version, body(1), IF version < 3 THEN good ELSE Continue)}

CallAnswers(call, version, tags) ==
    CASE call.op = "list_topics" -> MetadataAnswers(version)
      [] call.op = "get_offset" /\ version = 0 ->
             ShapedAnswers(call, version, tags) \cup OffsetsAnswers(call, tags)
      [] OTHER -> ShapedAnswers(call, version, tags)
=============================================================================
