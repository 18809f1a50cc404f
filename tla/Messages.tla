------------------------------ MODULE Messages ------------------------------
(***************************************************************************)
(* The messages of src/protocol/messages: which fields a struct has in     *)
(* which version, how each is encoded there, and which versions of which   *)
(* request the crate implements.                                           *)
(*                                                                         *)
(* A struct is the sequence of its fields.  A field exists from version    *)
(* `from' up to and without version `until'; a field that a version does   *)
(* not have is Absent.  The number in a string, bytes or array type is the *)
(* first version that uses the compact encoding.                           *)
(***************************************************************************)
EXTENDS RecordBatch

CONSTANT Absent   \* Option::None of a field

\* A version no message has reached.
Never == 1000

Int8 == [kind |-> "int", size |-> 1]
Int16 == [kind |-> "int", size |-> 2]
Int32 == [kind |-> "int", size |-> 4]
Int64 == [kind |-> "int", size |-> LongBytes]
Boolean == [kind |-> "boolean"]
Tagged == [kind |-> "tagged"]
Batches == [kind |-> "records"]
String(compact) == [kind |-> "string", compact |-> compact, null |-> FALSE]
NullableString(compact) == [kind |-> "string", compact |-> compact, null |-> TRUE]
Bytes(compact) == [kind |-> "bytes", compact |-> compact]
Array(compact, of) == [kind |-> "array", compact |-> compact, of |-> of, null |-> TRUE]
Struct(fields) == [kind |-> "struct", fields |-> fields]

\* Vec<T>: unwrap_or_default turns a null array into an empty one.
Vec(compact, of) == [Array(compact, of) EXCEPT !.null = FALSE]

\* `checked': a value in a version without the field is FieldNotAvailable.
Field(name, type) ==
    [name |-> name, type |-> type, from |-> 0, until |-> Never, default |-> Absent,
     checked |-> FALSE]

Since(version, name, type) == [Field(name, type) EXCEPT !.from = version]

TaggedFields(version) == [Since(version, "tagged_fields", Tagged) EXCEPT !.default = <<>>]

Has(field, version) == field.from <= version /\ version < field.until

-----------------------------------------------------------------------------
RECURSIVE WriteValue(_, _, _)

\* write_versioned_array and write_compact_versioned_array
WriteArray(type, list, version) ==
    LET compact == version >= type.compact
    IN  IF list = Null THEN (IF compact THEN WriteUnsignedVarint[0] ELSE WriteInt(-1, 4))
        ELSE (IF compact THEN WriteUnsignedVarint[Len(list) + 1] ELSE WriteInt(Len(list), 4))
             \o Joined([i \in DOMAIN list |-> WriteValue(type.of, list[i], version)])

\* The fields a version has, in order; None is written as the default.
WriteStruct(fields, message, version) ==
    LET write(f) ==
            IF ~Has(f, version) THEN <<>>
            ELSE WriteValue(f.type, IF message[f.name] = Absent THEN f.default
                                    ELSE message[f.name], version)
    IN  Joined([i \in DOMAIN fields |-> write(fields[i])])

\* write_versioned
WriteValue(type, val, version) ==
    CASE type.kind = "int" -> WriteInt(val, type.size)
      [] type.kind = "boolean" -> WriteBoolean(val)
      [] type.kind = "tagged" -> WriteTaggedFields(val)
      [] type.kind = "records" -> WriteNullable(val, 4)
      [] type.kind = "string" ->
             IF version >= type.compact THEN WriteCompact(val) ELSE WriteNullable(val, 2)
      [] type.kind = "bytes" ->
             IF version >= type.compact THEN WriteCompact(val) ELSE WriteNullable(val, 4)
      [] type.kind = "array" -> WriteArray(type, val, version)
      [] type.kind = "struct" -> WriteStruct(type.fields, val, version)

\* Some(_) in a field that the version does not have.
FieldNotAvailable(type, message, version) ==
    \E i \in DOMAIN type.fields :
        LET f == type.fields[i]
        IN  f.checked /\ ~Has(f, version) /\ message[f.name] # Absent

-----------------------------------------------------------------------------
RECURSIVE ReadValue(_, _, _, _)

\* read_versioned_array and read_compact_versioned_array
ReadArray(type, s, p, version) ==
    LET length == IF version < type.compact THEN ReadInt(s, p, 4)
                  ELSE Then(ReadUnsignedVarint(s, p), LAMBDA n, q : Done(n - 1, q))
    IN  Then(length, LAMBDA n, q :
            IF n = -1 THEN Done(IF type.null THEN Null ELSE <<>>, q)
            ELSE ReadMany(s, q, n, LAMBDA buf, at : ReadValue(type.of, buf, at, version)))

ReadString(type, s, p, version) ==
    CASE version < type.compact /\ type.null -> ReadNullable(s, p, 2)
      [] version < type.compact /\ ~type.null -> ReadNonNull(s, p, 2)
      [] version >= type.compact /\ type.null -> ReadCompactNullable(s, p)
      [] version >= type.compact /\ ~type.null -> ReadCompactString(s, p)

ReadStruct(fields, s, p, version) ==
    LET upTo[k \in 0..Len(fields)] ==
            IF k = 0 THEN Done(<<>>, p)
            ELSE Then(upTo[k - 1], LAMBDA read, q :
                     IF ~Has(fields[k], version) THEN Done(read @@ (fields[k].name :> Absent), q)
                     ELSE Then(ReadValue(fields[k].type, s, q, version), LAMBDA val, end :
                              Done(read @@ (fields[k].name :> val), end)))
    IN  upTo[Len(fields)]

\* read_versioned
ReadValue(type, s, p, version) ==
    CASE type.kind = "int" -> ReadInt(s, p, type.size)
      [] type.kind = "boolean" -> ReadBoolean(s, p)
      [] type.kind = "tagged" -> ReadTaggedFields(s, p)
      [] type.kind = "records" -> ReadRecords(s, p)
      [] type.kind = "string" -> ReadString(type, s, p, version)
      [] type.kind = "bytes" ->
             IF version < type.compact THEN ReadNonNull(s, p, 4) ELSE ReadCompactBytes(s, p)
      [] type.kind = "array" -> ReadArray(type, s, p, version)
      [] type.kind = "struct" -> ReadStruct(type.fields, s, p, version)

-----------------------------------------------------------------------------
(* Headers, and the requests of a session's start                          *)

RequestHeader ==
    Struct(<<Field("request_api_key", Int16), Field("request_api_version", Int16),
             Field("correlation_id", Int32), Since(1, "client_id", NullableString(Never)),
             TaggedFields(2)>>)

ResponseHeader == Struct(<<Field("correlation_id", Int32), TaggedFields(1)>>)

ApiVersionsRequest ==
    Struct(<<Since(3, "client_software_name", String(3)),
             Since(3, "client_software_version", String(3)), TaggedFields(3)>>)

ApiVersionsResponseApiKey ==
    Struct(<<Field("api_key", Int16), Field("min_version", Int16),
             Field("max_version", Int16), TaggedFields(3)>>)

ApiVersionsResponse ==
    Struct(<<Field("error_code", Int16), Field("api_keys", Vec(3, ApiVersionsResponseApiKey)),
             Since(1, "throttle_time_ms", Int32), TaggedFields(3)>>)

SaslHandshakeRequest == Struct(<<Field("mechanism", String(Never))>>)

SaslHandshakeResponse ==
    Struct(<<Field("error_code", Int16), Field("mechanisms", Array(Never, String(Never)))>>)

SaslAuthenticateRequest == Struct(<<Field("auth_bytes", Bytes(2)), TaggedFields(2)>>)

SaslAuthenticateResponse ==
    Struct(<<Field("error_code", Int16), Field("error_message", NullableString(2)),
             Field("auth_bytes", Bytes(2)), Since(1, "session_lifetime_ms", Int64),
             TaggedFields(2)>>)

-----------------------------------------------------------------------------
(* Requests to a partition leader                                          *)

ProduceRequestPartitionData == Struct(<<Field("index", Int32), Field("records", Batches)>>)

ProduceRequestTopicData ==
    Struct(<<Field("name", String(Never)),
             Field("partition_data", Vec(Never, ProduceRequestPartitionData))>>)

ProduceRequest ==
    Struct(<<Since(3, "transactional_id", NullableString(Never)), Field("acks", Int16),
             Field("timeout_ms", Int32), Field("topic_data", Vec(Never, ProduceRequestTopicData))>>)

ProduceResponsePartitionResponse ==
    Struct(<<Field("index", Int32), Field("error", Int16), Field("base_offset", Int64),
             Since(2, "log_append_time_ms", Int64), Since(5, "log_start_offset", Int64)>>)

ProduceResponseResponse ==
    Struct(<<Field("name", String(Never)),
             Field("partition_responses", Vec(Never, ProduceResponsePartitionResponse))>>)

ProduceResponse ==
    Struct(<<Field("responses", Vec(Never, ProduceResponseResponse)),
             Since(1, "throttle_time_ms", Int32)>>)

FetchRequestPartition ==
    Struct(<<Field("partition", Int32), Field("fetch_offset", Int64),
             Field("partition_max_bytes", Int32)>>)

FetchRequestTopic ==
    Struct(<<Field("topic", String(Never)),
             Field("partitions", Vec(Never, FetchRequestPartition))>>)

FetchRequest ==
    Struct(<<Field("replica_id", Int32), Field("max_wait_ms", Int32),
             Field("min_bytes", Int32), Since(3, "max_bytes", Int32),
             Since(4, "isolation_level", Int8), Field("topics", Vec(Never, FetchRequestTopic))>>)

FetchResponseAbortedTransaction ==
    Struct(<<Field("producer_id", Int64), Field("first_offset", Int64)>>)

FetchResponsePartition ==
    Struct(<<Field("partition_index", Int32), Field("error_code", Int16),
             Field("high_watermark", Int64), Since(4, "last_stable_offset", Int64),
             Since(4, "aborted_transactions", Vec(Never, FetchResponseAbortedTransaction)),
             Field("records", Batches)>>)

FetchResponseTopic ==
    Struct(<<Field("topic", String(Never)),
             Field("partitions", Vec(Never, FetchResponsePartition))>>)

FetchResponse ==
    Struct(<<Since(1, "throttle_time_ms", Int32),
             Field("responses", Vec(Never, FetchResponseTopic))>>)

\* max_num_offsets is asked for by version 0 only.
ListOffsetsRequestPartition ==
    Struct(<<Field("partition_index", Int32), Field("timestamp", Int64),
             [Field("max_num_offsets", Int32) EXCEPT !.until = 1, !.default = 1]>>)

ListOffsetsRequestTopic ==
    Struct(<<Field("name", String(Never)),
             Field("partitions", Vec(Never, ListOffsetsRequestPartition))>>)

ListOffsetsRequest ==
    Struct(<<Field("replica_id", Int32), Since(2, "isolation_level", Int8),
             Field("topics", Vec(Never, ListOffsetsRequestTopic))>>)

ListOffsetsResponsePartition ==
    Struct(<<Field("partition_index", Int32), Field("error_code", Int16),
             [Field("old_style_offsets", Array(Never, Int64)) EXCEPT !.until = 1],
             Since(1, "timestamp", Int64), Since(1, "offset", Int64)>>)

ListOffsetsResponseTopic ==
    Struct(<<Field("name", String(Never)),
             Field("partitions", Vec(Never, ListOffsetsResponsePartition))>>)

ListOffsetsResponse ==
    Struct(<<Since(2, "throttle_time_ms", Int32),
             Field("topics", Vec(Never, ListOffsetsResponseTopic))>>)

DeleteRequestPartition ==
    Struct(<<Field("partition_index", Int32), Field("offset", Int64), TaggedFields(2)>>)

DeleteRequestTopic ==
    Struct(<<Field("name", String(2)), Field("partitions", Vec(2, DeleteRequestPartition)),
             TaggedFields(2)>>)

DeleteRecordsRequest ==
    Struct(<<Field("topics", Vec(2, DeleteRequestTopic)), Field("timeout_ms", Int32),
             TaggedFields(2)>>)

DeleteResponsePartition ==
    Struct(<<Field("partition_index", Int32), Field("low_watermark", Int64),
             Field("error", Int16), TaggedFields(2)>>)

DeleteResponseTopic ==
    Struct(<<Field("name", String(2)), Field("partitions", Vec(2, DeleteResponsePartition)),
             TaggedFields(2)>>)

DeleteRecordsResponse ==
    Struct(<<Field("throttle_time_ms", Int32), Field("topics", Vec(2, DeleteResponseTopic)),
             TaggedFields(2)>>)

-----------------------------------------------------------------------------
(* Requests to the controller                                              *)

CreateTopicAssignment ==
    Struct(<<Field("partition_index", Int32), Field("broker_ids", Array(5, Int32)),
             TaggedFields(5)>>)

CreateTopicConfig ==
    Struct(<<Field("name", String(5)), Field("value", NullableString(5)), TaggedFields(5)>>)

CreateTopicRequest ==
    Struct(<<Field("name", String(5)), Field("num_partitions", Int32),
             Field("replication_factor", Int16),
             Field("assignments", Vec(5, CreateTopicAssignment)),
             Field("configs", Vec(5, CreateTopicConfig)), TaggedFields(5)>>)

CreateTopicsRequest ==
    Struct(<<Field("topics", Vec(5, CreateTopicRequest)), Field("timeout_ms", Int32),
             [Since(1, "validate_only", Boolean) EXCEPT !.default = FALSE, !.checked = TRUE],
             TaggedFields(5)>>)

CreateTopicResponseConfig ==
    Struct(<<Field("name", String(5)), Field("value", NullableString(5)),
             Field("read_only", Boolean), Field("config_source", Int8),
             Field("is_sensitive", Boolean), TaggedFields(5)>>)

CreateTopicResponse ==
    Struct(<<Field("name", String(5)), Field("error", Int16),
             Since(1, "error_message", NullableString(5)), Since(5, "num_partitions", Int32),
             Since(5, "replication_factor", Int16),
             Since(5, "configs", Vec(5, CreateTopicResponseConfig)), TaggedFields(5)>>)

CreateTopicsResponse ==
    Struct(<<Since(2, "throttle_time_ms", Int32), Field("topics", Vec(5, CreateTopicResponse)),
             TaggedFields(5)>>)

DeleteTopicsRequest ==
    Struct(<<Field("topic_names", Array(4, String(4))), Field("timeout_ms", Int32),
             TaggedFields(4)>>)

DeleteTopicsResponseTopic ==
    Struct(<<Field("name", String(4)), Field("error", Int16),
             Since(5, "error_message", NullableString(4)), TaggedFields(4)>>)

DeleteTopicsResponse ==
    Struct(<<Since(1, "throttle_time_ms", Int32),
             Field("responses", Vec(4, DeleteTopicsResponseTopic)), TaggedFields(4)>>)

-----------------------------------------------------------------------------
(* Metadata                                                                *)

MetadataRequestTopic == Struct(<<Field("name", String(Never))>>)

MetadataRequest ==
    Struct(<<Field("topics", Array(Never, MetadataRequestTopic)),
             [Since(4, "allow_auto_topic_creation", Boolean)
                 EXCEPT !.default = TRUE, !.checked = TRUE]>>)

MetadataResponseBroker ==
    Struct(<<Field("node_id", Int32), Field("host", String(Never)), Field("port", Int32),
             Since(1, "rack", NullableString(Never))>>)

MetadataResponsePartition ==
    Struct(<<Field("error", Int16), Field("partition_index", Int32), Field("leader_id", Int32),
             Field("replica_nodes", Array(Never, Int32)), Field("isr_nodes", Array(Never, Int32))>>)

MetadataResponseTopic ==
    Struct(<<Field("error", Int16), Field("name", String(Never)), Since(1, "is_internal", Boolean),
             Field("partitions", Vec(Never, MetadataResponsePartition))>>)

MetadataResponse ==
    Struct(<<Since(3, "throttle_time_ms", Int32),
             Field("brokers", Vec(Never, MetadataResponseBroker)),
             Since(2, "cluster_id", NullableString(Never)), Since(1, "controller_id", Int32),
             Field("topics", Vec(Never, MetadataResponseTopic))>>)

-----------------------------------------------------------------------------
\* RequestBody: the API key, the versions the crate implements, and the first
\* version whose request and response header has tagged fields.
Api(key, min, max, tagged, request, response) ==
    [key |-> key, min |-> min, max |-> max, tagged_request |-> tagged,
     tagged_response |-> tagged, request |-> request, response |-> response]

ProduceApi == Api(0, 3, 7, 9, ProduceRequest, ProduceResponse)
FetchApi == Api(1, 4, 4, 12, FetchRequest, FetchResponse)
ListOffsetsApi == Api(2, 0, 3, 6, ListOffsetsRequest, ListOffsetsResponse)
MetadataApi == Api(3, 0, 4, 9, MetadataRequest, MetadataResponse)
SaslHandshakeApi == Api(17, 1, 1, 3, SaslHandshakeRequest, SaslHandshakeResponse)
CreateTopicsApi == Api(19, 0, 5, 5, CreateTopicsRequest, CreateTopicsResponse)
DeleteTopicsApi == Api(20, 0, 5, 4, DeleteTopicsRequest, DeleteTopicsResponse)
DeleteRecordsApi == Api(21, 0, 2, 2, DeleteRecordsRequest, DeleteRecordsResponse)
SaslAuthenticateApi == Api(36, 0, 2, 2, SaslAuthenticateRequest, SaslAuthenticateResponse)

\* "It seems version 3 actually doesn't use tagged fields during response"
ApiVersionsApi ==
    [Api(18, 0, 3, 3, ApiVersionsRequest, ApiVersionsResponse) EXCEPT !.tagged_response = Never]

Apis ==
    <<ProduceApi, FetchApi, ListOffsetsApi, MetadataApi, SaslHandshakeApi, ApiVersionsApi,
      CreateTopicsApi, DeleteTopicsApi, DeleteRecordsApi, SaslAuthenticateApi>>
=============================================================================
