------------------------------ MODULE Requests ------------------------------
(***************************************************************************)
(* The calls of PartitionClient (src/client/partition.rs), ControllerClient*)
(* (src/client/controller.rs) and Client (src/client/mod.rs): the request  *)
(* each one builds and what it makes of the response.                      *)
(*                                                                         *)
(* A call is a record with the operation and its arguments.  Its outcome is*)
(* a status and a sequence of values: offsets, records or topics.          *)
(***************************************************************************)
EXTENDS Messages

Outcome(status, value) == [status |-> status, value |-> value]

Ok(value) == Outcome("ok", value)

Err(status) == Outcome(status, <<>>)

\* Variant of exactly_one: further elements are not noticed.
at_least_one(list) == Len(list) >= 1

exactly_one(list) == Len(list) = 1

\* `list.exactly_one().map_err(...)?', with what the caller does next.
ExactlyOne(list, Rest(_)) ==
    IF exactly_one(list) THEN Rest(list[1]) ELSE Err("invalid_response")

\* maybe_throttle: a negative time is ignored.
Throttled(throttle_time_ms) ==
    IF throttle_time_ms = Absent THEN FALSE ELSE throttle_time_ms > 0

-----------------------------------------------------------------------------
(* produce                                                                 *)

\* The batch of build_produce_request; headers come in the order of their keys, timestamps are relative to the first record.
ProducedBatch(call) ==
    LET first == call.records[1].timestamp
        record(i) ==
            [key |-> call.records[i].key, value |-> call.records[i].value,
             headers |-> call.records[i].headers, offset_delta |-> i - 1,
             timestamp_delta |-> call.records[i].timestamp - first]
    IN  [base_offset |-> 0, partition_leader_epoch |-> 0,
         last_offset_delta |-> Len(call.records) - 1, first_timestamp |-> first,
         max_timestamp |-> Max({call.records[i].timestamp : i \in DOMAIN call.records}),
         producer |-> Byte - 1, compression |-> call.compression, log_append_time |-> FALSE,
         is_transactional |-> FALSE, control |-> "no",
         records |-> [i \in DOMAIN call.records |-> record(i)]]

build_produce_request(call) ==
    [transactional_id |-> Null, acks |-> -1, timeout_ms |-> 30000,
     topic_data |-> <<[name |-> call.topic,
         partition_data |-> <<[index |-> call.partition,
             records |-> WriteBatch(ProducedBatch(call), FALSE)]>>]>>]

process_produce_response(call, response) ==
    ExactlyOne(response.responses, LAMBDA topic :
        IF topic.name # call.topic THEN Err("invalid_response")
        ELSE ExactlyOne(topic.partition_responses, LAMBDA partition :
            IF partition.index # call.partition THEN Err("invalid_response")
            ELSE IF partition.error # 0 THEN Err("server_error")
            ELSE Ok([i \in DOMAIN call.records |-> partition.base_offset + i - 1])))

-----------------------------------------------------------------------------
(* fetch_records                                                           *)

\* `bytes' is a range; its end is exclusive.
build_fetch_request(call) ==
    [replica_id |-> -1, max_wait_ms |-> call.max_wait_ms, min_bytes |-> call.min_bytes,
     max_bytes |-> call.end_bytes - 1, isolation_level |-> 1,
     topics |-> <<[topic |-> call.topic,
         partitions |-> <<[partition |-> call.partition, fetch_offset |-> call.offset,
             partition_max_bytes |-> call.end_bytes - 1]>>]>>]

\* The largest Int64.
MaxLong == Base * Byte ^ (LongBytes - 1) - 1

\* Variant of Wanted: records before the requested offset are returned as well.
WantedAll(call, batch, record) == TRUE

\* "Kafka does not split record batches on the server side"
Wanted(call, batch, record) == batch.base_offset + record.offset_delta >= call.offset

\* A map: the last of several headers with the same key stays.
HeaderMap(headers) ==
    [key \in {headers[i].key : i \in DOMAIN headers} |->
        headers[Max({i \in DOMAIN headers : headers[i].key = key})].value]

\* extract_records: the wanted records of the batches that are not control batches.
extract_records(call, batches) ==
    LET wanted(b) == SelectSeq(b.records, LAMBDA r : Wanted(call, b, r))
        record(b, r) ==
            [offset |-> b.base_offset + r.offset_delta, key |-> r.key, value |-> r.value,
             headers |-> HeaderMap(r.headers), timestamp |-> b.first_timestamp + r.timestamp_delta]
        ofBatch(b) == [i \in DOMAIN wanted(b) |-> record(b, wanted(b)[i])]
        records == Joined([i \in DOMAIN batches |-> ofBatch(batches[i])])
    IN  IF \E i \in DOMAIN records : records[i].timestamp > MaxLong
        THEN Err("invalid_response") ELSE Ok(records)

process_fetch_response(call, response) ==
    ExactlyOne(response.responses, LAMBDA topic :
        IF topic.topic # call.topic THEN Err("invalid_response")
        ELSE ExactlyOne(topic.partitions, LAMBDA partition :
            IF partition.partition_index # call.partition THEN Err("invalid_response")
            ELSE IF partition.error_code # 0 THEN Err("server_error")
            ELSE extract_records(call, ReadBatches(partition.records).val)))

-----------------------------------------------------------------------------
(* get_offset                                                              *)

build_list_offsets_request(call) ==
    [replica_id |-> -1, isolation_level |-> 1,
     topics |-> <<[name |-> call.topic,
         partitions |-> <<[partition_index |-> call.partition,
             timestamp |-> IF call.at = "earliest" THEN -2 ELSE -1,
             max_num_offsets |-> 1]>>]>>]

\* extract_offset: unreachable!() unless exactly one of the two fields is there.
extract_offset(partition) ==
    CASE partition.old_style_offsets # Absent /\ partition.offset = Absent ->
             IF partition.old_style_offsets = Null THEN Err("invalid_response")
             ELSE ExactlyOne(partition.old_style_offsets, LAMBDA offset : Ok(<<offset>>))
      [] partition.old_style_offsets = Absent /\ partition.offset # Absent ->
             Ok(<<partition.offset>>)
      [] OTHER -> Err("panic")

process_list_offsets_response(call, response) ==
    ExactlyOne(response.topics, LAMBDA topic :
        IF topic.name # call.topic THEN Err("invalid_response")
        ELSE ExactlyOne(topic.partitions, LAMBDA partition :
            IF partition.partition_index # call.partition THEN Err("invalid_response")
            ELSE IF partition.error_code # 0 THEN Err("server_error")
            ELSE extract_offset(partition)))

-----------------------------------------------------------------------------
(* delete_records                                                          *)

build_delete_records_request(call) ==
    [topics |-> <<[name |-> call.topic, tagged_fields |-> Absent,
         partitions |-> <<[partition_index |-> call.partition, offset |-> call.offset,
             tagged_fields |-> Absent]>>]>>,
     timeout_ms |-> call.timeout_ms, tagged_fields |-> Absent]

process_delete_records_response(call, response) ==
    ExactlyOne(response.topics, LAMBDA topic :
        IF topic.name # call.topic THEN Err("invalid_response")
        ELSE ExactlyOne(topic.partitions, LAMBDA partition :
            IF partition.partition_index # call.partition THEN Err("invalid_response")
            ELSE IF partition.error # 0 THEN Err("server_error") ELSE Ok(<<>>)))

-----------------------------------------------------------------------------
(* create_topic and delete_topic do not look at the name in the answer     *)

create_topic_request(call) ==
    [topics |-> <<[name |-> call.topic, num_partitions |-> call.num_partitions,
         replication_factor |-> call.replication_factor, assignments |-> <<>>,
         configs |-> <<>>, tagged_fields |-> Absent]>>,
     timeout_ms |-> call.timeout_ms, validate_only |-> Absent, tagged_fields |-> Absent]

create_topic_response(response) ==
    ExactlyOne(response.topics, LAMBDA topic :
        IF topic.error # 0 THEN Err("server_error") ELSE Ok(<<>>))

delete_topic_request(call) ==
    [topic_names |-> <<call.topic>>, timeout_ms |-> call.timeout_ms, tagged_fields |-> Absent]

delete_topic_response(response) ==
    ExactlyOne(response.responses, LAMBDA topic :
        IF topic.error # 0 THEN Err("server_error") ELSE Ok(<<>>))

-----------------------------------------------------------------------------
(* Client::list_topics and BrokerConnector::request_metadata               *)

metadata_request(call) ==
    [topics |-> IF call.topics = Null THEN Null
                ELSE [i \in DOMAIN call.topics |-> [name |-> call.topics[i]]],
     allow_auto_topic_creation |-> Absent]

\* Internal topics are left out.
list_topics_response(response) ==
    LET shown == SelectSeq(response.topics, LAMBDA t :
                     IF t.is_internal = Absent THEN TRUE ELSE ~t.is_internal)
    IN  Ok([i \in DOMAIN shown |->
               [name |-> shown[i].name,
                partitions |-> [j \in DOMAIN shown[i].partitions |->
                                   shown[i].partitions[j].partition_index]]])

-----------------------------------------------------------------------------
ApiOf(call) ==
    CASE call.op = "produce" -> ProduceApi
      [] call.op = "fetch_records" -> FetchApi
      [] call.op = "get_offset" -> ListOffsetsApi
      [] call.op = "delete_records" -> DeleteRecordsApi
      [] call.op = "create_topic" -> CreateTopicsApi
      [] call.op = "delete_topic" -> DeleteTopicsApi
      [] call.op = "list_topics" -> MetadataApi

Request(call) ==
    CASE call.op = "produce" -> build_produce_request(call)
      [] call.op = "fetch_records" -> build_fetch_request(call)
      [] call.op = "get_offset" -> build_list_offsets_request(call)
      [] call.op = "delete_records" -> build_delete_records_request(call)
      [] call.op = "create_topic" -> create_topic_request(call)
      [] call.op = "delete_topic" -> delete_topic_request(call)
      [] call.op = "list_topics" -> metadata_request(call)

\* Every call sleeps and retries when it is throttled, before it looks at the rest.
Process(call, response) ==
    IF Throttled(response.throttle_time_ms) THEN Err("throttle")
    ELSE CASE call.op = "produce" -> process_produce_response(call, response)
           [] call.op = "fetch_records" -> process_fetch_response(call, response)
           [] call.op = "get_offset" -> process_list_offsets_response(call, response)
           [] call.op = "delete_records" -> process_delete_records_response(call, response)
           [] call.op = "create_topic" -> create_topic_response(response)
           [] call.op = "delete_topic" -> delete_topic_response(response)
           [] call.op = "list_topics" -> list_topics_response(response)
=============================================================================
