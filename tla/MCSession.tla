----------------------------- MODULE MCSession -----------------------------
(* Session with brokers of every age, every call, and batches of every kind *)
(* the codec tells apart.                                                   *)
EXTENDS Session

MCTopic == <<1, 2>>
MCOtherTopic == <<3>>
MCMechanism == <<80, 45, 49>>

MCRecord(key, value, headers) ==
    [timestamp_delta |-> 1, offset_delta |-> 0, key |-> key, value |-> value,
     headers |-> headers]

MCBatch(offset, first, compression, control, records) ==
    [base_offset |-> offset, partition_leader_epoch |-> 1, last_offset_delta |-> 1,
     first_timestamp |-> first, max_timestamp |-> 6, producer |-> 8,
     compression |-> compression, log_append_time |-> compression = Snappy,
     is_transactional |-> control # "no", control |-> control, records |-> records]

MCHeaders == <<[key |-> <<7>>, value |-> <<>>], [key |-> <<7>>, value |-> <<4>>]>>

MCPlain ==
    MCBatch(4, 5, NoCompression, "no",
            <<MCRecord(Null, <<5, 8>>, <<>>),
              [MCRecord(<<>>, Null, MCHeaders) EXCEPT !.offset_delta = 1]>>)

MCPacked == MCBatch(3, 5, Snappy, "no", <<MCRecord(<<9>>, <<5>>, <<>>)>>)

MCEntries ==
    {[batch |-> MCPlain, java |-> FALSE],
     [batch |-> MCPacked, java |-> FALSE],
     [batch |-> [MCPacked EXCEPT !.base_offset = 6], java |-> TRUE],
     [batch |-> MCBatch(5, MaxLong, Gzip, "no", <<MCRecord(<<9>>, Null, <<>>)>>), java |-> FALSE],
     [batch |-> MCBatch(7, 5, NoCompression, "commit", <<>>), java |-> FALSE]}

-----------------------------------------------------------------------------
MCCallRecord(timestamp, headers) ==
    [timestamp |-> timestamp, key |-> <<1>>, value |-> Null, headers |-> headers]

MCOn(op) == [op |-> op, topic |-> MCTopic, partition |-> 4]

MCProduce ==
    MCOn("produce") @@
    [compression |-> Snappy,
     records |-> <<MCCallRecord(9, <<>>), MCCallRecord(8, <<[key |-> <<7>>, value |-> <<2>>]>>)>>]

MCFetch ==
    MCOn("fetch_records") @@ [offset |-> 5, max_wait_ms |-> 3, min_bytes |-> 1, end_bytes |-> 9]

MCCalls ==
    <<MCProduce, MCFetch, MCOn("get_offset") @@ [at |-> "latest"],
      MCOn("delete_records") @@ [offset |-> 5, timeout_ms |-> 3],
      MCOn("create_topic") @@ [num_partitions |-> 2, replication_factor |-> 1, timeout_ms |-> 3],
      MCOn("delete_topic") @@ [timeout_ms |-> 3], [op |-> "list_topics", topics |-> Null]>>

MCRange(min, max) == [min |-> min, max |-> max]

\* A broker with the newest ApiVersions, one version of SASL and the given range for the
\* call's API.
MCTable(call, range) ==
    (ApiOf(call).key :> range) @@ (ApiVersionsApi.key :> MCRange(0, 4))

MCProfile(call, range) ==
    [call |-> call, table |-> MCTable(call, range), tags |-> <<>>, sasl |-> Null,
     mechanisms |-> Null, stray |-> Null, closes |-> FALSE, busy |-> FALSE, stored |-> FALSE]

MCTags == {<<>>, <<[tag |-> 3, data |-> <<1, 2>>]>>}

\* Every call with every version it may end up with, and without one.
MCVersions ==
    UNION {{[MCProfile(MCCalls[i], MCRange(min, max)) EXCEPT !.tags = tags] :
               min \in {0, 2, 8}, max \in 0..8, tags \in MCTags} :
           i \in DOMAIN MCCalls}

MCOld ==
    {[MCProfile(MCCalls[3], MCRange(0, 9)) EXCEPT
         !.table[ApiVersionsApi.key] = MCRange(0, max), !.busy = TRUE, !.stray = stray, !.tags = tags] :
        max \in 0..4, stray \in {Null, <<0>>, <<0, 0, 1, 0, 3>>}, tags \in MCTags}

MCSasl ==
    {[MCProfile(MCCalls[6], MCRange(0, 9)) EXCEPT
         !.table = @ @@ (SaslHandshakeApi.key :> MCRange(0, handshake))
                     @@ (SaslAuthenticateApi.key :> MCRange(0, max)),
         !.sasl = [rounds |-> n], !.mechanisms = mechanisms, !.tags = tags] :
        handshake \in 0..1, max \in 0..3, n \in 0..2, tags \in MCTags,
        mechanisms \in {Null, <<>>, <<<<65>>, MCMechanism>>, <<MCMechanism, <<97>>>>}}

MCCloses == {[MCProfile(MCCalls[i], MCRange(0, 9)) EXCEPT !.closes = TRUE, !.busy = TRUE] : i \in {1, 7}}

MCStored == {[MCProfile(MCFetch, MCRange(0, 9)) EXCEPT !.stored = TRUE]}

MCProfiles == MCVersions \cup MCOld \cup MCSasl \cup MCCloses \cup MCStored
=============================================================================
