--------------------------- MODULE StreamConsumer ----------------------------
(***************************************************************************)
(* StreamConsumer::poll_next (src/client/consumer.rs) over                 *)
(* PartitionClient::fetch_records and get_offset (src/client/partition.rs),*)
(* with a partition whose log grows and is truncated at its front while    *)
(* the stream is read.  The log is external: a fixed sequence of record    *)
(* batches, of which more and more are visible.  Retries below             *)
(* fetch_records are the subject of PartitionClient, and the pause before  *)
(* a repeated fetch is only a delay.                                       *)
(***************************************************************************)
EXTENDS Integers, Sequences, FiniteSets, FiniteSetsExt, Functions

CONSTANTS
    Log,            \* batches: first and last offset, the offsets that hold a
                    \* record, size, and whether it is a control batch
    StartOffsets,   \* those to check: kind "Earliest", "Latest" or "At", and at
    MaxBatchSize,
    MaxFaults       \* errors other than OffsetOutOfRange (bound)

None == -1

\* Batches are not empty and follow each other without a gap.
ASSUME ConsumerAssumption ==
    /\ Len(Log) \in Nat /\ DOMAIN Log = 1 .. Len(Log)
    /\ \A i \in 1 .. Len(Log) :
          /\ Log[i].first \in Nat /\ Log[i].last \in Nat /\ Log[i].first <= Log[i].last
          /\ Log[i].offsets \subseteq Log[i].first .. Log[i].last
          /\ Log[i].first = IF i = 1 THEN 0 ELSE Log[i - 1].last + 1
    /\ \A s \in StartOffsets : s.kind \in {"Earliest", "Latest", "At"} /\ s.at \in Nat
    /\ MaxBatchSize \in Nat \ {0} /\ MaxFaults \in Nat

VARIABLES
    visible,        \* number of batches below the last stable offset
    log_start,
    start_offset, next_offset, terminated, last_high_watermark, buffer,
    fut,            \* fetch_fut: "none", what it waits for, or "ready"
    offset,         \* the offset the future fetches at
    result,         \* what the future returned
    faults,
    delivered       \* offsets yielded by the stream

log_vars == <<visible, log_start>>
stream_vars == <<start_offset, next_offset, terminated, last_high_watermark, buffer>>
vars == <<log_vars, stream_vars, fut, offset, result, faults, delivered>>

Watermark == IF visible = 0 THEN 0 ELSE Log[visible].last + 1

\* The offsets of the records a reader is to see.
DataOffsets(batches) ==
    UNION {batches[i].offsets : i \in {j \in DOMAIN batches : ~batches[j].control}}

NoResult == [kind |-> "none"]

\* StreamConsumerBuilder::build
Init ==
    /\ visible \in 0 .. Len(Log) /\ log_start = 0
    /\ start_offset \in StartOffsets
    /\ next_offset = None
    /\ terminated = FALSE
    /\ last_high_watermark = -1
    /\ buffer = <<>>
    /\ fut = "none" /\ offset = None /\ result = NoResult
    /\ faults = 0
    /\ delivered = <<>>

-----------------------------------------------------------------------------
(* The log (external)                                                      *)

Append1 ==
    /\ visible < Len(Log)
    /\ visible' = visible + 1
    /\ UNCHANGED <<log_start, stream_vars, fut, offset, result, faults, delivered>>

\* Retention or DeleteRecords; the new start may lie inside a batch.
Delete ==
    /\ \E o \in log_start + 1 .. Watermark : log_start' = o
    /\ UNCHANGED <<visible, stream_vars, fut, offset, result, faults, delivered>>

Fit(lo, hi, max_bytes) == MapThenSumSet(LAMBDA i : Log[i].size, lo .. hi) <= max_bytes

\* The batches a broker returns: whole ones, from the one that contains the offset
\* on, the first in any case and more as long as they fit.
FetchBatches(o, max_bytes) ==
    LET from == {i \in 1 .. visible : Log[i].last >= o}
        lo   == Min(from)
    IN  IF from = {} THEN <<>>
        ELSE SubSeq(Log, lo, Max({hi \in from : hi = lo \/ Fit(lo, hi, max_bytes)}))

-----------------------------------------------------------------------------
(* fetch_records and get_offset                                            *)

\* extract_records: control batches are ignored, as are records of the first batch
\* that lie before the requested offset.
ExtractRecords(batches, request_offset) ==
    {o \in DataOffsets(batches) : o >= request_offset}

Fail ==
    /\ faults < MaxFaults
    /\ faults' = faults + 1
    /\ fut' = "ready" /\ result' = [kind |-> "error"]

\* get_offset
Resolve ==
    /\ fut = "resolve"
    /\ \/ /\ offset' = IF start_offset.kind = "Earliest" THEN log_start ELSE Watermark
          /\ fut' = "fetch"
          /\ UNCHANGED <<result, faults>>
       \/ Fail /\ UNCHANGED offset
    /\ UNCHANGED <<log_vars, stream_vars, delivered>>

\* fetch_records
Fetch ==
    /\ fut = "fetch"
    /\ \/ /\ offset \in log_start .. Watermark
          /\ result' = [kind |-> "ok", watermark |-> Watermark,
                        records |-> ExtractRecords(FetchBatches(offset, MaxBatchSize - 1),
                                                   offset)]
          /\ fut' = "ready" /\ UNCHANGED faults
       \/ /\ offset \notin log_start .. Watermark
          /\ result' = [kind |-> "out_of_range"]
          /\ fut' = "ready" /\ UNCHANGED faults
       \/ Fail
    /\ UNCHANGED <<log_vars, stream_vars, offset, delivered>>

-----------------------------------------------------------------------------
(* poll_next                                                               *)

Yield ==
    /\ ~terminated /\ buffer # <<>>
    /\ delivered' = Append(delivered, Head(buffer))
    /\ buffer' = Tail(buffer)
    /\ UNCHANGED <<log_vars, start_offset, next_offset, terminated, last_high_watermark, fut,
                   offset, result, faults>>

\* A new future, which captures the offset.
StartFetch ==
    /\ ~terminated /\ buffer = <<>> /\ fut = "none"
    /\ \/ next_offset # None /\ fut' = "fetch" /\ offset' = next_offset
       \/ /\ next_offset = None
          /\ IF start_offset.kind # "At"
             THEN fut' = "resolve" /\ UNCHANGED offset
             ELSE fut' = "fetch" /\ offset' = start_offset.at
    /\ UNCHANGED <<log_vars, stream_vars, result, faults, delivered>>

\* Variant: the last record is fetched again.
NextOffsetSame(records, used_offset) ==
    IF records = <<>> THEN used_offset ELSE records[Len(records)]

\* Variant: the next fetch starts at the watermark.
NextOffsetWatermark(records, used_offset) ==
    IF records = <<>> THEN used_offset ELSE result.watermark

\* The offset of the next fetch.
NextOffset(records, used_offset) ==
    IF records = <<>> THEN used_offset ELSE records[Len(records)] + 1

\* Variant: out of range is retried where it happened.
RestartOffsetSame == next_offset

\* After out of range the start offset is resolved again.
RestartOffset == None

\* records_and_offsets.sort_by_key
Sorted(records) ==
    CHOOSE s \in [1 .. Cardinality(records) -> records] :
        \A i, j \in DOMAIN s : i < j => s[i] < s[j]

\* The future is done.  Out of range starts over unless the stream starts at a
\* given offset; any other error ends the stream.
Complete ==
    /\ ~terminated /\ fut = "ready"
    /\ fut' = "none" /\ result' = NoResult
    /\ \/ /\ result.kind = "ok"
          /\ LET records == Sorted(result.records) IN
             /\ next_offset' = NextOffset(records, offset)
             /\ buffer' = buffer \o records
          /\ last_high_watermark' = result.watermark
          /\ UNCHANGED terminated
       \/ /\ result.kind = "out_of_range" /\ start_offset.kind # "At"
          /\ next_offset' = RestartOffset
          /\ UNCHANGED <<terminated, last_high_watermark, buffer>>
       \/ /\ \/ result.kind = "error"
             \/ result.kind = "out_of_range" /\ start_offset.kind = "At"
          /\ terminated' = TRUE
          /\ UNCHANGED <<next_offset, last_high_watermark, buffer>>
    /\ UNCHANGED <<log_vars, start_offset, offset, faults, delivered>>

Ended == terminated /\ UNCHANGED vars

Poll == Yield \/ StartFetch \/ Resolve \/ Fetch \/ Complete

Next == Append1 \/ Delete \/ Poll \/ Ended

Spec == Init /\ [][Next]_vars

\* The stream is polled, and requests are answered.
FairSpec == Spec /\ WF_vars(Poll)

-----------------------------------------------------------------------------
(* Properties                                                              *)

\* Where the stream began to read, for streams that are to read everything.
FirstOffset == IF start_offset.kind = "Earliest" THEN 0 ELSE start_offset.at

\* Only data records are yielded, none twice or before an earlier one, across
\* fetches, partial batches and restarts after OffsetOutOfRange.
DeliversInOrder ==
    /\ Range(delivered) \subseteq DataOffsets(Log)
    /\ \A i, j \in DOMAIN delivered : i < j => delivered[i] < delivered[j]

\* A record that a stream has passed over without yielding it was deleted (streams
\* from the earliest or from a given offset).
NoGap ==
    start_offset.kind # "Latest" =>
        \A j \in DOMAIN delivered :
            \A o \in DataOffsets(Log) \cap FirstOffset .. delivered[j] :
                o \in Range(delivered) \/ o < log_start

\* "Stream consuming data from start offset": a stream that is polled gets to every
\* record that stays in the log.
ReadsOn ==
    \A o \in DataOffsets(Log) :
        start_offset.kind # "Latest" /\ FirstOffset <= o /\ o < Watermark
            ~> o \in Range(delivered) \/ o < log_start \/ terminated
=============================================================================
