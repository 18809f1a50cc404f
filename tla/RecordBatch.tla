----------------------------- MODULE RecordBatch -----------------------------
(***************************************************************************)
(* The record codec: src/protocol/record.rs and Records of primitives.rs.  *)
(*                                                                         *)
(* Fields that are only copied are folded: the byte `producer' stands for  *)
(* producer_id, producer_epoch and base_sequence.  The checksum is the sum *)
(* of the bytes and their number, which like CRC-32C notices a change of   *)
(* any single byte.  Gzip, LZ4 and zstd share one shape: an external       *)
(* encoder that delimits its own block.  Raw Snappy is its real frame, a   *)
(* varint with the uncompressed size and then literals.                    *)
(***************************************************************************)
EXTENDS Primitives, SequencesExt

CONSTANTS StartBlock,  \* first output buffer of carefully_decompress_snappy
          JavaChunk    \* uncompressed units per chunk of the Java encoder

ASSUME BlockAssumption == {StartBlock, JavaChunk} \subseteq Nat \ {0}

NoCompression == 0
Gzip == 1
Snappy == 2
Lz4 == 3
Zstd == 4

-----------------------------------------------------------------------------
\* Option<Vec<u8>> behind a Varint length, -1 for None.
WriteOptional(b) ==
    IF b = Null THEN WriteVarint(-1) ELSE WriteVarint(Len(b)) \o b

ReadOptional(s, p) ==
    Then(ReadVarint(s, p), LAMBDA len, q :
        IF len = -1 THEN Done(Null, q) ELSE ReadExact(s, q, len))

WriteHeader(h) ==
    WriteVarint(Len(h.key)) \o h.key \o WriteVarint(Len(h.value)) \o h.value

ReadHeader(s, p) ==
    LET bytes(at) == Then(ReadVarint(s, at), LAMBDA len, q : ReadExact(s, q, len))
    IN  Then(bytes(p), LAMBDA key, q :
        Then(bytes(q), LAMBDA value, end : Done([key |-> key, value |-> value], end)))

\* Record::write collects the fields to learn their length.
WriteRecord(r) ==
    LET data == <<0>> \o WriteVarint(r.timestamp_delta) \o WriteVarint(r.offset_delta)
                \o WriteOptional(r.key) \o WriteOptional(r.value)
                \o WriteVarint(Len(r.headers))
                \o Joined([i \in DOMAIN r.headers |-> WriteHeader(r.headers[i])])
    IN  WriteVarint(Len(data)) \o data

\* Record::read works on reader.take(len) and insists that it is used up.
ReadFields(s, start) ==
    Then(ReadInt(s, start, 1), LAMBDA attributes, p0 :
    Then(ReadVarlong(s, p0), LAMBDA timestamp_delta, p1 :
    Then(ReadVarint(s, p1), LAMBDA offset_delta, p2 :
    Then(ReadOptional(s, p2), LAMBDA key, p3 :
    Then(ReadOptional(s, p3), LAMBDA value, p4 :
    Then(ReadVarint(s, p4), LAMBDA n, p5 :
    Then(ReadMany(s, p5, n, ReadHeader), LAMBDA headers, end :
        Done([timestamp_delta |-> timestamp_delta, offset_delta |-> offset_delta,
              key |-> key, value |-> value, headers |-> headers], end))))))))

ReadRecord(s, p) ==
    Then(ReadVarint(s, p), LAMBDA len, start :
        IF len < 0 THEN Fail(Malformed)
        ELSE Then(ReadFields(SubSeq(s, 1, Min({start + len, Len(s)})), start),
                  LAMBDA record, end :
                      IF end < start + len THEN Fail(Malformed) ELSE Done(record, end)))

ControlTypes == <<"abort", "commit">>

\* ControlBatchRecord: a version and a type.
WriteControl(control) == WriteInt(0, 2) \o WriteInt(IF control = "abort" THEN 0 ELSE 1, 2)

ReadControl(s, p) ==
    Then(ReadInt(s, p, 2), LAMBDA version, q :
        IF version # 0 THEN Fail(Malformed)
        ELSE Then(ReadInt(s, q, 2), LAMBDA type, end :
                 IF type \notin {0, 1} THEN Fail(Malformed)
                 ELSE Done(ControlTypes[type + 1], end)))

IsControl(b) == b.control # "no"

WriteBlockRecords(b) ==
    IF IsControl(b) THEN WriteControl(b.control)
    ELSE Joined([i \in DOMAIN b.records |-> WriteRecord(b.records[i])])

\* RecordBatchBody::read_records
ReadBlockRecords(s, p, isControl, n) ==
    IF ~isControl
    THEN Then(ReadMany(s, p, n, ReadRecord), LAMBDA records, end :
             Done([control |-> "no", records |-> records], end))
    ELSE IF n # 1 THEN Fail(Malformed)
    ELSE Then(ReadControl(s, p), LAMBDA control, end :
             Done([control |-> control, records |-> <<>>], end))

-----------------------------------------------------------------------------
\* What the encoders put on the wire.  The crate never writes the chunked
\* format of the Java Snappy library, other producers do.
JavaMagic == 99

RawSnappy(data) == WriteUnsignedVarint[Len(data)] \o data

JavaSnappy(data) ==
    LET chunks == (Len(data) + JavaChunk - 1) \div JavaChunk
        chunk(i) == RawSnappy(SubSeq(data, (i - 1) * JavaChunk + 1,
                                     Min({i * JavaChunk, Len(data)})))
    IN  <<JavaMagic, 1, 1>>
        \o Joined([i \in 1..chunks |-> WriteInt(Len(chunk(i)), 4) \o chunk(i)])

Compress(compression, java, data) ==
    CASE compression = NoCompression -> data
      [] compression = Snappy /\ java -> JavaSnappy(data)
      [] compression = Snappy /\ ~java -> RawSnappy(data)
      [] OTHER -> <<compression>> \o data \o <<Len(data)>>

\* The loop of carefully_decompress_snappy: the decoder is given output buffers of
\* StartBlock, twice that, ... units, never more than the declared size, for as
\* long as it finds them too small.
GrowOutput(declared, payload) ==
    LET max(i) == StartBlock * 2 ^ i
        try(i) == Min({declared, max(i)})
        enough == Min({i \in 0..Width : Len(payload) <= try(i) \/ max(i) >= declared})
    IN  IF Len(payload) # try(enough) \/ Len(payload) # declared THEN Fail(Malformed)
        ELSE Done(payload, declared)

\* carefully_decompress_snappy: the declared size is cut off by its canonical length.
CarefullyDecompressSnappy(input) ==
    LET declared == ReadUnsignedVarint(input, 0)
    IN  IF input = <<>> \/ declared.pos < 0 THEN Fail(Malformed)
        ELSE GrowOutput(declared.val,
                        SubSeq(input, Len(WriteUnsignedVarint[declared.val]) + 1, Len(input)))

\* The loop over the chunks of the Java format, from position p of its content.
ReadJavaChunks(content, p) ==
    LET from[q \in 0..Len(content)] ==
            IF q = Len(content) THEN Done(<<>>, q)
            ELSE Then(ReadInt(content, q, 4), LAMBDA len, at :
                     IF len > Len(content) - at THEN Fail(Malformed)
                     ELSE Then(ReadExact(content, at, len), LAMBDA input, next :
                          Then(CarefullyDecompressSnappy(input), LAMBDA data, end :
                          Then(from[next], LAMBDA rest, all : Done(data \o rest, all)))))
    IN  from[p]

ReadSnappy(input) ==
    IF Len(input) = 0 \/ Head(input) # JavaMagic THEN CarefullyDecompressSnappy(input)
    ELSE IF Len(input) < 3 THEN Fail(Eof)
    ELSE IF SubSeq(input, 2, 3) # <<1, 1>> THEN Fail(Malformed)
    ELSE ReadJavaChunks(input, 3)

\* The other decoders read their own block to its end.
ReadDelimited(input, compression) ==
    IF Len(input) < 2 THEN Fail(Eof)
    ELSE IF Head(input) # compression \/ Last(input) # Len(input) - 2 THEN Fail(Malformed)
    ELSE Done(SubSeq(input, 2, Len(input) - 1), Len(input))

Decompress(input, compression) ==
    CASE compression = NoCompression -> Done(input, 0)
      [] compression = Snappy -> ReadSnappy(input)
      [] OTHER -> ReadDelimited(input, compression)

\* The `match compression' of RecordBatchBody::read: the records are read from what
\* is left of the body; ensure_eof rejects leftovers of a decompressed block.
ReadBlock(s, p, compression, isControl, n) ==
    Then(Decompress(SubSeq(s, p + 1, Len(s)), compression), LAMBDA data, used :
    Then(ReadBlockRecords(data, 0, isControl, n), LAMBDA records, end :
        IF compression = NoCompression THEN Done(records, p + end)
        ELSE IF end # Len(data) THEN Fail(Malformed)
        ELSE Done(records, Len(s))))

-----------------------------------------------------------------------------
Bit(flag, n) == IF flag THEN 2 ^ n ELSE 0

HasBit(attributes, n) == (attributes \div 2 ^ n) % 2 = 1

\* RecordBatchBodyRef::write
WriteBody(b, java) ==
    LET attributes == b.compression + Bit(b.log_append_time, 3)
                      + Bit(b.is_transactional, 4) + Bit(IsControl(b), 5)
        n == IF IsControl(b) THEN 1 ELSE Len(b.records)
    IN  WriteInt(attributes, 2) \o WriteInt(b.last_offset_delta, 4)
        \o WriteInt(b.first_timestamp, LongBytes) \o WriteInt(b.max_timestamp, LongBytes)
        \o <<b.producer>> \o WriteInt(n, 4)
        \o Compress(b.compression, java, WriteBlockRecords(b))

\* RecordBatchBody::read
ReadBody(s, p) ==
    Then(ReadInt(s, p, 2), LAMBDA attributes, p0 :
        IF attributes % 8 > Zstd THEN Fail(Malformed)
        ELSE Then(ReadInt(s, p0, 4), LAMBDA last_offset_delta, p1 :
             Then(ReadInt(s, p1, LongBytes), LAMBDA first_timestamp, p2 :
             Then(ReadInt(s, p2, LongBytes), LAMBDA max_timestamp, p3 :
             Then(ReadExact(s, p3, 1), LAMBDA producer, p4 :
             Then(ReadInt(s, p4, 4), LAMBDA count, p5 :
                 IF count < -1 THEN Fail(Malformed)
                 ELSE Then(ReadBlock(s, p5, attributes % 8, HasBit(attributes, 5),
                                     Max({0, count})), LAMBDA block, end :
                     Done([last_offset_delta |-> last_offset_delta,
                           first_timestamp |-> first_timestamp,
                           max_timestamp |-> max_timestamp, producer |-> producer[1],
                           compression |-> attributes % 8,
                           log_append_time |-> HasBit(attributes, 3),
                           is_transactional |-> HasBit(attributes, 4)] @@ block, end))))))))

\* Variant of Crc: the checksum is taken before anything was written.
CrcOfNothing(data) == 0

Crc(data) ==
    LET sum[lo, hi \in 0..Len(data)] ==
            LET mid == (lo + hi) \div 2
            IN  IF hi - lo > 1 THEN sum[lo, mid] + sum[mid, hi]
                ELSE IF hi > lo THEN data[hi] ELSE 0
    IN  Len(data) + sum[0, Len(data)]

\* partitionLeaderEpoch, magic and crc are part of batchLength.
LengthOverhead == 9

\* RecordBatch::write
WriteBatch(b, java) ==
    LET data == WriteBody(b, java)
    IN  WriteInt(b.base_offset, LongBytes) \o WriteInt(Len(data) + LengthOverhead, 4)
        \o WriteInt(b.partition_leader_epoch, 4) \o <<2>> \o WriteInt(Crc(data), 4) \o data

\* RecordBatch::read
ReadBatch(s, p) ==
    Then(ReadInt(s, p, LongBytes), LAMBDA base_offset, p0 :
    Then(ReadInt(s, p0, 4), LAMBDA len, p1 :
        IF len < LengthOverhead THEN Fail(Malformed)
        ELSE Then(ReadInt(s, p1, 4), LAMBDA epoch, p2 :
             Then(ReadInt(s, p2, 1), LAMBDA magic, p3 :
                 IF magic # 2 THEN Fail(Malformed)
                 ELSE Then(ReadInt(s, p3, 4), LAMBDA crc, p4 :
                      Then(ReadExact(s, p4, len - LengthOverhead), LAMBDA data, end :
                          IF crc # Crc(data) THEN Fail(Malformed)
                          ELSE Then(ReadBody(data, 0), LAMBDA body, used :
                              IF used # Len(data) THEN Fail(Malformed)
                              ELSE Done([base_offset |-> base_offset,
                                         partition_leader_epoch |-> epoch] @@ body,
                                        end))))))))

-----------------------------------------------------------------------------
\* What Records::write puts into NullableBytes; an entry is a batch and whether its
\* producer used the Java Snappy encoder.
WriteBatches(entries) ==
    Joined([i \in DOMAIN entries |-> WriteBatch(entries[i].batch, entries[i].java)])

\* Records::read: batches until the buffer is used up, or until one is cut off.
ReadBatches(data) ==
    LET unlessCut(read, Rest(_, _)) ==
            IF read.pos = Eof THEN Done(<<>>, Len(data)) ELSE Then(read, Rest)
        from[q \in 0..Len(data)] ==
            IF q = Len(data) THEN Done(<<>>, q)
            ELSE unlessCut(ReadBatch(data, q), LAMBDA b, next :
                     Then(from[next], LAMBDA rest, end : Done(<<b>> \o rest, end)))
    IN  from[0]

\* Records; null is read as no batches.  What a message holds is the bytes, which
\* ReadBatches is then applied to.
ReadRecords(s, p) ==
    Then(ReadNullable(s, p, 4), LAMBDA data, end : Done(IF data = Null THEN <<>> ELSE data, end))
=============================================================================
