----------------------------- MODULE Primitives -----------------------------
(***************************************************************************)
(* The primitive wire types of src/protocol/primitives.rs.                 *)
(*                                                                         *)
(* A buffer is a sequence of bytes, integers of 0 .. Byte - 1.  A reader is*)
(* an operator of a buffer and the number of bytes consumed so far; it     *)
(* yields the value and the new position, which is negative for an error.  *)
(* A null string, array or byte sequence is Null.                          *)
(***************************************************************************)
EXTENDS Integers, Sequences, FiniteSetsExt

CONSTANTS Null,
          Group,     \* payload bits of a varint byte (7 in the code)
          LongBytes, \* bytes of an Int64 (8)
          Width,     \* bits of the integer a varint is decoded to (64)
          IntWidth   \* bits of the integer a Varint is narrowed to (32)

ASSUME WidthsAssumption ==
    /\ {Group, LongBytes, Width, IntWidth} \subseteq Nat \ {0}
    /\ Group < Width
    /\ IntWidth < Width

Base == 2 ^ Group

\* A fact about 2 ^ Group that proofs need: the provers know no powers.
ASSUME BaseAssumption == Base \in Nat \ {0}

Byte == 2 * Base

\* ReadError::IO(UnexpectedEof), every other read error, and a panic.
Eof == -1
Malformed == -2
Panic == -3

Fail(e) == [val |-> <<>>, pos |-> e]

Done(val, pos) == [val |-> val, pos |-> pos]

\* `let val = T::read(reader)?; ...': an error is returned at once.
Then(read, Rest(_, _)) == IF read.pos < 0 THEN read ELSE Rest(read.val, read.pos)

-----------------------------------------------------------------------------
\* The pieces one after the other; SequencesExt has this as FlattenSeq, with definitions
\* that slow the provers down.
Joined(pieces) ==
    LET upTo[i \in 1..Len(pieces)] == IF i = 1 THEN pieces[1] ELSE upTo[i - 1] \o pieces[i]
    IN  IF Len(pieces) = 0 THEN <<>> ELSE upTo[Len(pieces)]

\* VecBuilder::read_exact after the length was converted to a usize.
ReadExact(s, p, n) ==
    IF n < 0 THEN Fail(Malformed)
    ELSE IF n > Len(s) - p THEN Fail(Eof)
    ELSE Done(SubSeq(s, p + 1, p + n), p + n)

\* What is left of n when its low i - 1 bytes are gone, for i up to `size'.
Shifted(n, size) ==
    LET rest[i \in 1..size] == IF i = 1 THEN n ELSE rest[i - 1] \div Byte
    IN  rest

\* Int8, Int16, Int32 and Int64: `size' bytes, big endian, two's complement.
WriteInt(n, size) ==
    LET rest == Shifted(n, size)
    IN  [i \in 1..size |-> rest[size - i + 1] % Byte]

\* The integers that the first bytes of b are.
BigEndian(b, size) ==
    LET sign == IF b[1] >= Base THEN b[1] - Byte ELSE b[1]
        upTo[i \in 1..size] == IF i = 1 THEN sign ELSE upTo[i - 1] * Byte + b[i]
    IN  upTo

ReadInt(s, p, size) ==
    Then(ReadExact(s, p, size), LAMBDA b, q : Done(BigEndian(b, size)[size], q))

\* Boolean
WriteBoolean(b) == <<IF b THEN 1 ELSE 0>>

ReadBoolean(s, p) ==
    Then(ReadExact(s, p, 1), LAMBDA b, q : Done(b[1] # 0, q))

\* UnsignedVarint::write: the low group first, the high bit set on every group
\* but the last.
WriteUnsignedVarint[n \in Nat] ==
    IF n < Base THEN <<n>>
    ELSE <<Base + (n % Base)>> \o WriteUnsignedVarint[n \div Base]

\* The loop gives up once the next shift would exceed the integer's width.
MaxGroups == Min({k \in 1..Width : k * Group > Width - 1})

\* UnsignedVarint::read; a shift by less than the width drops the bits that
\* leave the integer.
ReadUnsignedVarint(s, p) ==
    LET last == {k \in 1..MaxGroups : p + k <= Len(s) /\ s[p + k] < Base}
        part(j) == (s[p + j] % Base) * 2 ^ (Group * (j - 1))
    IN  IF last # {}
        THEN Done(MapThenSumSet(part, 1..Min(last)) % (2 ^ Width), p + Min(last))
        ELSE IF p + MaxGroups <= Len(s) THEN Fail(Malformed)
        ELSE Fail(Eof)

\* The zig-zag encoding of the integer_encoding crate, which Varint and Varlong
\* call.
ZigZag(n) == IF n >= 0 THEN 2 * n ELSE -2 * n - 1

UnZigZag(u) == IF u % 2 = 0 THEN u \div 2 ELSE -((u + 1) \div 2)

WriteVarint(n) == WriteUnsignedVarint[ZigZag(n)]

ReadVarlong(s, p) ==
    Then(ReadUnsignedVarint(s, p), LAMBDA u, q : Done(UnZigZag(u), q))

\* Varint::read: a 64 bit read and a checked narrowing.
ReadVarint(s, p) ==
    Then(ReadVarlong(s, p), LAMBDA n, q :
        IF n \in -(2 ^ (IntWidth - 1)) .. 2 ^ (IntWidth - 1) - 1
        THEN Done(n, q) ELSE Fail(Malformed))

\* `for _ in 0..n { push(T::read(reader)?) }'; an element takes at least one byte,
\* so that the loop fails once there are more elements than bytes.
ReadMany(s, p, n, ReadOne(_, _)) ==
    LET upTo[k \in 0..Len(s) + 1] ==
            IF k = 0 THEN Done(<<>>, p)
            ELSE Then(upTo[k - 1], LAMBDA list, q :
                     Then(ReadOne(s, q), LAMBDA e, end : Done(Append(list, e), end)))
    IN  IF n < 0 THEN Fail(Malformed) ELSE upTo[Min({n, Len(s) - p + 1})]

-----------------------------------------------------------------------------
\* String_, NullableString, Bytes and NullableBytes: the length is an integer of
\* `size' bytes, -1 for null.
WriteNullable(b, size) ==
    IF b = Null THEN WriteInt(-1, size) ELSE WriteInt(Len(b), size) \o b

ReadNullable(s, p, size) ==
    Then(ReadInt(s, p, size), LAMBDA n, q :
        IF n = -1 THEN Done(Null, q) ELSE ReadExact(s, q, n))

ReadNonNull(s, p, size) ==
    Then(ReadInt(s, p, size), LAMBDA n, q : ReadExact(s, q, n))

\* CompactString, CompactNullableString and CompactBytes: the length plus one is a
\* varint, 0 for null.
WriteCompact(b) ==
    IF b = Null THEN WriteUnsignedVarint[0] ELSE WriteUnsignedVarint[Len(b) + 1] \o b

ReadCompactNullable(s, p) ==
    Then(ReadUnsignedVarint(s, p), LAMBDA n, q :
        IF n = 0 THEN Done(Null, q) ELSE ReadExact(s, q, n - 1))

ReadCompactString(s, p) ==
    Then(ReadUnsignedVarint(s, p), LAMBDA n, q :
        IF n = 0 THEN Fail(Malformed) ELSE ReadExact(s, q, n - 1))

\* `len - 1' of an unsigned 0 overflows, which panics.
ReadCompactBytes(s, p) ==
    Then(ReadUnsignedVarint(s, p), LAMBDA n, q :
        IF n = 0 THEN Fail(Panic) ELSE ReadExact(s, q, n - 1))

\* TaggedFields: pairs of a tag and its data.
WriteTaggedFields(fields) ==
    WriteUnsignedVarint[Len(fields)]
    \o Joined([i \in DOMAIN fields |->
           WriteUnsignedVarint[fields[i].tag] \o WriteUnsignedVarint[Len(fields[i].data)]
           \o fields[i].data])

ReadTaggedField(s, p) ==
    Then(ReadUnsignedVarint(s, p), LAMBDA tag, q :
    Then(ReadUnsignedVarint(s, q), LAMBDA n, r :
    Then(ReadExact(s, r, n), LAMBDA data, end : Done([tag |-> tag, data |-> data], end))))

ReadTaggedFields(s, p) ==
    Then(ReadUnsignedVarint(s, p), LAMBDA n, q : ReadMany(s, q, n, ReadTaggedField))
=============================================================================
