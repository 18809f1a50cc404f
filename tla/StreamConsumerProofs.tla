------------------------ MODULE StreamConsumerProofs -------------------------
(***************************************************************************)
(* Proofs about StreamConsumer, for every log, every start offset and any  *)
(* interleaving with appends and deletions.                                *)
(***************************************************************************)
EXTENDS StreamConsumer, FiniteSetTheorems, SequenceTheorems, TLAPS

-----------------------------------------------------------------------------
(* The inductive invariant                                                 *)

\* Offsets the stream has yielded or is about to yield.
Seen == Range(delivered) \cup Range(buffer)

Increasing(s) == \A i, j \in DOMAIN s : i < j => s[i] < s[j]

\* Position p is behind everything seen, and nothing of the log between the first
\* offset and p is missing unless it was deleted.
Behind(p) == \A o \in Seen : o < p

CompleteUpTo(p) ==
    start_offset.kind # "Latest" =>
        \A o \in DataOffsets(Log) \cap FirstOffset .. p - 1 : o \in Seen \/ o < log_start

\* The future works at `offset' or has an answer for it.
AtOffset == fut = "fetch" \/ (fut = "ready" /\ result.kind # "error")

Types ==
    /\ visible \in 0 .. Len(Log)
    /\ log_start \in Nat /\ log_start <= Watermark
    /\ start_offset \in StartOffsets
    /\ next_offset \in Nat \cup {None}
    /\ delivered \in Seq(Nat) /\ buffer \in Seq(Nat)
    /\ fut \in {"none", "resolve", "fetch", "ready"}

\* What was seen: in order, and data of the log.
SeenInv ==
    /\ Increasing(delivered) /\ Increasing(buffer)
    /\ \A i \in DOMAIN delivered : \A j \in DOMAIN buffer : delivered[i] < buffer[j]
    /\ Seen \subseteq DataOffsets(Log)

\* The position the next fetch starts from.
NextInv ==
    /\ next_offset # None => /\ next_offset <= Watermark
                             /\ Behind(next_offset)
                             /\ CompleteUpTo(next_offset)
    /\ next_offset = None => IF start_offset.kind = "At" THEN Seen = {} ELSE Behind(log_start)

\* The position of the fetch under way, and its answer.
FetchInv ==
    /\ fut # "none" => buffer = <<>>
    /\ fut = "resolve" => next_offset = None /\ start_offset.kind # "At"
    /\ AtOffset => /\ offset \in Nat
                   /\ Behind(offset)
                   /\ CompleteUpTo(offset)
                   /\ start_offset.kind # "At" => offset <= Watermark
    /\ fut = "ready" /\ result.kind = "ok" =>
          /\ offset <= Watermark
          /\ \E h \in Int : /\ h < Watermark
                            /\ result.records = DataOffsets(Log) \cap offset .. h
    /\ fut = "ready" /\ result.kind = "out_of_range" /\ start_offset.kind # "At" =>
          offset < log_start

IInv == Types /\ SeenInv /\ NextInv /\ FetchInv

-----------------------------------------------------------------------------
(* Numbers and sorted sequences                                            *)

\* A set of naturals has a least element.
LEMMA Least ==
    ASSUME NEW T \in SUBSET Nat, T # {}
    PROVE  \E x \in T : \A y \in T : x <= y
<1>1. PICK x \in T : \A y \in T : ~ (<<y, x>> \in OpToRel(<, Nat))
  BY NatLessThanWellFounded, WFMin
<1>2. \A y \in T : ~(y < x)
  BY <1>1, Zenon DEF OpToRel
<1> QED BY <1>2

LEMMA MinIsLeast ==
    ASSUME NEW T \in SUBSET Nat, T # {}
    PROVE  Min(T) \in T /\ \A y \in T : Min(T) <= y
BY Least, Zenon DEF Min

LEMMA MaxIsGreatest ==
    ASSUME NEW n \in Nat, NEW T \in SUBSET (0 .. n), T # {}
    PROVE  Max(T) \in T /\ \A y \in T : y <= Max(T)
<1> DEFINE U == {x \in 0 .. n : n - x \in T}
<1>1. U \in SUBSET Nat
  OBVIOUS
<1>2. U # {}
  <2>1. PICK t \in T : TRUE
    BY Zenon
  <2>2. n - t \in U
    BY <2>1
  <2> QED BY <2>2, Zenon
<1>3. PICK x \in U : \A y \in U : x <= y
  BY <1>1, <1>2, Least, Zenon
<1>4. n - x \in T /\ \A y \in T : y <= n - x
  <2>1. ASSUME NEW y \in T PROVE y <= n - x
    <3>1. n - y \in U
      OBVIOUS
    <3> QED BY <1>3, <3>1, SMTT(30)
  <2> QED BY <1>3, <2>1
<1> QED BY <1>4, Zenon DEF Max

\* sort_by_key: the sorted sequence of a finite set of offsets exists, is in order and
\* holds exactly the set.  The position of an offset is the number of those up to it.
LEMMA SortedIs ==
    ASSUME NEW S \in SUBSET Nat, IsFiniteSet(S)
    PROVE  /\ Sorted(S) \in Seq(S)
           /\ Increasing(Sorted(S))
           /\ Range(Sorted(S)) = S
<1> DEFINE n == Cardinality(S)
           UpTo(x) == {y \in S : y <= x}
           rank == [x \in S |-> Cardinality(UpTo(x))]
<1>1. n \in Nat
  BY FS_CardinalityType
<1>2. ASSUME NEW x \in S PROVE IsFiniteSet(UpTo(x)) /\ rank[x] \in 1 .. n
  <2>0. UpTo(x) \in SUBSET S
    OBVIOUS
  <2>1. /\ IsFiniteSet(UpTo(x)) /\ Cardinality(UpTo(x)) <= n
        /\ Cardinality(UpTo(x)) \in Nat
    <3> HIDE DEF UpTo
    <3> QED BY <2>0, FS_Subset, FS_CardinalityType
  <2>2. x \in UpTo(x)
    OBVIOUS
  <2>3. Cardinality(UpTo(x)) # 0
    BY <2>1, <2>2, FS_EmptySet
  <2> QED BY <1>1, <2>1, <2>3
<1>3. ASSUME NEW x \in S, NEW y \in S, x < y PROVE rank[x] < rank[y]
  <2>0. \A z \in S : z \in Nat
    OBVIOUS
  <2>1. UpTo(x) \subseteq UpTo(y) /\ y \notin UpTo(x) /\ y \in UpTo(y)
    <3>1. \A z \in S : z <= x => z <= y
      BY <1>3, <2>0
    <3>2. ~(y <= x) /\ y <= y
      BY <1>3, <2>0
    <3> QED BY <3>1, <3>2, Zenon
  <2>2. Cardinality(UpTo(x)) <= Cardinality(UpTo(y))
        /\ (Cardinality(UpTo(y)) = Cardinality(UpTo(x)) => UpTo(y) = UpTo(x))
    BY <1>2, <2>1, FS_Subset
  <2>3. rank[x] \in 1 .. n /\ rank[y] \in 1 .. n
    BY <1>2
  <2> HIDE DEF UpTo
  <2>4. Cardinality(UpTo(x)) # Cardinality(UpTo(y))
    BY <2>1, <2>2
  <2> QED BY <1>1, <2>2, <2>3, <2>4
<1> HIDE DEF n
<1>4. rank \in [S -> 1 .. n]
  BY <1>2
<1> HIDE DEF rank
<1>5. rank \in Injection(S, 1 .. n)
  BY <1>3, <1>4 DEF Injection, IsInjective
<1>6. rank \in Surjection(S, 1 .. n)
  <2>1. IsFiniteSet(1 .. n) /\ Cardinality(1 .. n) = n
    BY <1>1, FS_Interval
  <2> QED BY <1>5, <2>1, FS_Injection, Zenon DEF n
<1> DEFINE s == [i \in 1 .. n |-> CHOOSE x \in S : rank[x] = i]
<1>7. \A i \in 1 .. n : s[i] \in S /\ rank[s[i]] = i
  BY <1>6, Zenon DEF Surjection
<1>8. s \in [1 .. n -> S] /\ \A i, j \in DOMAIN s : i < j => s[i] < s[j]
  <2>1. s \in [1 .. n -> S]
    BY <1>7
  <2>2. ASSUME NEW i \in 1 .. n, NEW j \in 1 .. n, i < j PROVE s[i] < s[j]
    <3> DEFINE a == s[i]
               b == s[j]
    <3>1. a \in S /\ b \in S /\ rank[a] = i /\ rank[b] = j
      BY <1>7
    <3> HIDE DEF a, b
    <3>2. a \in Nat /\ b \in Nat /\ ~(b < a) /\ a # b
      <4>1. a \in Nat /\ b \in Nat /\ ~(j < i) /\ i # j
        BY <2>2, <3>1
      <4> QED BY <1>3, <3>1, <4>1, Zenon
    <3>3. a < b
      BY <3>2
    <3> QED BY <3>3 DEF a, b
  <2> QED BY <2>1, <2>2
<1> DEFINE t == Sorted(S)
<1>9. t \in [1 .. n -> S] /\ \A i, j \in DOMAIN t : i < j => t[i] < t[j]
  <2> HIDE DEF s
  <2> QED BY <1>8, Zenon DEF Sorted, n
<1> HIDE DEF t
<1>10. t \in Injection(1 .. n, S)
  <2>1. \A i, j \in 1 .. n : i # j => t[i] # t[j]
    <3> SUFFICES ASSUME NEW i \in 1 .. n, NEW j \in 1 .. n, i # j PROVE t[i] # t[j]
      OBVIOUS
    <3>1. t[i] \in Nat /\ t[j] \in Nat
      BY <1>9, Zenon
    <3>2. (i < j => t[i] < t[j]) /\ (j < i => t[j] < t[i])
      BY <1>9
    <3>3. i < j \/ j < i
      BY <1>1
    <3> QED BY <3>1, <3>2, <3>3
  <2> QED BY <1>9, <2>1, Zenon DEF Injection, IsInjective
<1>11. t \in Surjection(1 .. n, S)
  <2>1. IsFiniteSet(1 .. n) /\ Cardinality(1 .. n) = n
    BY <1>1, FS_Interval
  <2> QED BY <1>10, <2>1, FS_Injection, Zenon DEF n
<1>12. Range(t) = S
  BY <1>9, <1>11, Zenon DEF Range, Surjection
<1>13. t \in Seq(S)
  BY <1>1, <1>9, SeqDef
<1> QED BY <1>9, <1>12, <1>13 DEF t, Increasing
-----------------------------------------------------------------------------
(* The log                                                                 *)

\* Batches are in the order of their offsets.
LEMMA LogOrdered ==
    ASSUME NEW i \in 1 .. Len(Log), NEW j \in 1 .. Len(Log), i < j
    PROVE  Log[i].last < Log[j].first
<1> DEFINE Bad == {k \in 1 .. Len(Log) : i < k /\ ~(Log[i].last < Log[k].first)}
<1> SUFFICES ASSUME Bad # {} PROVE FALSE
  OBVIOUS
<1>1. Len(Log) \in Nat
  BY ConsumerAssumption
<1>2. PICK k \in Bad : \A m \in Bad : k <= m
  <2>1. Bad \in SUBSET Nat
    BY <1>1
  <2> HIDE DEF Bad
  <2> QED BY <2>1, Least, Zenon
<1>3. /\ k \in 1 .. Len(Log) /\ k - 1 \in 1 .. Len(Log) /\ k # 1
      /\ Log[k].first = Log[k - 1].last + 1
  BY <1>1, <1>2, ConsumerAssumption
<1>4. \A m \in 1 .. Len(Log) : Log[m].first \in Nat /\ Log[m].last \in Nat
                               /\ Log[m].first <= Log[m].last
  BY ConsumerAssumption, Zenon
<1>5. CASE k - 1 = i
  BY <1>2, <1>3, <1>4, <1>5
<1>6. CASE k - 1 # i
  <2>1. i < k - 1 /\ k - 1 \notin Bad
    BY <1>1, <1>2, <1>3, <1>6
  <2>2. Log[i].last < Log[k - 1].first
    BY <1>3, <2>1
  <2>3. Log[i].last < Log[k].first
    BY <1>3, <1>4, <2>2, SMTT(30)
  <2> QED BY <1>2, <2>3
<1> QED BY <1>5, <1>6

\* Visible batches lie below the watermark, which only rises.
LEMMA WatermarkIs ==
    ASSUME visible \in 0 .. Len(Log)
    PROVE  /\ Watermark \in Nat
           /\ \A i \in 1 .. visible : Log[i].last < Watermark
           /\ visible' = visible => Watermark' = Watermark
           /\ visible' \in 0 .. Len(Log) /\ visible' = visible + 1 =>
                  Watermark' \in Nat /\ Watermark <= Watermark'
<1>1. /\ Len(Log) \in Nat
      /\ \A m \in 1 .. Len(Log) : Log[m].first \in Nat /\ Log[m].last \in Nat
                                  /\ Log[m].first <= Log[m].last
  BY ConsumerAssumption
<1>2. Watermark \in Nat
  BY <1>1 DEF Watermark
<1>3. ASSUME NEW i \in 1 .. visible PROVE Log[i].last < Watermark
  <2>1. visible \in 1 .. Len(Log) /\ i \in 1 .. Len(Log) /\ Watermark = Log[visible].last + 1
    BY <1>1 DEF Watermark
  <2>2. CASE i = visible
    BY <1>1, <2>1, <2>2
  <2>3. CASE i # visible
    <3>1. i < visible
      BY <1>1, <2>1, <2>3
    <3> QED BY <1>1, <2>1, <3>1, LogOrdered
  <2> QED BY <2>2, <2>3
<1>4. ASSUME visible' \in 0 .. Len(Log), visible' = visible + 1
      PROVE  Watermark' \in Nat /\ Watermark <= Watermark'
  <2>1. visible + 1 \in 1 .. Len(Log) /\ Watermark' = Log[visible + 1].last + 1
    BY <1>1, <1>4 DEF Watermark
  <2>2. CASE visible = 0
    BY <1>1, <2>1, <2>2 DEF Watermark
  <2>3. CASE visible # 0
    <3>1. visible \in 1 .. Len(Log) /\ visible < visible + 1 /\ Watermark = Log[visible].last + 1
      BY <1>1, <2>3 DEF Watermark
    <3> QED BY <1>1, <2>1, <3>1, LogOrdered
  <2> QED BY <2>2, <2>3, Zenon
<1>5. visible' = visible => Watermark' = Watermark
  BY DEF Watermark
<1> QED BY <1>2, <1>3, <1>4, <1>5

LEMMA DataIs ==
    ASSUME NEW batches, NEW o
    PROVE  o \in DataOffsets(batches) <=>
               \E i \in DOMAIN batches : ~batches[i].control /\ o \in batches[i].offsets
BY DEF DataOffsets

\* extract_records on what a fetch returns: the data from the requested offset on, up
\* to some offset below the watermark, with nothing left out.
LEMMA FetchIs ==
    ASSUME visible \in 0 .. Len(Log), NEW o \in Nat, NEW max_bytes
    PROVE  \E h \in Int :
               /\ h < Watermark
               /\ ExtractRecords(FetchBatches(o, max_bytes), o) = DataOffsets(Log) \cap o .. h
<1> DEFINE from == {i \in 1 .. visible : Log[i].last >= o}
           lo == Min(from)
           fits == {hi \in from : hi = lo \/ Fit(lo, hi, max_bytes)}
           hi == Max(fits)
           batches == SubSeq(Log, lo, hi)
<1>1. /\ Len(Log) \in Nat /\ DOMAIN Log = 1 .. Len(Log)
      /\ \A m \in 1 .. Len(Log) : /\ Log[m].first \in Nat /\ Log[m].last \in Nat
                                  /\ Log[m].first <= Log[m].last
                                  /\ Log[m].offsets \subseteq Log[m].first .. Log[m].last
  BY ConsumerAssumption
<1>2. Watermark \in Nat /\ \A i \in 1 .. visible : Log[i].last < Watermark
  BY WatermarkIs, Zenon
<1>3. CASE from = {}
  <2>1. FetchBatches(o, max_bytes) = <<>>
    BY <1>3, Zenon DEF FetchBatches
  <2>2. DataOffsets(<<>>) = {}
    BY DEF DataOffsets
  <2>3. ExtractRecords(FetchBatches(o, max_bytes), o) = DataOffsets(Log) \cap o .. -1
    BY <2>1, <2>2 DEF ExtractRecords
  <2> QED BY <1>2, <2>3
<1>4. CASE from # {}
  <2>1. lo \in from /\ \A i \in from : lo <= i
    <3>1. from \in SUBSET Nat
      BY <1>1
    <3> HIDE DEF from
    <3> QED BY <1>4, <3>1, MinIsLeast, Zenon
  <2>2. FetchBatches(o, max_bytes) = batches
    BY <1>4, Zenon DEF FetchBatches
  <2>3. fits \in SUBSET (0 .. Len(Log)) /\ fits # {}
    <3>1. fits \subseteq from /\ lo \in fits
      <4> HIDE DEF from, lo
      <4> QED BY <2>1
    <3>2. from \subseteq 0 .. Len(Log)
      BY <1>1
    <3> HIDE DEF from, fits
    <3> QED BY <3>1, <3>2
  <2>4. hi \in fits
    <3> HIDE DEF fits
    <3> QED BY <1>1, <2>3, MaxIsGreatest, Zenon
  <2>5. /\ lo \in 1 .. visible /\ hi \in 1 .. visible /\ lo <= hi
        /\ lo \in 1 .. Len(Log) /\ hi \in 1 .. Len(Log)
    BY <1>1, <2>1, <2>4
  <2>6. \A i \in 1 .. visible : Log[i].last >= o => lo <= i
    BY <2>1
  <2> HIDE DEF from, lo, fits, hi
  <2>7. /\ DOMAIN batches = 1 .. hi - lo + 1
        /\ \A k \in 1 .. hi - lo + 1 : batches[k] = Log[lo + k - 1]
    BY <1>1, <2>5
  <2> HIDE DEF batches
  <2>8. ASSUME NEW x
        PROVE  x \in ExtractRecords(batches, o) <=> x \in DataOffsets(Log) \cap o .. Log[hi].last
    <3>1. ASSUME x \in ExtractRecords(batches, o)
          PROVE  x \in DataOffsets(Log) \cap o .. Log[hi].last
      <4>1. x \in DataOffsets(batches) /\ x >= o
        BY <3>1 DEF ExtractRecords
      <4>2. PICK k \in 1 .. hi - lo + 1 : ~batches[k].control /\ x \in batches[k].offsets
        BY <2>7, <4>1, DataIs, Zenon
      <4> DEFINE i == lo + k - 1
      <4>3. i \in 1 .. Len(Log) /\ i <= hi /\ ~Log[i].control /\ x \in Log[i].offsets
        BY <1>1, <2>5, <2>7, <4>2
      <4> HIDE DEF i
      <4>4. x \in DataOffsets(Log)
        BY <1>1, <4>3, DataIs, Zenon
      <4>5. x \in Nat /\ x <= Log[i].last
        BY <1>1, <4>3
      <4>6. Log[i].last <= Log[hi].last
        <5>1. CASE i = hi
          BY <1>1, <2>5, <5>1
        <5>2. CASE i < hi
          <6>1. Log[i].last < Log[hi].first
            BY <2>5, <4>3, <5>2, LogOrdered, Zenon
          <6> QED BY <1>1, <2>5, <4>3, <6>1
        <5> QED BY <1>1, <2>5, <4>3, <5>1, <5>2
      <4> QED BY <1>1, <2>5, <4>1, <4>3, <4>4, <4>5, <4>6
    <3>2. ASSUME x \in DataOffsets(Log), x \in o .. Log[hi].last
          PROVE  x \in ExtractRecords(batches, o)
      <4>1. PICK i \in 1 .. Len(Log) : ~Log[i].control /\ x \in Log[i].offsets
        BY <1>1, <3>2, DataIs, Zenon
      <4>2. x \in Nat /\ Log[i].first <= x /\ x <= Log[i].last /\ o <= x /\ x <= Log[hi].last
        BY <1>1, <2>5, <3>2, <4>1
      <4>3. i <= hi
        <5> SUFFICES ASSUME hi < i PROVE FALSE
          BY <1>1, <2>5
        <5>1. Log[hi].last < Log[i].first
          BY <2>5, LogOrdered, Zenon
        <5> QED BY <1>1, <2>5, <4>2, <5>1
      <4>4. lo <= i
        BY <1>1, <2>5, <2>6, <4>2, <4>3
      <4>5. i - lo + 1 \in 1 .. hi - lo + 1 /\ batches[i - lo + 1] = Log[i]
        BY <1>1, <2>5, <2>7, <4>3, <4>4
      <4>6. x \in DataOffsets(batches)
        BY <2>7, <4>1, <4>5, DataIs, Zenon
      <4> QED BY <4>2, <4>6, Zenon DEF ExtractRecords
    <3> QED BY <3>1, <3>2
  <2>9. ExtractRecords(batches, o) = DataOffsets(Log) \cap o .. Log[hi].last
    BY <2>8, Zenon
  <2>10. Log[hi].last \in Int /\ Log[hi].last < Watermark
    BY <1>1, <1>2, <2>5
  <2> QED BY <2>2, <2>9, <2>10, Zenon
<1> QED BY <1>3, <1>4

-----------------------------------------------------------------------------
(* Every step keeps the invariant                                          *)

\* Steps of the log: records appear at its end and disappear at its front.
LEMMA LogKeeps ==
    ASSUME IInv, UNCHANGED <<start_offset, next_offset, buffer, delivered, fut, offset, result>>,
           visible' \in 0 .. Len(Log), log_start' \in Nat, log_start <= log_start',
           log_start' <= Watermark', Watermark <= Watermark'
    PROVE  IInv'
<1>1. /\ Watermark \in Nat /\ Watermark' \in Nat /\ log_start \in Nat
      /\ next_offset \in Nat \cup {None}
      /\ \A o \in DataOffsets(Log) : o \in Nat
  <2>1. \A o \in DataOffsets(Log) : o \in Nat
    BY ConsumerAssumption, DataIs
  <2>2. Watermark' \in Nat
    BY WatermarkIs, ConsumerAssumption DEF Watermark
  <2> QED BY <2>1, <2>2, WatermarkIs, Zenon DEF IInv, Types
<1>2. Seen' = Seen /\ (AtOffset' <=> AtOffset) /\ FirstOffset' = FirstOffset
  BY DEF Seen, AtOffset, FirstOffset
<1>3. \A p \in Nat : /\ Behind(p) => Behind(p)'
                     /\ CompleteUpTo(p) => CompleteUpTo(p)'
  BY <1>1, <1>2 DEF Behind, CompleteUpTo
<1>4. Behind(log_start) => Behind(log_start)'
  <2>1. Seen \subseteq Nat
    BY <1>1, Zenon DEF IInv, SeenInv
  <2> QED BY <1>1, <1>2, <2>1 DEF Behind
<1>5. Types' /\ SeenInv'
  BY <1>2 DEF IInv, Types, SeenInv, Increasing
<1>6. NextInv'
  <2>1. CASE next_offset # None
    <3>1. Behind(next_offset)' /\ CompleteUpTo(next_offset)'
      BY <1>1, <1>3, <2>1, Zenon DEF IInv, NextInv, Behind, CompleteUpTo
    <3>2. next_offset' <= Watermark'
      BY <1>1, <2>1 DEF IInv, NextInv, None
    <3> QED BY <2>1, <3>1, <3>2, Zenon DEF NextInv
  <2>2. CASE next_offset = None
    BY <1>2, <1>4, <2>2 DEF IInv, NextInv
  <2> QED BY <2>1, <2>2, Zenon
<1>7. FetchInv'
  <2>1. ASSUME AtOffset
        PROVE  /\ offset' \in Nat /\ Behind(offset)' /\ CompleteUpTo(offset)'
               /\ start_offset'.kind # "At" => offset' <= Watermark'
    <3>1. offset \in Nat /\ Behind(offset) /\ CompleteUpTo(offset)
          /\ (start_offset.kind # "At" => offset <= Watermark)
      BY <2>1 DEF IInv, FetchInv
    <3>2. Behind(offset)' /\ CompleteUpTo(offset)'
      BY <1>3, <3>1, Zenon DEF Behind, CompleteUpTo
    <3> QED BY <1>1, <3>1, <3>2
  <2>2. ASSUME fut = "ready", result.kind = "ok"
        PROVE  /\ offset' <= Watermark'
               /\ \E h \in Int : h < Watermark'
                                 /\ result'.records = DataOffsets(Log) \cap offset' .. h
    <3>1. offset \in Nat /\ offset <= Watermark
      BY <2>2 DEF IInv, FetchInv, AtOffset
    <3>2. PICK h \in Int : h < Watermark /\ result.records = DataOffsets(Log) \cap offset .. h
      BY <2>2, Zenon DEF IInv, FetchInv
    <3>3. h < Watermark' /\ offset' <= Watermark'
      BY <1>1, <3>1, <3>2
    <3> QED BY <3>2, <3>3
  <2>3. ASSUME fut = "ready", result.kind = "out_of_range", start_offset.kind # "At"
        PROVE  offset' < log_start'
    <3>1. offset \in Nat /\ offset < log_start
      BY <2>3 DEF IInv, FetchInv, AtOffset
    <3> QED BY <1>1, <3>1
  <2> QED BY <1>2, <2>1, <2>2, <2>3 DEF IInv, FetchInv
<1> QED BY <1>5, <1>6, <1>7, Zenon DEF IInv

LEMMA RangeAppend ==
    ASSUME NEW s \in Seq(Nat), NEW e \in Nat
    PROVE  Range(Append(s, e)) = Range(s) \cup {e}
<1>1. /\ DOMAIN Append(s, e) = 1 .. Len(s) + 1 /\ DOMAIN s = 1 .. Len(s) /\ Len(s) \in Nat
      /\ \A i \in 1 .. Len(s) : Append(s, e)[i] = s[i]
      /\ Append(s, e)[Len(s) + 1] = e
  OBVIOUS
<1>2. \A i \in 1 .. Len(s) + 1 : i \in 1 .. Len(s) \/ i = Len(s) + 1
  BY <1>1
<1>3. 1 .. Len(s) \subseteq 1 .. Len(s) + 1 /\ Len(s) + 1 \in 1 .. Len(s) + 1
  BY <1>1
<1> QED BY <1>1, <1>2, <1>3, Zenon DEF Range

LEMMA RangeHeadTail ==
    ASSUME NEW s \in Seq(Nat), s # <<>>
    PROVE  Range(s) = {Head(s)} \cup Range(Tail(s))
<1>1. /\ DOMAIN s = 1 .. Len(s) /\ Len(s) \in Nat \ {0} /\ Head(s) = s[1]
      /\ DOMAIN Tail(s) = 1 .. Len(s) - 1
      /\ \A i \in 1 .. Len(s) - 1 : Tail(s)[i] = s[i + 1]
  OBVIOUS
<1>2. \A i \in 1 .. Len(s) : i = 1 \/ (i - 1 \in 1 .. Len(s) - 1 /\ i = (i - 1) + 1)
  BY <1>1
<1>3. 1 \in 1 .. Len(s) /\ \A i \in 1 .. Len(s) - 1 : i + 1 \in 1 .. Len(s)
  BY <1>1
<1>4. ASSUME NEW x \in Range(s) PROVE x \in {Head(s)} \cup Range(Tail(s))
  <2>1. PICK i \in 1 .. Len(s) : x = s[i]
    BY <1>1 DEF Range
  <2>2. CASE i = 1
    BY <1>1, <2>1, <2>2, Zenon
  <2>3. CASE i - 1 \in 1 .. Len(s) - 1 /\ i = (i - 1) + 1
    <3>1. x = Tail(s)[i - 1]
      BY <1>1, <2>1, <2>3, Zenon
    <3> QED BY <1>1, <2>3, <3>1, Zenon DEF Range
  <2> QED BY <1>2, <2>2, <2>3, Zenon
<1>5. ASSUME NEW x \in {Head(s)} \cup Range(Tail(s)) PROVE x \in Range(s)
  BY <1>1, <1>3 DEF Range
<1> QED BY <1>4, <1>5, Zenon

\* Yielding a record moves it from what is about to be seen to what was seen.
LEMMA YieldKeeps ==
    ASSUME IInv, Yield
    PROVE  IInv'
<1> DEFINE e == Head(buffer)
<1>1. /\ delivered \in Seq(Nat) /\ buffer \in Seq(Nat) /\ buffer # <<>> /\ e \in Nat
      /\ delivered' = Append(delivered, e) /\ buffer' = Tail(buffer)
      /\ UNCHANGED <<visible, log_start, start_offset, next_offset, fut, offset, result>>
  BY DEF IInv, Types, Yield, log_vars
<1>2. fut = "none"
  BY <1>1 DEF IInv, FetchInv
<1>3. Seen' = Seen
  BY <1>1, RangeAppend, RangeHeadTail DEF Seen
<1>4. delivered' \in Seq(Nat) /\ buffer' \in Seq(Nat)
  BY <1>1
<1>5. /\ DOMAIN delivered = 1 .. Len(delivered) /\ Len(delivered) \in Nat
      /\ DOMAIN delivered' = 1 .. Len(delivered) + 1
      /\ \A i \in 1 .. Len(delivered) : delivered'[i] = delivered[i]
      /\ delivered'[Len(delivered) + 1] = e
  BY <1>1
<1>6. /\ DOMAIN buffer = 1 .. Len(buffer) /\ Len(buffer) \in Nat \ {0} /\ e = buffer[1]
      /\ DOMAIN buffer' = 1 .. Len(buffer) - 1
      /\ \A i \in 1 .. Len(buffer) - 1 : buffer'[i] = buffer[i + 1]
  BY <1>1
<1> HIDE DEF e
<1>7. /\ Increasing(delivered) /\ Increasing(buffer)
      /\ \A i \in DOMAIN delivered : \A j \in DOMAIN buffer : delivered[i] < buffer[j]
  BY DEF IInv, SeenInv
<1>8. Increasing(delivered')
  <2> SUFFICES ASSUME NEW i \in 1 .. Len(delivered) + 1, NEW j \in 1 .. Len(delivered) + 1, i < j
               PROVE  delivered'[i] < delivered'[j]
    BY <1>5 DEF Increasing
  <2>1. i \in 1 .. Len(delivered)
    BY <1>5
  <2>2. CASE j \in 1 .. Len(delivered)
    BY <1>5, <1>7, <2>1, <2>2, Zenon DEF Increasing
  <2>3. CASE j = Len(delivered) + 1
    BY <1>5, <1>6, <1>7, <2>1, <2>3
  <2> QED BY <1>5, <2>2, <2>3
<1>9. Increasing(buffer')
  <2> SUFFICES ASSUME NEW i \in 1 .. Len(buffer) - 1, NEW j \in 1 .. Len(buffer) - 1, i < j
               PROVE  buffer'[i] < buffer'[j]
    BY <1>6 DEF Increasing
  <2>1. i + 1 \in 1 .. Len(buffer) /\ j + 1 \in 1 .. Len(buffer) /\ i + 1 < j + 1
    BY <1>6
  <2> QED BY <1>6, <1>7, <2>1, Zenon DEF Increasing
<1>10. \A i \in DOMAIN delivered' : \A j \in DOMAIN buffer' : delivered'[i] < buffer'[j]
  <2> SUFFICES ASSUME NEW i \in 1 .. Len(delivered) + 1, NEW j \in 1 .. Len(buffer) - 1
               PROVE  delivered'[i] < buffer'[j]
    BY <1>5, <1>6
  <2>1. j + 1 \in 1 .. Len(buffer) /\ 1 < j + 1 /\ 1 \in 1 .. Len(buffer)
        /\ buffer'[j] = buffer[j + 1]
    BY <1>6
  <2>2. CASE i \in 1 .. Len(delivered)
    BY <1>5, <1>6, <1>7, <2>1, <2>2, Zenon
  <2>3. CASE i = Len(delivered) + 1
    BY <1>5, <1>6, <1>7, <2>1, <2>3, Zenon DEF Increasing
  <2> QED BY <1>5, <2>2, <2>3
<1>11. Types'
  BY <1>1, <1>4, Zenon DEF IInv, Types, Watermark
<1>12. SeenInv'
  BY <1>3, <1>8, <1>9, <1>10, Zenon DEF IInv, SeenInv, Increasing
<1>13. NextInv'
  BY <1>1, <1>3, Zenon DEF IInv, NextInv, Behind, CompleteUpTo, FirstOffset, Watermark
<1>14. FetchInv'
  BY <1>1, <1>2, Zenon DEF FetchInv, AtOffset
<1> QED BY <1>11, <1>12, <1>13, <1>14, Zenon DEF IInv

\* The new future takes its offset from next_offset or from the start offset.
LEMMA StartFetchKeeps ==
    ASSUME IInv, StartFetch
    PROVE  IInv'
<1>1. /\ buffer = <<>> /\ fut = "none"
      /\ UNCHANGED <<visible, log_start, start_offset, next_offset, buffer, delivered, result>>
  BY Zenon DEF StartFetch, log_vars, stream_vars
<1>2. Seen' = Seen /\ Watermark' = Watermark
  BY <1>1, Zenon DEF Seen, Watermark
<1>3. SeenInv' /\ NextInv'
  BY <1>1, <1>2, Zenon DEF IInv, SeenInv, NextInv, Increasing, Behind, CompleteUpTo, FirstOffset
<1>4. start_offset.kind \in {"Earliest", "Latest", "At"} /\ start_offset.at \in Nat
  BY ConsumerAssumption DEF IInv, Types
<1>5. CASE fut' = "fetch" /\ next_offset # None /\ offset' = next_offset
  <2>1. /\ offset' \in Nat /\ offset' <= Watermark
        /\ Behind(offset') /\ CompleteUpTo(offset')
    BY <1>5, Zenon DEF IInv, Types, NextInv
  <2>2. Behind(offset)' /\ CompleteUpTo(offset)'
    BY <1>1, <1>2, <2>1, Zenon DEF Behind, CompleteUpTo, FirstOffset
  <2>3. FetchInv'
    BY <1>1, <1>2, <1>5, <2>1, <2>2, Zenon DEF FetchInv
  <2> QED BY <1>1, <1>2, <1>3, <1>5, <2>3, Zenon DEF IInv, Types
<1>6. CASE fut' = "fetch" /\ next_offset = None /\ start_offset.kind = "At"
           /\ offset' = start_offset.at
  <2>1. Seen = {} /\ FirstOffset = offset'
    BY <1>6 DEF IInv, NextInv, FirstOffset
  <2>2. Behind(offset)' /\ CompleteUpTo(offset)'
    BY <1>1, <1>2, <1>4, <1>6, <2>1 DEF Behind, CompleteUpTo, FirstOffset
  <2>3. FetchInv'
    BY <1>1, <1>2, <1>4, <1>6, <2>2, Zenon DEF FetchInv
  <2> QED BY <1>1, <1>2, <1>3, <1>6, <2>3, Zenon DEF IInv, Types
<1>7. CASE fut' = "resolve" /\ next_offset = None /\ start_offset.kind # "At"
  <2>1. FetchInv'
    BY <1>1, <1>7, Zenon DEF FetchInv, AtOffset
  <2> QED BY <1>1, <1>2, <1>3, <1>7, <2>1, Zenon DEF IInv, Types
<1> QED BY <1>5, <1>6, <1>7, Zenon DEF StartFetch

\* A future that fails leaves everything as it was.
LEMMA FailKeeps ==
    ASSUME IInv, Fail, fut # "none",
           UNCHANGED <<visible, log_start, start_offset, next_offset, buffer, delivered>>
    PROVE  IInv'
<1>1. fut' = "ready" /\ result'.kind = "error" /\ buffer = <<>>
  BY DEF Fail, IInv, FetchInv
<1>2. Seen' = Seen /\ Watermark' = Watermark
  BY DEF Seen, Watermark
<1>3. SeenInv' /\ NextInv'
  BY <1>2 DEF IInv, SeenInv, NextInv, Increasing, Behind, CompleteUpTo, FirstOffset
<1>4. FetchInv'
  BY <1>1, Zenon DEF FetchInv, AtOffset
<1> QED BY <1>1, <1>2, <1>3, <1>4, Zenon DEF IInv, Types

\* The start offset is resolved to an end of the log, behind all that was seen.
LEMMA ResolveKeeps ==
    ASSUME IInv, Resolve
    PROVE  IInv'
<1>1. /\ fut = "resolve"
      /\ UNCHANGED <<visible, log_start, start_offset, next_offset, buffer, delivered>>
  BY DEF Resolve, log_vars, stream_vars
<1>2. CASE Fail
  BY <1>1, <1>2, FailKeeps, Zenon
<1>3. CASE /\ offset' = IF start_offset.kind = "Earliest" THEN log_start ELSE Watermark
           /\ fut' = "fetch" /\ UNCHANGED result
  <2>1. Seen' = Seen /\ Watermark' = Watermark
    BY <1>1, Zenon DEF Seen, Watermark
  <2>2. SeenInv' /\ NextInv'
    BY <1>1, <2>1, Zenon DEF IInv, SeenInv, NextInv, Increasing, Behind, CompleteUpTo, FirstOffset
  <2>3. /\ next_offset = None /\ start_offset.kind # "At" /\ Behind(log_start) /\ buffer = <<>>
        /\ start_offset.kind \in {"Earliest", "Latest", "At"}
        /\ log_start \in Nat /\ Watermark \in Nat /\ log_start <= Watermark
    BY <1>1, ConsumerAssumption, WatermarkIs, Zenon DEF IInv, Types, FetchInv, NextInv
  <2>4. offset' \in Nat /\ log_start <= offset' /\ offset' <= Watermark
    BY <1>3, <2>3
  <2>5. Seen \subseteq Nat
    BY ConsumerAssumption, DataIs DEF IInv, SeenInv
  <2>6. Behind(offset)'
    BY <2>1, <2>3, <2>4, <2>5 DEF Behind
  <2>7. CompleteUpTo(offset)'
    <3>1. CASE start_offset.kind = "Latest"
      BY <1>1, <3>1, Zenon DEF CompleteUpTo
    <3>2. CASE start_offset.kind = "Earliest"
      <4>1. offset' = log_start
        BY <1>3, <3>2, Zenon
      <4>2. \A o \in DataOffsets(Log) \cap FirstOffset' .. log_start - 1 : o < log_start
        BY <2>3
      <4> QED BY <1>1, <4>1, <4>2, Zenon DEF CompleteUpTo
    <3> QED BY <2>3, <3>1, <3>2, Zenon
  <2>8. FetchInv'
    BY <1>1, <1>3, <2>1, <2>3, <2>4, <2>6, <2>7, Zenon DEF FetchInv
  <2> QED BY <1>1, <1>3, <2>1, <2>2, <2>8, Zenon DEF IInv, Types
<1> QED BY <1>2, <1>3, Zenon DEF Resolve

\* What a fetch returns is the data from the offset on; out of range means deleted,
\* unless the start offset was given.
LEMMA FetchKeeps ==
    ASSUME IInv, Fetch
    PROVE  IInv'
<1>1. /\ fut = "fetch"
      /\ UNCHANGED <<visible, log_start, start_offset, next_offset, buffer, delivered, offset>>
  BY DEF Fetch, log_vars, stream_vars
<1>2. CASE Fail
  BY <1>1, <1>2, FailKeeps, Zenon
<1>3. Seen' = Seen /\ Watermark' = Watermark
  BY <1>1, Zenon DEF Seen, Watermark
<1>4. SeenInv' /\ NextInv'
  BY <1>1, <1>3, Zenon DEF IInv, SeenInv, NextInv, Increasing, Behind, CompleteUpTo, FirstOffset
<1>5. /\ offset \in Nat /\ Behind(offset) /\ CompleteUpTo(offset) /\ buffer = <<>>
      /\ start_offset.kind # "At" => offset <= Watermark
      /\ visible \in 0 .. Len(Log) /\ log_start \in Nat /\ Watermark \in Nat
  BY <1>1, WatermarkIs, Zenon DEF IInv, Types, FetchInv, AtOffset
<1>6. Behind(offset)' /\ CompleteUpTo(offset)'
  BY <1>1, <1>3, <1>5, Zenon DEF Behind, CompleteUpTo, FirstOffset
<1>7. CASE /\ offset \in log_start .. Watermark /\ fut' = "ready"
           /\ result' = [kind |-> "ok", watermark |-> Watermark,
                         records |-> ExtractRecords(FetchBatches(offset, MaxBatchSize - 1),
                                                    offset)]
  <2>1. PICK h \in Int : /\ h < Watermark
                         /\ result'.records = DataOffsets(Log) \cap offset .. h
    <3>1. result'.records = ExtractRecords(FetchBatches(offset, MaxBatchSize - 1), offset)
      BY <1>7
    <3> QED BY <1>5, <3>1, FetchIs, Zenon
  <2>2. result'.kind = "ok" /\ offset <= Watermark
    BY <1>5, <1>7
  <2>3. FetchInv'
    BY <1>1, <1>3, <1>5, <1>6, <1>7, <2>1, <2>2, Zenon DEF FetchInv
  <2> QED BY <1>1, <1>3, <1>4, <1>7, <2>3, Zenon DEF IInv, Types
<1>8. CASE /\ offset \notin log_start .. Watermark /\ fut' = "ready"
           /\ result' = [kind |-> "out_of_range"]
  <2>1. start_offset.kind # "At" => offset < log_start
    BY <1>5, <1>8
  <2>2. FetchInv'
    BY <1>1, <1>3, <1>5, <1>6, <1>8, <2>1, Zenon DEF FetchInv
  <2> QED BY <1>1, <1>3, <1>4, <1>8, <2>2, Zenon DEF IInv, Types
<1> QED BY <1>2, <1>7, <1>8, Zenon DEF Fetch

\* The records of an answer are the next ones, in order and without a gap.
LEMMA AnswerKeeps ==
    ASSUME IInv, fut = "ready", result.kind = "ok", fut' = "none",
           next_offset' = NextOffset(Sorted(result.records), offset),
           buffer' = buffer \o Sorted(result.records),
           UNCHANGED <<visible, log_start, start_offset, delivered>>
    PROVE  IInv'
<1> DEFINE records == Sorted(result.records)
<1>1. /\ offset \in Nat /\ offset <= Watermark /\ Behind(offset) /\ CompleteUpTo(offset)
      /\ buffer = <<>> /\ visible \in 0 .. Len(Log) /\ log_start \in Nat
      /\ delivered \in Seq(Nat)
  BY Zenon DEF IInv, Types, FetchInv, AtOffset
<1>2. PICK h \in Int : h < Watermark /\ result.records = DataOffsets(Log) \cap offset .. h
  BY Zenon DEF IInv, FetchInv
<1>3. Watermark \in Nat /\ Watermark' = Watermark
  BY <1>1, WatermarkIs, Zenon
<1>4. result.records \in SUBSET Nat /\ IsFiniteSet(result.records)
  <2>1. result.records \in SUBSET (offset .. h) /\ offset .. h \subseteq Nat
    BY <1>1, <1>2
  <2>2. IsFiniteSet(offset .. h)
    BY <1>1, FS_Interval
  <2>3. IsFiniteSet(result.records)
    BY <2>1, <2>2, FS_Subset, Zenon
  <2> QED BY <2>1, <2>3, Zenon
<1>5. records \in Seq(result.records) /\ Increasing(records) /\ Range(records) = result.records
  BY <1>4, SortedIs, Zenon
<1>6. records \in Seq(Nat) /\ DOMAIN records = 1 .. Len(records) /\ Len(records) \in Nat
  BY <1>4, <1>5, SeqMonotonic
<1> HIDE DEF records
<1>7. buffer' = records
  BY <1>1, <1>6 DEF records
<1>8. \A o \in result.records : o \in Nat /\ offset <= o /\ o < Watermark /\ o \in DataOffsets(Log)
  BY <1>1, <1>2, <1>3
<1>9. Range(buffer) = {} /\ Range(delivered) = Seen /\ Seen' = Seen \cup result.records
  <2>1. Range(buffer) = {}
    BY <1>1 DEF Range
  <2> QED BY <1>5, <1>7, <2>1, Zenon DEF Seen
<1>10. SeenInv'
  <2>1. ASSUME NEW i \in DOMAIN delivered, NEW j \in DOMAIN records
        PROVE  delivered[i] < records[j]
    <3>1. delivered[i] \in Seen /\ records[j] \in result.records /\ delivered[i] \in Nat
      BY <1>1, <1>5, <1>9, SMTT(30) DEF Range
    <3> QED BY <1>1, <1>8, <3>1 DEF Behind
  <2> QED BY <1>5, <1>7, <1>8, <1>9, <2>1, Zenon DEF IInv, SeenInv, Increasing
<1>11. next_offset' \in Nat
  <2>1. CASE records = <<>>
    BY <1>1, <2>1 DEF NextOffset, records
  <2>2. CASE records # <<>>
    <3>1. Len(records) \in DOMAIN records
      BY <1>6, <2>2
    <3>2. records[Len(records)] \in Nat
      BY <1>6, <3>1
    <3>3. next_offset' = records[Len(records)] + 1
      BY <2>2, Zenon DEF NextOffset, records
    <3> QED BY <3>2, <3>3
  <2> QED BY <2>1, <2>2
<1>12. Types'
  BY <1>1, <1>3, <1>6, <1>7, <1>11, Zenon DEF IInv, Types
<1>13. NextInv'
  <2>1. CASE records = <<>>
    <3>1. next_offset' = offset /\ result.records = {}
      BY <1>5, <2>1 DEF NextOffset, Range, records
    <3>2. Behind(next_offset)' /\ CompleteUpTo(next_offset)'
      BY <1>1, <1>9, <3>1, Zenon DEF Behind, CompleteUpTo, FirstOffset
    <3> QED BY <1>1, <1>3, <1>11, <3>1, <3>2 DEF NextInv, None
  <2>2. CASE records # <<>>
    <3> DEFINE z == records[Len(records)]
    <3>1. next_offset' = z + 1
      BY <2>2, Zenon DEF NextOffset, records
    <3>2. Len(records) \in DOMAIN records
      BY <1>6, <2>2
    <3>3. z \in result.records
      BY <1>5, <3>2, Zenon DEF Range
    <3>4. \A o \in result.records : o <= z
      <4> SUFFICES ASSUME NEW i \in DOMAIN records PROVE records[i] <= z
        BY <1>5, Zenon DEF Range
      <4>1. records[i] \in Nat /\ z \in Nat
        BY <1>6, <3>2
      <4>2. CASE i = Len(records)
        BY <4>1, <4>2
      <4>3. CASE i < Len(records)
        BY <1>5, <3>2, <4>1, <4>3 DEF Increasing
      <4> QED BY <1>6, <4>2, <4>3
    <3> HIDE DEF z
    <3>5. z \in Nat /\ offset <= z /\ z < Watermark /\ z <= h
      BY <1>1, <1>2, <1>8, <3>3
    <3>6. Behind(next_offset)'
      <4> SUFFICES ASSUME NEW o \in Seen' PROVE o < z + 1
        BY <3>1, Zenon DEF Behind
      <4>1. CASE o \in Seen
        <5>1. o \in Nat
          BY <4>1, ConsumerAssumption, DataIs, SMTT(30) DEF IInv, SeenInv
        <5> QED BY <1>1, <3>5, <4>1, <5>1 DEF Behind
      <4>2. CASE o \in result.records
        BY <1>8, <3>4, <3>5, <4>2
      <4> QED BY <1>9, <4>1, <4>2, Zenon
    <3>7. CompleteUpTo(next_offset)'
      <4> SUFFICES ASSUME start_offset.kind # "Latest",
                          NEW o \in DataOffsets(Log) \cap FirstOffset .. z
                   PROVE  o \in Seen' \/ o < log_start
        <5>1. next_offset' - 1 = z
          BY <3>1, <3>5
        <5> QED BY <5>1, Zenon DEF CompleteUpTo, FirstOffset
      <4>1. FirstOffset \in Nat
        BY ConsumerAssumption, Zenon DEF FirstOffset, IInv, Types
      <4>2. o \in Nat /\ FirstOffset <= o /\ o <= z
        BY <3>5, <4>1
      <4>3. CASE o < offset
        <5>1. o \in DataOffsets(Log) \cap FirstOffset .. offset - 1
          BY <1>1, <4>1, <4>2, <4>3
        <5> QED BY <1>1, <1>9, <5>1, Zenon DEF CompleteUpTo
      <4>4. CASE offset <= o
        <5>1. o \in result.records
          BY <1>1, <1>2, <3>5, <4>2, <4>4
        <5> QED BY <1>9, <5>1, Zenon
      <4> QED BY <1>1, <4>2, <4>3, <4>4
    <3> QED BY <1>3, <1>11, <3>1, <3>5, <3>6, <3>7 DEF NextInv, None
  <2> QED BY <2>1, <2>2, Zenon
<1>14. FetchInv'
  BY Zenon DEF FetchInv, AtOffset
<1> QED BY <1>10, <1>12, <1>13, <1>14, Zenon DEF IInv

\* The future is done: an answer, a restart, or the end.
LEMMA CompleteKeeps ==
    ASSUME IInv, Complete
    PROVE  IInv'
<1>1. /\ fut = "ready" /\ fut' = "none"
      /\ UNCHANGED <<visible, log_start, start_offset, delivered>>
  BY DEF Complete, log_vars
<1>2. CASE /\ result.kind = "ok"
           /\ next_offset' = NextOffset(Sorted(result.records), offset)
           /\ buffer' = buffer \o Sorted(result.records)
  BY <1>1, <1>2, AnswerKeeps, Zenon
<1>3. CASE /\ result.kind = "out_of_range" /\ start_offset.kind # "At"
           /\ next_offset' = None /\ UNCHANGED buffer
  <2>1. Seen' = Seen /\ Watermark' = Watermark
    BY <1>1, <1>3, Zenon DEF Seen, Watermark
  <2>2. offset \in Nat /\ Behind(offset) /\ offset < log_start /\ log_start \in Nat
    BY <1>1, <1>3, Zenon DEF IInv, Types, FetchInv, AtOffset
  <2>3. Behind(log_start)
    <3>1. Seen \subseteq Nat
      BY ConsumerAssumption, DataIs DEF IInv, SeenInv
    <3> QED BY <2>2, <3>1 DEF Behind
  <2>4. NextInv'
    BY <1>1, <1>3, <2>1, <2>3, Zenon DEF NextInv, Behind
  <2>5. SeenInv' /\ FetchInv' /\ Types'
    BY <1>1, <1>3, <2>1, Zenon DEF IInv, SeenInv, Increasing, FetchInv, AtOffset, Types
  <2> QED BY <2>4, <2>5, Zenon DEF IInv
<1>4. CASE UNCHANGED <<next_offset, buffer>>
  <2>1. Seen' = Seen /\ Watermark' = Watermark
    BY <1>1, <1>4, Zenon DEF Seen, Watermark
  <2>2. NextInv'
    BY <1>1, <1>4, <2>1, Zenon DEF IInv, NextInv, Behind, CompleteUpTo, FirstOffset
  <2>3. SeenInv' /\ FetchInv' /\ Types'
    BY <1>1, <1>4, <2>1, Zenon DEF IInv, SeenInv, Increasing, FetchInv, AtOffset, Types
  <2> QED BY <2>2, <2>3 DEF IInv
<1> QED BY <1>2, <1>3, <1>4, Zenon DEF Complete, RestartOffset

LEMMA NextKeeps ==
    ASSUME IInv, [Next]_vars
    PROVE  IInv'
<1> USE DEF log_vars, stream_vars
<1>1. visible \in 0 .. Len(Log) /\ log_start \in Nat /\ log_start <= Watermark /\ Len(Log) \in Nat
  BY ConsumerAssumption, Zenon DEF IInv, Types
<1>2. Watermark \in Nat
  BY <1>1, WatermarkIs, Zenon
<1>3. CASE Append1
  <2>1. visible' \in 0 .. Len(Log) /\ visible' = visible + 1
    BY <1>1, <1>3 DEF Append1
  <2>2. Watermark' \in Nat /\ Watermark <= Watermark'
    BY <1>1, <2>1, WatermarkIs, Zenon
  <2>3. log_start' = log_start /\ log_start' <= Watermark'
    BY <1>1, <1>2, <1>3, <2>2 DEF Append1
  <2> QED BY <1>1, <1>3, <2>1, <2>2, <2>3, LogKeeps DEF Append1
<1>4. CASE Delete
  <2>1. visible' = visible /\ Watermark' = Watermark
    BY <1>1, <1>4, WatermarkIs, Zenon DEF Delete
  <2>2. log_start' \in Nat /\ log_start <= log_start' /\ log_start' <= Watermark
    BY <1>1, <1>2, <1>4 DEF Delete
  <2> QED BY <1>1, <1>2, <1>4, <2>1, <2>2, LogKeeps DEF Delete
<1>5. CASE UNCHANGED vars
  <2>1. visible' = visible /\ Watermark' = Watermark /\ log_start' = log_start
    BY <1>1, <1>5, WatermarkIs, Zenon DEF vars
  <2> QED BY <1>1, <1>2, <1>5, <2>1, LogKeeps DEF vars
<1> QED
  BY <1>3, <1>4, <1>5, YieldKeeps, StartFetchKeeps, ResolveKeeps, FetchKeeps, CompleteKeeps, Zenon
  DEF Next, Poll, Ended

-----------------------------------------------------------------------------
(* Theorems                                                                *)

\* The invariant is inductive.
THEOREM Invariance == Spec => []IInv
<1>1. Init => IInv
  <2> SUFFICES ASSUME Init PROVE IInv
    OBVIOUS
  <2>1. /\ visible \in 0 .. Len(Log) /\ log_start = 0 /\ start_offset \in StartOffsets
        /\ next_offset = None /\ buffer = <<>> /\ delivered = <<>> /\ fut = "none"
    BY DEF Init
  <2>2. Seen = {}
    BY <2>1 DEF Seen, Range
  <2>3. Types
    BY <2>1, WatermarkIs DEF Types
  <2>4. SeenInv
    BY <2>1, <2>2 DEF SeenInv, Increasing
  <2>5. NextInv
    BY <2>1, <2>2, Zenon DEF NextInv, Behind
  <2>6. FetchInv
    BY <2>1 DEF FetchInv, AtOffset
  <2> QED BY <2>3, <2>4, <2>5, <2>6, Zenon DEF IInv
<1>2. IInv /\ [Next]_vars => IInv'
  BY NextKeeps
<1> QED BY <1>1, <1>2, PTL DEF Spec

\* poll_next yields only data records, each once and in the order of their offsets,
\* whatever is appended and deleted meanwhile and however often it starts over.
THEOREM DeliveryIsOrdered == Spec => []DeliversInOrder
<1>1. IInv => DeliversInOrder
  BY Zenon DEF IInv, SeenInv, Seen, Increasing, DeliversInOrder
<1> QED BY <1>1, Invariance, PTL

\* A record that poll_next went past without yielding it had been deleted.
THEOREM DeliveryHasNoGap == Spec => []NoGap
<1>1. IInv => NoGap
  <2> SUFFICES ASSUME IInv, start_offset.kind # "Latest", NEW j \in DOMAIN delivered,
                      NEW o \in DataOffsets(Log) \cap FirstOffset .. delivered[j]
               PROVE  o \in Range(delivered) \/ o < log_start
    BY Zenon DEF NoGap
  <2>1. /\ delivered \in Seq(Nat) /\ buffer \in Seq(Nat) /\ log_start \in Nat
        /\ delivered[j] \in Seen /\ delivered[j] \in Nat /\ FirstOffset \in Nat
    BY ConsumerAssumption DEF IInv, Types, Seen, Range, FirstOffset
  <2>2. o \in Nat /\ o <= delivered[j] /\ FirstOffset <= o
    BY <2>1
  <2>3. CASE next_offset = None
    <3>1. delivered[j] < log_start
      BY <2>1, <2>3, Zenon DEF IInv, NextInv, Behind
    <3> QED BY <2>1, <2>2, <3>1
  <2>4. CASE next_offset # None
    <3>1. next_offset \in Nat /\ delivered[j] < next_offset
      BY <2>1, <2>4, Zenon DEF IInv, Types, NextInv, Behind
    <3>2. o \in DataOffsets(Log) \cap FirstOffset .. next_offset - 1
      BY <2>1, <2>2, <3>1
    <3>3. o \in Seen \/ o < log_start
      BY <2>4, <3>2, Zenon DEF IInv, NextInv, CompleteUpTo
    <3>4. o \notin Range(buffer)
      <4> SUFFICES ASSUME NEW i \in DOMAIN buffer, o = buffer[i] PROVE FALSE
        BY Zenon DEF Range
      <4>1. delivered[j] < o
        BY DEF IInv, SeenInv
      <4> QED BY <2>1, <2>2, <4>1
    <3> QED BY <3>3, <3>4, Zenon DEF Seen
  <2> QED BY <2>3, <2>4, Zenon
<1> QED BY <1>1, Invariance, PTL
=============================================================================
