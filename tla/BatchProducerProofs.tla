------------------------- MODULE BatchProducerProofs -------------------------
(***************************************************************************)
(* Where the records of the batching producer are, and who waits for them: *)
(* proofs about BatchProducer for any sets of calls, any record sizes and  *)
(* limit, and any failures of the aggregator and of the client.            *)
(*                                                                         *)
(* The parts of the inductive invariant are operators of the inner state,  *)
(* the batches and the log, so that a flush and the push that follows it   *)
(* in the same critical section are two lemmas.                            *)
(***************************************************************************)
EXTENDS BatchProducer, TLAPS

Kinds == {"pending", "ok", "client_error", "dropped"}
Tasks == {"none", "producing", "written"} \cup TaskDone
Batch == [result : [kind : Kinds, offsets : Seq(Int)], task : Tasks, records : Seq(Callers)]

IsInner(i) ==
    /\ DOMAIN i = {"records", "batch_size", "flush_clock", "has_linger_waiter",
                   "pending_flushes"}
    /\ i.records \in Seq(Callers)

In(s, c)    == \E k \in 1 .. Len(s) : s[k] = c
Inj(s)      == \A j, k \in 1 .. Len(s) : s[j] = s[k] => j = k
At(s, t, c) == t \in Nat /\ t + 1 \in 1 .. Len(s) /\ s[t + 1] = c

Shape(i, bs) ==
    /\ IsInner(i)
    /\ bs \in Seq(Batch) /\ Len(bs) > 0 /\ bs[Len(bs)] = NewBatch

\* A record is in the aggregator or in one batch; it is in the log only if the
\* task of its batch has written, and in none of them before its call began.
Owned(i, bs, l, p) ==
    /\ Inj(i.records) /\ l \in Seq(Callers) /\ Inj(l)
    /\ \A b \in 1 .. Len(bs) : Inj(bs[b].records)
    /\ \A b \in 1 .. Len(bs) : \A c \in Callers :
          In(bs[b].records, c) => p[c] # "idle" /\ ~In(i.records, c)
    /\ \A c \in Callers : In(i.records, c) => p[c] # "idle"
    /\ \A b, d \in 1 .. Len(bs) : \A c \in Callers :
          In(bs[b].records, c) /\ In(bs[d].records, c) => b = d
    /\ \A c \in Callers : In(l, c) =>
          \E b \in 1 .. Len(bs) : /\ bs[b].task \notin {"none", "producing"}
                                  /\ In(bs[b].records, c)

\* The tag of a call is the position of its record.
Tagged(i, bs, h, c) ==
    LET b == h[c].batch IN
    /\ b \in 0 .. Len(bs)
    /\ b = Len(bs) => At(i.records, h[c].tag, c)
    /\ b \in 1 .. Len(bs) - 1 =>
          \/ bs[b].task = "none" /\ bs[b].result.kind = "dropped"
          \/ bs[b].task # "none" /\ At(bs[b].records, h[c].tag, c)

\* The offsets of a batch are where its records are in the log.
Located(x, l) ==
    /\ x.task \in {"producing", "written"} => x.result.kind = "pending"
    /\ x.task = "written" \/ (x.task # "none" /\ x.result.kind = "ok") =>
          /\ DOMAIN x.result.offsets = 1 .. Len(x.records)
          /\ \A k \in 1 .. Len(x.records) : /\ x.result.offsets[k] \in 1 .. Len(l)
                                            /\ l[x.result.offsets[k]] = x.records[k]

\* Who has a handle on the current batch relies on a linger task with its token.
Lingering(i, bs, h, lg, tk) ==
    /\ \A c \in Callers : h[c].batch = Len(bs) => i.has_linger_waiter
    /\ i.has_linger_waiter => \E c \in Callers : lg[c] = "sleeping" /\ tk[c] = i.flush_clock

Good(i, bs, p, h, l, lg, tk) ==
    /\ Shape(i, bs) /\ Owned(i, bs, l, p)
    /\ \A c \in Callers : Tagged(i, bs, h, c)
    /\ \A b \in 1 .. Len(bs) : Located(bs[b], l)
    /\ Lingering(i, bs, h, lg, tk)

Maps ==
    /\ DOMAIN pc = Callers /\ DOMAIN handle = Callers
    /\ DOMAIN linger = Callers /\ DOMAIN token = Callers

\* What pending_flushes holds are batches that were handed to a task.
Spawned(i, bs) == \A b \in i.pending_flushes : b \in 1 .. Len(bs) /\ bs[b].task # "none"

PInv ==
    /\ Maps /\ Good(inner, batches, pc, handle, log, linger, token)
    /\ Spawned(inner, batches)

-----------------------------------------------------------------------------
(* Sequences                                                               *)

LEMMA Below == \A m \in Nat : \A b \in 1 .. m - 1 : b \in 1 .. m /\ b # m
OBVIOUS

\* What SequenceTheorems says of Len; that module's theorems would be in the context of
\* every obligation.
LEMMA LenOfSeq ==
    ASSUME NEW S, NEW s \in Seq(S)
    PROVE  /\ Len(s) \in Nat /\ s \in [1 .. Len(s) -> S] /\ DOMAIN s = 1 .. Len(s)
OBVIOUS

LEMMA InRange ==
    \A n \in Nat : /\ n > 0 => n \in 1 .. n
                   /\ \A b \in 1 .. n - 1 : b \in 1 .. n
                   /\ \A b \in 0 .. n : b # 0 /\ b # n => b \in 1 .. n - 1
OBVIOUS

\* What the invariant says of each part of the state.
LEMMA Basics ==
    ASSUME PInv
    PROVE  /\ Maps /\ IsInner(inner) /\ Current = Len(batches)
           /\ Len(batches) \in Nat /\ Current \in Nat /\ Current \in Nat \ {0} /\ Len(batches) > 0
           /\ batches \in Seq(Batch) /\ batches \in [1 .. Len(batches) -> Batch]
           /\ batches[Len(batches)] = NewBatch
           /\ log \in Seq(Callers) /\ Len(log) \in Nat /\ Inj(log)
           /\ Good(inner, batches, pc, handle, log, linger, token)
           /\ Owned(inner, batches, log, pc) /\ Spawned(inner, batches)
           /\ \A c \in Callers : Tagged(inner, batches, handle, c)
           /\ \A b \in 1 .. Len(batches) : Located(batches[b], log)
<1>1. /\ Maps /\ Good(inner, batches, pc, handle, log, linger, token) /\ Spawned(inner, batches)
      /\ Shape(inner, batches) /\ Owned(inner, batches, log, pc)
      /\ \A c \in Callers : Tagged(inner, batches, handle, c)
      /\ \A b \in 1 .. Len(batches) : Located(batches[b], log)
  BY Zenon DEF PInv, Good
<1>2. IsInner(inner) /\ batches \in Seq(Batch) /\ Len(batches) > 0 /\ batches[Len(batches)] = NewBatch
  BY <1>1, Zenon DEF Shape
<1>3. log \in Seq(Callers) /\ Inj(log)
  BY <1>1, Zenon DEF Owned
<1>4. Len(log) \in Nat /\ Len(batches) \in Nat /\ batches \in [1 .. Len(batches) -> Batch]
  BY <1>2, <1>3, LenOfSeq, Zenon
<1>5. Len(batches) \in Nat \ {0}
  BY <1>2, <1>4
<1> QED BY <1>1, <1>2, <1>3, <1>4, <1>5, Zenon DEF Current

LEMMA FunctionIsSeq ==
    ASSUME NEW S, NEW n \in Nat, NEW f \in [1 .. n -> S]
    PROVE  f \in Seq(S) /\ Len(f) = n
<1>1. f \in Seq(S)
  OBVIOUS
<1> QED BY <1>1, LenOfSeq

LEMMA UpdateSeq ==
    ASSUME NEW S, NEW s \in Seq(S), NEW k \in 1 .. Len(s), NEW x \in S
    PROVE  /\ [s EXCEPT ![k] = x] \in Seq(S) /\ Len([s EXCEPT ![k] = x]) = Len(s)
           /\ [s EXCEPT ![k] = x][k] = x
           /\ \A j \in 1 .. Len(s) : j # k => [s EXCEPT ![k] = x][j] = s[j]
<1>1. s \in [1 .. Len(s) -> S] /\ Len(s) \in Nat
  BY LenOfSeq
<1>2. [s EXCEPT ![k] = x] \in [1 .. Len(s) -> S]
  BY <1>1
<1>3. [s EXCEPT ![k] = x] \in Seq(S) /\ Len([s EXCEPT ![k] = x]) = Len(s)
  BY <1>1, <1>2, FunctionIsSeq
<1> QED BY <1>1, <1>3

LEMMA AppendIn ==
    ASSUME NEW S, NEW s \in Seq(S), NEW c \in S
    PROVE  /\ Append(s, c) \in Seq(S) /\ Len(Append(s, c)) = Len(s) + 1
           /\ \A d : In(Append(s, c), d) <=> In(s, d) \/ d = c
           /\ Inj(s) /\ ~In(s, c) => Inj(Append(s, c))
           /\ \A t, d : At(s, t, d) => At(Append(s, c), t, d)
           /\ At(Append(s, c), Len(s), c)
<1>1. /\ Append(s, c) \in Seq(S) /\ Len(Append(s, c)) = Len(s) + 1 /\ Len(s) \in Nat
      /\ \A k \in 1 .. Len(s) : Append(s, c)[k] = s[k]
      /\ Append(s, c)[Len(s) + 1] = c
  BY LenOfSeq
<1>2. \A k : k \in 1 .. Len(s) + 1 <=> k \in 1 .. Len(s) \/ k = Len(s) + 1
  BY <1>1
<1>3. \A d : In(Append(s, c), d) <=> In(s, d) \/ d = c
  BY <1>1, <1>2 DEF In
<1>4. Inj(s) /\ ~In(s, c) => Inj(Append(s, c))
  BY <1>1, <1>2 DEF In, Inj
<1>5. ASSUME NEW t, NEW d, At(s, t, d) PROVE At(Append(s, c), t, d)
  BY <1>1, <1>5 DEF At
<1>6. At(Append(s, c), Len(s), c)
  BY <1>1 DEF At
<1> QED BY <1>1, <1>3, <1>4, <1>5, <1>6

LEMMA ConcatIn ==
    ASSUME NEW S, NEW s \in Seq(S), NEW t \in Seq(S)
    PROVE  /\ s \o t \in Seq(S) /\ Len(s \o t) = Len(s) + Len(t)
           /\ \A k \in 1 .. Len(s) : (s \o t)[k] = s[k]
           /\ \A k \in 1 .. Len(t) : (s \o t)[Len(s) + k] = t[k]
           /\ \A d : In(s \o t, d) => In(s, d) \/ In(t, d)
           /\ Inj(s) /\ Inj(t) /\ (\A c \in S : ~(In(s, c) /\ In(t, c))) => Inj(s \o t)
<1>1. /\ s \o t \in Seq(S) /\ Len(s \o t) = Len(s) + Len(t)
      /\ Len(s) \in Nat /\ Len(t) \in Nat
      /\ \A k \in 1 .. Len(s) : (s \o t)[k] = s[k]
      /\ \A k \in 1 .. Len(t) : (s \o t)[Len(s) + k] = t[k]
  BY LenOfSeq
<1>2. ASSUME NEW k \in 1 .. Len(s \o t)
      PROVE  \/ k \in 1 .. Len(s) /\ (s \o t)[k] = s[k]
             \/ /\ k - Len(s) \in 1 .. Len(t) /\ k = Len(s) + (k - Len(s))
                /\ (s \o t)[k] = t[k - Len(s)]
  <2>1. k \in Int /\ (k \in 1 .. Len(s) \/ k - Len(s) \in 1 .. Len(t))
    BY <1>1
  <2>2. k = Len(s) + (k - Len(s))
    BY <1>1, <2>1
  <2> QED BY <1>1, <2>1, <2>2
<1>3. \A d : In(s \o t, d) => In(s, d) \/ In(t, d)
  BY <1>2 DEF In
<1>4. ASSUME Inj(s), Inj(t), \A c \in S : ~(In(s, c) /\ In(t, c)) PROVE Inj(s \o t)
  <2> SUFFICES ASSUME NEW j \in 1 .. Len(s \o t), NEW k \in 1 .. Len(s \o t),
                      (s \o t)[j] = (s \o t)[k]
               PROVE  j = k
    BY Zenon DEF Inj
  <2>1. CASE j \in 1 .. Len(s) /\ (s \o t)[j] = s[j] /\ k \in 1 .. Len(s) /\ (s \o t)[k] = s[k]
    BY <1>4, <2>1, Zenon DEF Inj
  <2>2. ASSUME NEW x \in 1 .. Len(s), NEW y \in 1 .. Len(t), s[x] = t[y] PROVE FALSE
    <3>1. s[x] \in S /\ In(s, s[x]) /\ In(t, s[x])
      BY <2>2, LenOfSeq, Zenon DEF In
    <3> QED BY <1>4, <3>1
  <2>3. CASE /\ j - Len(s) \in 1 .. Len(t) /\ j = Len(s) + (j - Len(s))
             /\ (s \o t)[j] = t[j - Len(s)]
             /\ k - Len(s) \in 1 .. Len(t) /\ k = Len(s) + (k - Len(s))
             /\ (s \o t)[k] = t[k - Len(s)]
    <3>1. j - Len(s) = k - Len(s)
      BY <1>4, <2>3, Zenon DEF Inj
    <3> QED BY <2>3, <3>1
  <2> QED BY <1>2, <2>1, <2>2, <2>3
<1> QED BY <1>1, <1>3, <1>4

-----------------------------------------------------------------------------
(* The operations on the inner state and the batches                       *)

LEMMA PushFields ==
    ASSUME NEW i, IsInner(i), NEW c \in Callers
    PROVE  /\ IsInner(PushInner(i, c))
           /\ PushInner(i, c).records = Append(i.records, c)
           /\ PushInner(i, c).flush_clock = i.flush_clock
           /\ PushInner(i, c).has_linger_waiter
<1>1. Append(i.records, c) \in Seq(Callers)
  BY DEF IsInner
<1>2. /\ PushInner(i, c).records = Append(i.records, c)
      /\ PushInner(i, c).flush_clock = i.flush_clock
  BY DEF PushInner, IsInner
<1>3. PushInner(i, c).has_linger_waiter
  BY DEF PushInner, IsInner
<1>4. DOMAIN PushInner(i, c) = DOMAIN i
  BY DEF PushInner, IsInner
<1> QED BY <1>1, <1>2, <1>3, <1>4 DEF IsInner

LEMMA PushKeeps ==
    ASSUME NEW i, NEW bs, NEW p, NEW h, NEW l, NEW lg, NEW tk,
           NEW p2, NEW h2, NEW lg2, NEW tk2, NEW c \in Callers,
           Good(i, bs, p, h, l, lg, tk), p[c] = "idle", DOMAIN h = Callers,
           p2[c] # "idle", \A d \in Callers : d # c => p2[d] = p[d],
           h2 = [h EXCEPT ![c] = [batch |-> Len(bs), tag |-> TagOf(i)]],
           \/ i.has_linger_waiter /\ lg2 = lg /\ tk2 = tk
           \/ lg2[c] = "sleeping" /\ tk2[c] = i.flush_clock
    PROVE  Good(PushInner(i, c), bs, p2, h2, l, lg2, tk2)
<1> DEFINE j == PushInner(i, c)
<1>1. IsInner(i) /\ i.records \in Seq(Callers) /\ bs \in Seq(Batch) /\ Len(bs) \in Nat
  BY DEF Good, Shape, IsInner
<1>2. /\ IsInner(j) /\ j.records = Append(i.records, c)
      /\ j.flush_clock = i.flush_clock /\ j.has_linger_waiter
  BY <1>1, PushFields
<1>3. /\ \A d : In(j.records, d) <=> In(i.records, d) \/ d = c
      /\ Inj(i.records) /\ ~In(i.records, c) => Inj(j.records)
      /\ \A t, d : At(i.records, t, d) => At(j.records, t, d)
      /\ At(j.records, Len(i.records), c)
  BY <1>1, <1>2, AppendIn
<1> HIDE DEF j
<1>4. Shape(j, bs)
  BY <1>2, Zenon DEF Good, Shape
<1>5. Owned(j, bs, l, p2)
  <2>1. Owned(i, bs, l, p)
    BY DEF Good
  <2>2. ~In(i.records, c) /\ \A b \in 1 .. Len(bs) : ~In(bs[b].records, c)
    BY <2>1 DEF Owned
  <2>3. Inj(j.records)
    BY <1>3, <2>1, <2>2 DEF Owned
  <2> QED BY <1>3, <2>1, <2>2, <2>3 DEF Owned
<1>6. h2[c] = [batch |-> Len(bs), tag |-> Len(i.records)] /\ \A d \in Callers : d # c => h2[d] = h[d]
  BY DEF TagOf
<1>7. ASSUME NEW d \in Callers PROVE Tagged(j, bs, h2, d)
  <2>1. CASE d = c
    BY <1>1, <1>3, <1>6, <2>1 DEF Tagged
  <2>2. CASE d # c
    BY <1>3, <1>6, <2>2 DEF Tagged, Good
  <2> QED BY <2>1, <2>2, Zenon
<1>8. Lingering(j, bs, h2, lg2, tk2)
  BY <1>2, Zenon DEF Lingering, Good
<1>9. \A b \in 1 .. Len(bs) : Located(bs[b], l)
  BY DEF Good
<1> QED BY <1>4, <1>5, <1>7, <1>8, <1>9, Zenon DEF Good, j

\* A step that pushes nothing and flushes nothing.
LEMMA MoveKeeps ==
    ASSUME NEW i, NEW bs, NEW p, NEW h, NEW l, NEW lg, NEW tk, NEW p2, NEW lg2,
           Good(i, bs, p, h, l, lg, tk),
           \A d \in Callers : p2[d] = "idle" => p[d] = "idle",
           \A d \in Callers : lg[d] = "sleeping" /\ tk[d] = i.flush_clock => lg2[d] = "sleeping"
    PROVE  Good(i, bs, p2, h, l, lg2, tk)
<1>1. Owned(i, bs, l, p2)
  BY DEF Good, Owned
<1>2. Lingering(i, bs, h, lg2, tk)
  BY DEF Good, Lingering
<1> QED BY <1>1, <1>2, Zenon DEF Good

\* The tasks of flush() are not part of the invariant.
LEMMA TakeTasks ==
    ASSUME NEW i, NEW bs, NEW p, NEW h, NEW l, NEW lg, NEW tk,
           Good(i, bs, p, h, l, lg, tk)
    PROVE  Good([i EXCEPT !.pending_flushes = {}], bs, p, h, l, lg, tk)
<1> DEFINE j == [i EXCEPT !.pending_flushes = {}]
<1>1. IsInner(i)
  BY DEF Good, Shape
<1>2. /\ IsInner(j) /\ j.records = i.records /\ j.flush_clock = i.flush_clock
      /\ j.has_linger_waiter = i.has_linger_waiter
  BY <1>1, Zenon DEF IsInner
<1> HIDE DEF j
<1>3. Shape(j, bs) /\ Owned(j, bs, l, p)
  BY <1>2, Zenon DEF Good, Shape, Owned
<1>4. \A c \in Callers : Tagged(j, bs, h, c)
  BY <1>2, Zenon DEF Good, Tagged
<1>5. Lingering(j, bs, h, lg, tk)
  BY <1>2, Zenon DEF Good, Lingering
<1> QED BY <1>3, <1>4, <1>5, Zenon DEF Good, j

\* What a flush makes of the batches.
LEMMA FlushedBatches ==
    ASSUME NEW i, IsInner(i), NEW bs \in Seq(Batch), Len(bs) > 0, bs[Len(bs)] = NewBatch,
           NEW ok \in BOOLEAN
    PROVE  LET n == Len(bs)
               fs == BackgroundFlush(i, bs, ok) IN
           /\ fs \in Seq(Batch) /\ Len(fs) = n + 1 /\ fs[n + 1] = NewBatch
           /\ \A b \in 1 .. n - 1 : fs[b] = bs[b]
           /\ ~ok => fs[n].task = "none" /\ fs[n].result.kind = "dropped" /\ fs[n].records = <<>>
           /\ ok /\ i.records = <<>> => fs[n].task = "none" /\ fs[n].records = <<>>
           /\ ok /\ i.records # <<>> => /\ fs[n].task = "producing" /\ fs[n].records = i.records
                                        /\ fs[n].result.kind = "pending"
<1> DEFINE n == Len(bs)
           dropped == [result |-> [kind |-> "dropped", offsets |-> <<>>], task |-> "none",
                       records |-> <<>>]
           answered == [result |-> [kind |-> "ok", offsets |-> <<>>], task |-> "none",
                        records |-> <<>>]
           taken == [result |-> Pending, task |-> "producing", records |-> i.records]
           x == IF ~ok THEN dropped ELSE IF i.records = <<>> THEN answered ELSE taken
           es == [bs EXCEPT ![n] = x]
<1>1. bs \in [1 .. n -> Batch] /\ n \in Nat /\ n \in 1 .. n
  BY LenOfSeq
<1>2. dropped \in Batch /\ answered \in Batch /\ taken \in Batch /\ NewBatch \in Batch
  BY DEF NewBatch, Pending, Batch, IsInner, Kinds, Tasks
<1>3. /\ [NewBatch EXCEPT !.result.kind = "dropped"] = dropped
      /\ [NewBatch EXCEPT !.result.kind = "ok"] = answered
      /\ [NewBatch EXCEPT !.task = "producing", !.records = i.records] = taken
  <2>1. \A k : [Pending EXCEPT !.kind = k] = [kind |-> k, offsets |-> <<>>]
    BY DEF Pending
  <2>2. \A r : [NewBatch EXCEPT !.result = r] = [result |-> r, task |-> "none", records |-> <<>>]
    BY DEF NewBatch
  <2>3. NewBatch.result = Pending
    BY DEF NewBatch
  <2>4. [NewBatch EXCEPT !.task = "producing", !.records = i.records] = taken
    <3>1. [NewBatch EXCEPT !.task = "producing"] =
              [result |-> Pending, task |-> "producing", records |-> <<>>]
      BY DEF NewBatch
    <3>2. [[result |-> Pending, task |-> "producing", records |-> <<>>] EXCEPT
              !.records = i.records] = taken
      OBVIOUS
    <3> QED BY <3>1, <3>2, Zenon
  <2> QED BY <2>1, <2>2, <2>3, <2>4, Zenon
<1>4. BackgroundFlush(i, bs, ok) = Append(es, NewBatch)
  <2>1. /\ [bs[Len(bs)] EXCEPT !.result.kind = "dropped"] = dropped
        /\ [bs[Len(bs)] EXCEPT !.result.kind = "ok"] = answered
        /\ [bs[Len(bs)] EXCEPT !.task = "producing", !.records = i.records] = taken
    BY <1>3, Zenon
  <2> HIDE DEF dropped, answered, taken
  <2> QED BY <2>1, Zenon DEF BackgroundFlush
<1>5. /\ x \in Batch
      /\ ~ok => x.task = "none" /\ x.result.kind = "dropped" /\ x.records = <<>>
      /\ ok /\ i.records = <<>> => x.task = "none" /\ x.records = <<>>
      /\ ok /\ i.records # <<>> => /\ x.task = "producing" /\ x.records = i.records
                                   /\ x.result.kind = "pending"
  BY <1>2 DEF Pending
<1> HIDE DEF x
<1>6. \A b \in 1 .. n - 1 : b \in 1 .. n /\ b # n
  BY <1>1, Below, Zenon
<1>7. /\ es \in Seq(Batch) /\ Len(es) = n /\ es[n] = x
      /\ \A b \in 1 .. n : b # n => es[b] = bs[b]
  <2>1. x \in Batch
    BY <1>5
  <2>2. es \in [1 .. n -> Batch]
    BY <1>1, <2>1
  <2>3. es[n] = x
    BY <1>1
  <2>4. \A b \in 1 .. n : b # n => es[b] = bs[b]
    BY <1>1, Zenon
  <2> HIDE DEF es
  <2>5. es \in Seq(Batch) /\ Len(es) = n
    BY <1>1, <2>2, FunctionIsSeq, Zenon
  <2> QED BY <2>3, <2>4, <2>5
<1> HIDE DEF es
<1>8. /\ Append(es, NewBatch) \in Seq(Batch) /\ Len(Append(es, NewBatch)) = n + 1
      /\ \A b \in 1 .. n : Append(es, NewBatch)[b] = es[b]
      /\ Append(es, NewBatch)[n + 1] = NewBatch
  BY <1>2, <1>7
<1>9. Append(es, NewBatch)[n] = x /\ \A b \in 1 .. n - 1 : Append(es, NewBatch)[b] = bs[b]
  BY <1>1, <1>6, <1>7, <1>8, Zenon
<1> QED BY <1>4, <1>5, <1>8, <1>9

LEMMA FlushedInner ==
    ASSUME NEW i, IsInner(i), NEW bs, NEW ok \in BOOLEAN
    PROVE  LET j == FlushInner(i, bs, ok) IN
           /\ IsInner(j) /\ ~j.has_linger_waiter
           /\ j.records = IF ok THEN <<>> ELSE i.records
<1> DEFINE j == FlushInner(i, bs, ok)
<1>1. DOMAIN j = {"records", "batch_size", "flush_clock", "has_linger_waiter", "pending_flushes"}
  BY DEF FlushInner
<1>2. j.records = IF ok THEN <<>> ELSE i.records
  BY DEF FlushInner, RecordsAfterFlush
<1>3. ~j.has_linger_waiter
  BY DEF FlushInner, FlagAfterFlush
<1>4. j.records \in Seq(Callers)
  BY <1>2 DEF IsInner
<1> QED BY <1>1, <1>2, <1>3, <1>4, Zenon DEF IsInner

LEMMA EmptyIn == Inj(<<>>) /\ (\A c : ~In(<<>>, c)) /\ (\A t, c : ~At(<<>>, t, c))
BY DEF Inj, In, At

LEMMA FlushKeeps ==
    ASSUME NEW i, NEW bs, NEW p, NEW h, NEW l, NEW lg, NEW lg2, NEW tk, NEW ok \in BOOLEAN,
           Good(i, bs, p, h, l, lg, tk)
    PROVE  Good(FlushInner(i, bs, ok), BackgroundFlush(i, bs, ok), p, h, l, lg2, tk)
<1> DEFINE n == Len(bs)
           fs == BackgroundFlush(i, bs, ok)
           j == FlushInner(i, bs, ok)
<1>1. /\ IsInner(i) /\ bs \in Seq(Batch) /\ Len(bs) > 0 /\ bs[Len(bs)] = NewBatch
      /\ n \in Nat
  BY DEF Good, Shape
<1>2. IsInner(j) /\ ~j.has_linger_waiter /\ j.records = IF ok THEN <<>> ELSE i.records
  BY <1>1, FlushedInner, Zenon
<1>3. /\ fs \in Seq(Batch) /\ Len(fs) = n + 1 /\ fs[n + 1] = NewBatch
      /\ \A b \in 1 .. n - 1 : fs[b] = bs[b]
      /\ ~ok => fs[n].task = "none" /\ fs[n].result.kind = "dropped" /\ fs[n].records = <<>>
      /\ ok /\ i.records = <<>> => fs[n].task = "none" /\ fs[n].records = <<>>
      /\ ok /\ i.records # <<>> => /\ fs[n].task = "producing" /\ fs[n].records = i.records
                                   /\ fs[n].result.kind = "pending"
  BY <1>1, FlushedBatches
<1>4. NewBatch.records = <<>> /\ NewBatch.task = "none"
  BY DEF NewBatch
<1>5. Good(i, bs, p, h, l, lg, tk)
  OBVIOUS
<1> HIDE DEF j, fs, n
<1>6. \A b \in 1 .. n + 1 : \/ b \in 1 .. n - 1 /\ fs[b] = bs[b]
                            \/ b = n
                            \/ b = n + 1 /\ fs[b] = NewBatch
  BY <1>1, <1>3
<1>7. Shape(j, fs)
  BY <1>1, <1>2, <1>3 DEF Shape
<1>8. Owned(j, fs, l, p)
  <2>1. Owned(i, bs, l, p)
    BY <1>5, Zenon DEF Good
  <2>2. ASSUME NEW b \in 1 .. n + 1
        PROVE  \/ b \in 1 .. n - 1 /\ fs[b].records = bs[b].records
               \/ b = n /\ ok /\ fs[b].records = i.records /\ j.records = <<>>
               \/ fs[b].records = <<>>
    BY <1>2, <1>3, <1>4, <1>6, <2>2, Zenon
  <2>3. \A b \in 1 .. n - 1 : b \in 1 .. n /\ b \in 1 .. n + 1 /\ b # n
    BY <1>1
  <2>4. Inj(j.records) /\ (\A c : In(j.records, c) => In(i.records, c))
    BY <1>2, <2>1, EmptyIn, Zenon DEF Owned
  <2>5. \A b \in 1 .. n + 1 : Inj(fs[b].records)
    BY <2>1, <2>2, <2>3, EmptyIn, Zenon DEF Owned, n
  <2>6. ASSUME NEW b \in 1 .. n + 1, NEW c \in Callers, In(fs[b].records, c)
        PROVE  \/ b \in 1 .. n - 1 /\ b \in 1 .. n /\ In(bs[b].records, c)
               \/ b = n /\ In(i.records, c) /\ ~In(j.records, c)
    BY <2>2, <2>3, <2>6, EmptyIn, Zenon
  <2>7. \A b \in 1 .. n + 1 : \A c \in Callers :
            In(fs[b].records, c) => p[c] # "idle" /\ ~In(j.records, c)
    BY <2>1, <2>4, <2>6, Zenon DEF Owned, n
  <2>8. \A b, d \in 1 .. n + 1 : \A c \in Callers :
            In(fs[b].records, c) /\ In(fs[d].records, c) => b = d
    BY <2>1, <2>6, Zenon DEF Owned, n
  <2>9. ASSUME NEW c \in Callers, In(l, c)
        PROVE  \E b \in 1 .. n + 1 : fs[b].task \notin {"none", "producing"} /\ In(fs[b].records, c)
    <3>1. PICK b \in 1 .. n : bs[b].task \notin {"none", "producing"} /\ In(bs[b].records, c)
      BY <2>1, <2>9, Zenon DEF Owned, n
    <3>2. b # n
      BY <1>1, <1>4, <3>1, Zenon DEF n
    <3>3. b \in 1 .. n - 1 /\ b \in 1 .. n + 1
      BY <1>1, <3>1, <3>2
    <3> QED BY <1>3, <3>1, <3>3, Zenon
  <2>10. \A c \in Callers : In(j.records, c) => p[c] # "idle"
    BY <2>1, <2>4, Zenon DEF Owned
  <2>11. l \in Seq(Callers) /\ Inj(l)
    BY <2>1, Zenon DEF Owned
  <2> QED BY <1>3, <2>4, <2>5, <2>7, <2>8, <2>9, <2>10, <2>11, Zenon DEF Owned
<1>9. ASSUME NEW c \in Callers PROVE Tagged(j, fs, h, c)
  <2> DEFINE b == h[c].batch
  <2>1. Tagged(i, bs, h, c)
    BY <1>5, Zenon DEF Good
  <2>2. b \in 0 .. n
    BY <2>1, Zenon DEF Tagged, n
  <2>3. /\ b \in 0 .. Len(fs) /\ b # Len(fs)
        /\ b \in 1 .. Len(fs) - 1 => b \in 1 .. n - 1 \/ b = n
    BY <1>1, <1>3, <2>2
  <2>4. ASSUME b \in 1 .. n - 1
        PROVE  \/ fs[b].task = "none" /\ fs[b].result.kind = "dropped"
               \/ fs[b].task # "none" /\ At(fs[b].records, h[c].tag, c)
    BY <1>3, <2>1, <2>4, Zenon DEF Tagged, n
  <2>5. ASSUME b = n
        PROVE  \/ fs[b].task = "none" /\ fs[b].result.kind = "dropped"
               \/ fs[b].task # "none" /\ At(fs[b].records, h[c].tag, c)
    <3>1. At(i.records, h[c].tag, c) /\ i.records # <<>>
      BY <2>1, <2>5, EmptyIn DEF Tagged, n
    <3> QED BY <1>3, <2>5, <3>1, Zenon
  <2> QED BY <2>3, <2>4, <2>5 DEF Tagged
<1>10. ASSUME NEW b \in 1 .. n + 1 PROVE Located(fs[b], l)
  <2>1. CASE b \in 1 .. n - 1
    <3>1. b \in 1 .. n
      BY <1>1, <2>1
    <3> QED BY <1>3, <1>5, <2>1, <3>1, Zenon DEF Good, n
  <2>2. CASE b # n /\ b \notin 1 .. n - 1
    BY <1>4, <1>6, <1>10, <2>2, Zenon DEF Located
  <2>3. CASE b = n
    BY <1>3, <2>3 DEF Located
  <2> QED BY <2>1, <2>2, <2>3, Zenon
<1>11. Lingering(j, fs, h, lg2, tk)
  <2>1. \A c \in Callers : h[c].batch \in 0 .. n
    BY <1>5, Zenon DEF Good, Tagged, n
  <2>2. \A c \in Callers : h[c].batch # n + 1
    BY <1>1, <2>1
  <2>3. Len(fs) = n + 1
    BY <1>3, Zenon
  <2>4. ~j.has_linger_waiter
    BY <1>2, Zenon
  <2>5. \A c \in Callers : h[c].batch # Len(fs)
    BY <2>2, <2>3, Zenon
  <2> QED BY <2>4, <2>5, Zenon DEF Lingering
<1> QED BY <1>3, <1>7, <1>8, <1>9, <1>10, <1>11, Zenon DEF Good, j, fs

\* Tasks make progress: l2 is the log afterwards.
LEMMA TasksKeep ==
    ASSUME NEW i, NEW bs, NEW p, NEW h, NEW l, NEW lg, NEW tk, NEW bs2, NEW l2,
           Good(i, bs, p, h, l, lg, tk),
           bs2 \in Seq(Batch), Len(bs2) = Len(bs),
           \A b \in 1 .. Len(bs) :
               /\ bs2[b].records = bs[b].records /\ Located(bs2[b], l2)
               /\ bs[b].task = "none" => bs2[b] = bs[b]
               /\ bs[b].task # "none" => bs2[b].task # "none"
               /\ bs[b].task \notin {"none", "producing"} =>
                      bs2[b].task \notin {"none", "producing"},
           l2 \in Seq(Callers), Inj(l2),
           \A c \in Callers : In(l2, c) =>
               In(l, c) \/ \E b \in 1 .. Len(bs) : /\ bs2[b].task \notin {"none", "producing"}
                                                   /\ In(bs2[b].records, c)
    PROVE  Good(i, bs2, p, h, l2, lg, tk)
<1>1. /\ IsInner(i) /\ Len(bs) > 0 /\ bs[Len(bs)] = NewBatch /\ Len(bs) \in Nat
      /\ Len(bs) \in 1 .. Len(bs)
  <2>1. IsInner(i) /\ bs \in Seq(Batch) /\ Len(bs) > 0 /\ bs[Len(bs)] = NewBatch
    BY Zenon DEF Good, Shape
  <2> QED BY <2>1, LenOfSeq, InRange, Zenon
<1>2. bs2[Len(bs2)] = NewBatch
  <2>1. NewBatch.task = "none"
    BY DEF NewBatch
  <2> QED BY <1>1, <2>1, Zenon
<1>3. Shape(i, bs2)
  BY <1>1, <1>2, Zenon DEF Shape
<1>4. Owned(i, bs2, l2, p)
  <2>1. Owned(i, bs, l, p)
    BY Zenon DEF Good
  <2>2. \A c \in Callers : In(l2, c) =>
            \E b \in 1 .. Len(bs) : /\ bs2[b].task \notin {"none", "producing"}
                                    /\ In(bs2[b].records, c)
    BY <2>1, Zenon DEF Owned
  <2> QED BY <2>1, <2>2, Zenon DEF Owned
<1>5. ASSUME NEW c \in Callers PROVE Tagged(i, bs2, h, c)
  <2>1. Tagged(i, bs, h, c)
    BY Zenon DEF Good
  <2>2. \A b \in 1 .. Len(bs) - 1 : b \in 1 .. Len(bs)
    BY <1>1, InRange, Zenon
  <2> QED BY <2>1, <2>2, Zenon DEF Tagged
<1>6. Lingering(i, bs2, h, lg, tk)
  <2>1. Lingering(i, bs, h, lg, tk)
    BY Zenon DEF Good
  <2> QED BY <2>1, Zenon DEF Lingering
<1> QED BY <1>3, <1>4, <1>5, <1>6, Zenon DEF Good

LEMMA ResultFields ==
    \A x, kind, offsets, task :
        /\ WithResult(x, kind, offsets, task).result.kind = kind
        /\ WithResult(x, kind, offsets, task).result.offsets = offsets
        /\ WithResult(x, kind, offsets, task).task = task
        /\ WithResult(x, kind, offsets, task).records = x.records
BY DEF WithResult

\* One task changes its batch.
LEMMA TaskKeeps ==
    ASSUME PInv, NEW b \in 1 .. Current, NEW kind \in Kinds, NEW offsets \in Seq(Int),
           NEW task \in Tasks \ {"none", "producing"}, NEW l2,
           batches[b].task # "none",
           batches' = [batches EXCEPT ![b] = WithResult(@, kind, offsets, task)],
           Located(batches'[b], l2), l2 \in Seq(Callers), Inj(l2),
           \A d \in 1 .. Current : d # b => Located(batches[d], l2),
           \A c \in Callers : In(l2, c) => In(log, c) \/ In(batches[b].records, c)
    PROVE  Good(inner, batches', pc, handle, l2, linger, token)
<1> DEFINE y == WithResult(batches[b], kind, offsets, task)
<1>1. /\ Good(inner, batches, pc, handle, log, linger, token)
      /\ batches \in Seq(Batch) /\ b \in 1 .. Len(batches)
      /\ batches \in [1 .. Len(batches) -> Batch] /\ Len(batches) \in Nat
  BY Basics, Zenon
<1>2. batches[b].records \in Seq(Callers)
  BY <1>1, Zenon DEF Batch
<1>3. y \in Batch /\ y.records = batches[b].records /\ y.task = task
  BY <1>2 DEF WithResult, Batch
<1>4. batches' = [batches EXCEPT ![b] = y]
  BY <1>1, Zenon
<1> HIDE DEF y
<1>5. batches' \in [1 .. Len(batches) -> Batch]
  BY <1>1, <1>3, <1>4, Zenon
<1>6. batches'[b] = y /\ \A d \in 1 .. Len(batches) : d # b => batches'[d] = batches[d]
  BY <1>1, <1>4, Zenon
<1>7. batches' \in Seq(Batch) /\ Len(batches') = Len(batches)
  BY <1>1, <1>5, FunctionIsSeq
<1>8. \A d \in 1 .. Len(batches) :
         /\ batches'[d].records = batches[d].records /\ Located(batches'[d], l2)
         /\ batches[d].task = "none" => batches'[d] = batches[d]
         /\ batches[d].task # "none" => batches'[d].task # "none"
         /\ batches[d].task \notin {"none", "producing"} =>
                batches'[d].task \notin {"none", "producing"}
  BY <1>3, <1>6, Zenon DEF Current
<1>9. \A c \in Callers : In(l2, c) =>
         In(log, c) \/ \E d \in 1 .. Len(batches) : /\ batches'[d].task \notin {"none", "producing"}
                                                    /\ In(batches'[d].records, c)
  BY <1>1, <1>3, <1>6
<1> QED BY <1>1, <1>7, <1>8, <1>9, TasksKeep, Zenon

LEMMA WriteKeeps ==
    ASSUME PInv, NEW b \in 1 .. Current, TaskWrite(b)
    PROVE  Good(inner, batches', pc, handle, log', linger, token)
<1> DEFINE rs == batches[b].records
           offs == [k \in 1 .. Len(rs) |-> Len(log) + k]
<1>1. /\ batches \in Seq(Batch) /\ b \in 1 .. Len(batches)
      /\ batches \in [1 .. Len(batches) -> Batch] /\ Len(batches) \in Nat
      /\ Owned(inner, batches, log, pc) /\ log \in Seq(Callers) /\ Len(log) \in Nat /\ Inj(log)
  BY Basics, Zenon
<1>2. rs \in Seq(Callers) /\ Len(rs) \in Nat /\ Inj(rs)
  <2>1. batches[b] \in Batch
    BY <1>1, Zenon
  <2>2. rs \in Seq(Callers)
    BY <2>1, Zenon DEF Batch
  <2>3. Inj(rs)
    BY <1>1, Zenon DEF Owned
  <2> QED BY <2>2, <2>3, LenOfSeq, Zenon
<1>3. /\ batches[b].task = "producing" /\ log' = log \o rs
      /\ batches' = [batches EXCEPT ![b] = WithResult(@, "pending", offs, "written")]
  BY Zenon DEF TaskWrite
<1>4. offs \in Seq(Int)
  BY <1>1, <1>2, FunctionIsSeq
<1>5. batches'[b] = WithResult(batches[b], "pending", offs, "written")
  BY <1>1, <1>3, Zenon
<1>6. ASSUME NEW c \in Callers, In(log, c), In(rs, c) PROVE FALSE
  BY <1>1, <1>3, <1>6, Zenon DEF Owned
<1> HIDE DEF rs
<1>7. /\ log' \in Seq(Callers) /\ Len(log') = Len(log) + Len(rs) /\ Inj(log')
      /\ \A k \in 1 .. Len(log) : log'[k] = log[k]
      /\ \A k \in 1 .. Len(rs) : log'[Len(log) + k] = rs[k]
      /\ \A c : In(log', c) => In(log, c) \/ In(rs, c)
  BY <1>1, <1>2, <1>3, <1>6, ConcatIn, SMTT(30)
<1>8. \A k \in 1 .. Len(log) : k \in 1 .. Len(log')
  BY <1>1, <1>2, <1>7
<1>9. ASSUME NEW d \in 1 .. Current, d # b PROVE Located(batches[d], log')
  <2>1. Located(batches[d], log)
    BY <1>9, Basics, Zenon
  <2> QED BY <1>7, <1>8, <2>1, Zenon DEF Located
<1>10. Located(batches'[b], log')
  <2> HIDE DEF offs
  <2>1. /\ batches'[b].result.kind = "pending" /\ batches'[b].records = rs
        /\ batches'[b].result.offsets = offs
    BY <1>5, ResultFields DEF rs
  <2>2. DOMAIN offs = 1 .. Len(rs)
    BY DEF offs
  <2>3. \A k \in 1 .. Len(rs) : offs[k] \in 1 .. Len(log') /\ log'[offs[k]] = rs[k]
    BY <1>1, <1>2, <1>7 DEF offs
  <2> QED BY <2>1, <2>2, <2>3, Zenon DEF Located
<1>11. "pending" \in Kinds /\ "written" \in Tasks \ {"none", "producing"}
  BY DEF Kinds, Tasks
<1> HIDE DEF offs
<1> QED BY <1>3, <1>4, <1>7, <1>9, <1>10, <1>11, TaskKeeps, Zenon DEF rs

LEMMA ConcludeKeeps ==
    ASSUME PInv, NEW b \in 1 .. Current, TaskBroadcast(b) \/ TaskError(b) \/ TaskPanic(b)
    PROVE  Good(inner, batches', pc, handle, log, linger, token)
<1>1. /\ batches \in [1 .. Len(batches) -> Batch] /\ b \in 1 .. Len(batches)
      /\ log \in Seq(Callers) /\ Inj(log)
      /\ \A d \in 1 .. Current : Located(batches[d], log)
  BY Basics, Zenon
<1>2. batches[b].result.offsets \in Seq(Int) /\ <<>> \in Seq(Int)
  <2>1. batches[b] \in Batch
    BY <1>1
  <2> QED BY <2>1, SMTT(30) DEF Batch
<1>3. /\ Kinds = {"pending", "ok", "client_error", "dropped"}
      /\ {"finished", "panicked"} \subseteq Tasks \ {"none", "producing"}
  BY DEF Kinds, Tasks, TaskDone
<1>4. ASSUME NEW kind \in Kinds, NEW offsets \in Seq(Int),
             NEW task \in Tasks \ {"none", "producing"}, Conclude(b, kind, offsets, task),
             task # "written",
             kind = "ok" => batches[b].task = "written" /\ offsets = batches[b].result.offsets,
             batches[b].task # "none"
      PROVE  Good(inner, batches', pc, handle, log, linger, token)
  <2>1. batches' = [batches EXCEPT ![b] = WithResult(@, kind, offsets, task)]
    BY <1>4 DEF Conclude
  <2>2. batches'[b] = WithResult(batches[b], kind, offsets, task)
    BY <1>1, <2>1, Zenon
  <2>3. /\ batches'[b].result.kind = kind /\ batches'[b].records = batches[b].records
        /\ batches'[b].result.offsets = offsets /\ batches'[b].task = task
    BY <2>2, ResultFields
  <2>4. Located(batches[b], log)
    BY <1>1, Zenon DEF Current
  <2>5. Located(batches'[b], log)
    BY <1>4, <2>3, <2>4, Zenon DEF Located
  <2> QED BY <1>1, <1>4, <2>1, <2>5, TaskKeeps, Zenon
<1>5. CASE TaskBroadcast(b)
  BY <1>2, <1>3, <1>4, <1>5 DEF TaskBroadcast
<1>6. CASE TaskError(b)
  BY <1>2, <1>3, <1>4, <1>6, Zenon DEF TaskError
<1>7. CASE TaskPanic(b)
  BY <1>2, <1>3, <1>4, <1>7, Zenon DEF TaskPanic
<1> QED BY <1>5, <1>6, <1>7

LEMMA DropKeeps ==
    ASSUME PInv, DropInner
    PROVE  Good(inner', batches', pc, handle, log, linger, token)
<1>1. /\ Good(inner, batches, pc, handle, log, linger, token)
      /\ batches \in [1 .. Len(batches) -> Batch] /\ Len(batches) \in Nat
      /\ log \in Seq(Callers) /\ Inj(log) /\ Spawned(inner, batches)
      /\ \A d \in 1 .. Len(batches) : Located(batches[d], log)
  BY Basics, Zenon
<1>2. /\ inner' = [inner EXCEPT !.pending_flushes = {}]
      /\ batches' = [b \in 1 .. Len(batches) |->
                       IF b \in inner.pending_flushes /\ ~IsFinished(b)
                       THEN WithResult(batches[b], "dropped", <<>>, "aborted")
                       ELSE batches[b]]
  BY DEF DropInner, Current
<1>3. ASSUME NEW b \in 1 .. Len(batches)
      PROVE  \/ /\ batches'[b] = batches[b]
             \/ /\ batches'[b] = WithResult(batches[b], "dropped", <<>>, "aborted")
                /\ batches[b].task # "none"
  BY <1>1, <1>2, Zenon DEF Spawned
<1>4. ASSUME NEW x \in Batch
      PROVE  LET y == WithResult(x, "dropped", <<>>, "aborted") IN
             y \in Batch /\ y.records = x.records /\ y.task = "aborted" /\ Located(y, log)
  <2>1. WithResult(x, "dropped", <<>>, "aborted") \in Batch
    BY DEF WithResult, Batch, Kinds, Tasks, TaskDone
  <2> DEFINE y == WithResult(x, "dropped", <<>>, "aborted")
  <2>2. y.records = x.records /\ y.task = "aborted" /\ y.result.kind = "dropped"
    BY ResultFields
  <2> HIDE DEF y
  <2>3. Located(y, log)
    BY <2>2, Zenon DEF Located
  <2> QED BY <2>1, <2>2, <2>3, Zenon DEF y
<1>5. \A b \in 1 .. Len(batches) : batches'[b] \in Batch
  BY <1>1, <1>3, <1>4
<1>6. batches' \in [1 .. Len(batches) -> Batch]
  <2>1. DOMAIN batches' = 1 .. Len(batches) /\ batches' = [b \in 1 .. Len(batches) |-> batches'[b]]
    BY <1>2
  <2> QED BY <1>5, <2>1
<1>7. batches' \in Seq(Batch) /\ Len(batches') = Len(batches)
  BY <1>1, <1>6, FunctionIsSeq, Zenon
<1>8. \A b \in 1 .. Len(batches) :
         /\ batches'[b].records = batches[b].records /\ Located(batches'[b], log)
         /\ batches[b].task = "none" => batches'[b] = batches[b]
         /\ batches[b].task # "none" => batches'[b].task # "none"
         /\ batches[b].task \notin {"none", "producing"} =>
                batches'[b].task \notin {"none", "producing"}
  BY <1>1, <1>3, <1>4
<1>9. Good(inner, batches', pc, handle, log, linger, token)
  BY <1>1, <1>7, <1>8, TasksKeep, Zenon
<1> QED BY <1>2, <1>9, TakeTasks

LEMMA FlushChoice == FlushResults \subseteq BOOLEAN
BY Zenon DEF FlushResults

LEMMA FlushSpawned ==
    ASSUME NEW i, NEW bs, NEW ok \in BOOLEAN, Shape(i, bs), Spawned(i, bs)
    PROVE  Spawned(FlushInner(i, bs, ok), BackgroundFlush(i, bs, ok))
<1> DEFINE n == Len(bs)
           fs == BackgroundFlush(i, bs, ok)
<1>1. /\ IsInner(i) /\ bs \in Seq(Batch) /\ Len(bs) > 0 /\ bs[Len(bs)] = NewBatch
      /\ n \in Nat /\ NewBatch.task = "none"
  BY DEF Shape, NewBatch
<1>2. /\ Len(fs) = n + 1 /\ \A b \in 1 .. n - 1 : fs[b] = bs[b]
      /\ ok /\ i.records # <<>> => fs[n].task = "producing"
  BY <1>1, FlushedBatches, Zenon
<1>3. \A b \in FlushInner(i, bs, ok).pending_flushes :
          b \in i.pending_flushes \/ (b = n /\ ok /\ i.records # <<>>)
  BY Zenon DEF FlushInner, RetainUnfinished
<1> HIDE DEF n, fs
<1>4. ASSUME NEW b \in i.pending_flushes PROVE b \in 1 .. n - 1 /\ b \in 1 .. n + 1 /\ bs[b].task # "none"
  <2>1. b \in 1 .. n /\ bs[b].task # "none"
    BY Zenon DEF Spawned, n
  <2>2. b # n
    BY <1>1, <2>1, Zenon DEF n
  <2> QED BY <1>1, <2>1, <2>2
<1>5. n \in 1 .. n + 1
  BY <1>1 DEF n
<1>6. \A b \in FlushInner(i, bs, ok).pending_flushes : b \in 1 .. Len(fs) /\ fs[b].task # "none"
  BY <1>2, <1>3, <1>4, <1>5, Zenon
<1> QED BY <1>6, Zenon DEF Spawned, fs

\* A step of the critical section that flushes, with the lists it leaves.
LEMMA FlushStep ==
    ASSUME PInv, NEW ok \in FlushResults
    PROVE  LET i == FlushInner(inner, batches, ok)
               bs == BackgroundFlush(inner, batches, ok) IN
           /\ \A lg : Good(i, bs, pc, handle, log, lg, token)
           /\ Spawned(i, bs) /\ Len(bs) = Current + 1 /\ ~i.has_linger_waiter
<1>1. ok \in BOOLEAN
  BY FlushChoice, Zenon
<1>2. /\ Good(inner, batches, pc, handle, log, linger, token)
      /\ Shape(inner, batches) /\ Spawned(inner, batches)
  BY Zenon DEF PInv, Good
<1>3. ~FlushInner(inner, batches, ok).has_linger_waiter
  BY <1>1, <1>2, FlushedInner, Zenon DEF Shape
<1>4. Len(BackgroundFlush(inner, batches, ok)) = Current + 1
  BY <1>1, <1>2, FlushedBatches, Zenon DEF Shape, Current
<1>5. Spawned(FlushInner(inner, batches, ok), BackgroundFlush(inner, batches, ok))
  BY <1>1, <1>2, FlushSpawned, Zenon
<1>6. ASSUME NEW lg
      PROVE  Good(FlushInner(inner, batches, ok), BackgroundFlush(inner, batches, ok),
                  pc, handle, log, lg, token)
  BY <1>1, <1>2, FlushKeeps, Zenon
<1> QED BY <1>3, <1>4, <1>5, <1>6

\* The end of ProducerInner::try_push on inner state i and batches bs.
LEMMA AcceptKeeps ==
    ASSUME Maps, NEW c \in Callers, NEW i, NEW bs, pc[c] = "idle",
           Good(i, bs, pc, handle, log, linger, token), Spawned(i, bs),
           Accept(c, i, Len(bs))
    PROVE  Good(inner', bs, pc', handle', log, linger', token') /\ Spawned(inner', bs)
<1>1. /\ inner' = PushInner(i, c)
      /\ handle' = [handle EXCEPT ![c] = [batch |-> Len(bs), tag |-> TagOf(i)]]
  BY Zenon DEF Accept
<1>2. pc'[c] # "idle" /\ \A d \in Callers : d # c => pc'[d] = pc[d]
  BY Zenon DEF Accept, Maps
<1>3. \/ i.has_linger_waiter /\ linger' = linger /\ token' = token
      \/ linger'[c] = "sleeping" /\ token'[c] = i.flush_clock
  BY DEF Accept, Maps
<1>4. Good(inner', bs, pc', handle', log, linger', token')
  BY <1>1, <1>2, <1>3, PushKeeps, Zenon DEF Maps
<1>5. inner'.pending_flushes = i.pending_flushes
  <2>1. IsInner(i)
    BY DEF Good, Shape
  <2> QED BY <1>1, <2>1, Zenon DEF PushInner, IsInner
<1> QED BY <1>4, <1>5, Zenon DEF Spawned

-----------------------------------------------------------------------------
(* The invariant                                                           *)

LEMMA InitInv == Init => PInv
<1> SUFFICES ASSUME Init PROVE PInv
  BY Zenon
<1>1. Maps
  BY Zenon DEF Init, Maps
<1>2. NewBatch \in Batch /\ NewBatch.records = <<>> /\ NewBatch.task = "none"
  BY DEF NewBatch, Pending, Batch, Kinds, Tasks
<1>3. /\ batches = <<NewBatch>> /\ log = <<>>
      /\ DOMAIN inner = {"records", "batch_size", "flush_clock", "has_linger_waiter",
                         "pending_flushes"}
      /\ inner.records = <<>> /\ inner.pending_flushes = {}
      /\ \A c \in Callers : handle[c].batch = 0
  BY Zenon DEF Init
<1>4. ~inner.has_linger_waiter
  BY DEF Init
<1>5. batches \in Seq(Batch) /\ Len(batches) = 1 /\ batches[1] = NewBatch
  BY <1>2, <1>3
<1>6. Shape(inner, batches)
  BY <1>3, <1>5 DEF Shape, IsInner
<1>7. \A b \in 1 .. Len(batches) : batches[b].records = <<>> /\ batches[b].task = "none"
  BY <1>2, <1>5
<1>8. Owned(inner, batches, log, pc)
  <2>1. log \in Seq(Callers)
    BY <1>3
  <2>2. \A b, d \in 1 .. Len(batches) : b = d
    BY <1>5
  <2> QED BY <1>3, <1>7, <2>1, <2>2, EmptyIn, Zenon DEF Owned
<1>9. \A c \in Callers : Tagged(inner, batches, handle, c)
  BY <1>3, <1>5, SMTT(30) DEF Tagged
<1>10. \A b \in 1 .. Len(batches) : Located(batches[b], log)
  BY <1>7 DEF Located
<1>11. Lingering(inner, batches, handle, linger, token)
  <2>1. \A c \in Callers : handle[c].batch # Len(batches)
    BY <1>3, <1>5
  <2> QED BY <1>4, <2>1, Zenon DEF Lingering
<1>12. Spawned(inner, batches)
  BY <1>3, Zenon DEF Spawned
<1> QED BY <1>1, <1>6, <1>8, <1>9, <1>10, <1>11, <1>12, Zenon DEF PInv, Good

\* Every step of a produce() call and of its linger task keeps the invariant.
LEMMA CallerKeeps ==
    ASSUME PInv, NEW c \in Callers,
           \/ ProduceError(c) \/ ProduceFits(c) \/ ProduceNoCapacity(c) \/ LingerFire(c)
           \/ LingerJoined(c) \/ HandleReady(c) \/ CancelProduce(c)
    PROVE  Good(inner, batches, pc, handle, log, linger, token)' /\ Spawned(inner, batches)'
<1>1. /\ Good(inner, batches, pc, handle, log, linger, token) /\ Spawned(inner, batches)
      /\ Maps
  BY DEF PInv
<1>2. ASSUME NEW end, end # "idle", pc' = [pc EXCEPT ![c] = end],
             UNCHANGED <<inner, batches, handle, linger, token, log>>
      PROVE  Good(inner, batches, pc, handle, log, linger, token)' /\ Spawned(inner, batches)'
  <2>1. \A d \in Callers : pc'[d] = "idle" => pc[d] = "idle"
    BY <1>1, <1>2 DEF Maps
  <2>2. Good(inner, batches, pc', handle, log, linger, token)
    BY <1>1, <2>1, MoveKeeps, Zenon
  <2> QED BY <1>1, <1>2, <2>2, Zenon
<1>3. CASE ProduceError(c)
  BY <1>2, <1>3, Zenon DEF ProduceError, Return, flusher_vars
<1>4. CASE LingerJoined(c)
  BY <1>2, <1>4 DEF LingerJoined, Return, flusher_vars
<1>5. CASE HandleReady(c)
  BY <1>2, <1>5, Zenon DEF HandleReady, Return, flusher_vars
<1>6. CASE CancelProduce(c)
  BY <1>2, <1>6, Zenon DEF CancelProduce, flusher_vars
<1>7. CASE ProduceFits(c)
  <2>1. pc[c] = "idle" /\ Accept(c, inner, Len(batches)) /\ UNCHANGED <<batches, log>>
    BY <1>7, Zenon DEF ProduceFits, Current
  <2>2. Good(inner', batches, pc', handle', log, linger', token') /\ Spawned(inner', batches)
    BY <1>1, <2>1, AcceptKeeps, Zenon
  <2> QED BY <2>1, <2>2, Zenon
<1>8. CASE ProduceNoCapacity(c)
  <2>1. PICK ok \in FlushResults :
          /\ batches' = BackgroundFlush(inner, batches, ok)
          /\ \/ Accept(c, FlushInner(inner, batches, ok), Current + 1)
             \/ /\ \E o : Return(c, o)
                /\ inner' = FlushInner(inner, batches, ok)
                /\ UNCHANGED <<handle, linger, token>>
    BY <1>8, Zenon DEF ProduceNoCapacity
  <2>2. pc[c] = "idle" /\ log' = log
    BY <1>8, Zenon DEF ProduceNoCapacity
  <2> DEFINE i == FlushInner(inner, batches, ok)
  <2>3. /\ Good(i, batches', pc, handle, log, linger, token)
        /\ Spawned(i, batches') /\ Len(batches') = Current + 1
    BY <2>1, FlushStep, Zenon
  <2> HIDE DEF i
  <2>4. CASE Accept(c, i, Current + 1)
    <3>1. /\ Good(inner', batches', pc', handle', log, linger', token')
          /\ Spawned(inner', batches')
      BY <1>1, <2>2, <2>3, <2>4, AcceptKeeps, Zenon
    <3> QED BY <2>2, <3>1, Zenon
  <2>5. CASE (\E o : Return(c, o)) /\ inner' = i /\ UNCHANGED <<handle, linger, token>>
    <3>1. \A d \in Callers : pc'[d] = "idle" => pc[d] = "idle"
      BY <1>1, <2>5, Zenon DEF Return, Maps
    <3>2. Good(i, batches', pc', handle, log, linger, token)
      BY <2>3, <3>1, MoveKeeps, Zenon
    <3> QED BY <2>2, <2>3, <2>5, <3>2, Zenon
  <2> QED BY <2>1, <2>4, <2>5, Zenon DEF i
<1>9. CASE LingerFire(c)
  <2>1. UNCHANGED <<pc, handle, token, log>>
    BY <1>9, Zenon DEF LingerFire
  <2>2. CASE token[c] # inner.flush_clock
    <3>1. linger' = [linger EXCEPT ![c] = "ok"] /\ UNCHANGED <<inner, batches>>
      BY <1>9, <2>2, Zenon DEF LingerFire
    <3>2. \A d \in Callers : linger[d] = "sleeping" /\ token[d] = inner.flush_clock =>
             linger'[d] = "sleeping"
      BY <1>1, <2>2, <3>1, Zenon DEF Maps
    <3>3. Good(inner, batches, pc, handle, log, linger', token)
      BY <1>1, <3>2, MoveKeeps, Zenon
    <3> QED BY <1>1, <2>1, <3>1, <3>3
  <2>3. CASE token[c] = inner.flush_clock
    <3>1. PICK ok \in FlushResults : /\ inner' = FlushInner(inner, batches, ok)
                                     /\ batches' = BackgroundFlush(inner, batches, ok)
      BY <1>9, <2>3, Zenon DEF LingerFire
    <3>2. Good(inner', batches', pc, handle, log, linger', token) /\ Spawned(inner', batches')
      BY <3>1, FlushStep
    <3> QED BY <2>1, <3>2
  <2> QED BY <2>2, <2>3, Zenon
<1> QED BY <1>3, <1>4, <1>5, <1>6, <1>7, <1>8, <1>9, Zenon

\* A task keeps what flush() has to know of it.
LEMMA TaskSpawned ==
    ASSUME PInv, NEW b \in 1 .. Current, TaskStep(b)
    PROVE  Spawned(inner, batches')
<1>1. batches \in [1 .. Len(batches) -> Batch] /\ b \in 1 .. Len(batches) /\ Len(batches) \in Nat
  BY Basics, Zenon
<1>2. ASSUME NEW kind, NEW offsets, NEW task, task # "none",
             batches' = [batches EXCEPT ![b] = WithResult(@, kind, offsets, task)]
      PROVE  Spawned(inner, batches')
  <2>1. /\ DOMAIN batches' = 1 .. Len(batches)
        /\ batches'[b] = WithResult(batches[b], kind, offsets, task)
        /\ \A d \in 1 .. Len(batches) : d # b => batches'[d] = batches[d]
    BY <1>1, <1>2, Zenon
  <2>2. batches'[b].task # "none"
    BY <1>2, <2>1, ResultFields
  <2>3. Len(batches') = Len(batches)
    BY <1>1, <2>1
  <2> QED BY <2>1, <2>2, <2>3, Basics, Zenon DEF Spawned
<1>3. CASE TaskWrite(b)
  <2> DEFINE offs == [k \in 1 .. Len(batches[b].records) |-> Len(log) + k]
  <2>1. batches' = [batches EXCEPT ![b] = WithResult(@, "pending", offs, "written")]
    BY <1>3, Zenon DEF TaskWrite
  <2> HIDE DEF offs
  <2> QED BY <1>2, <2>1, Zenon
<1>4. CASE TaskBroadcast(b) \/ TaskError(b) \/ TaskPanic(b)
  BY <1>2, <1>4 DEF TaskBroadcast, TaskError, TaskPanic, Conclude
<1> QED BY <1>3, <1>4 DEF TaskStep

LEMMA StepInv == PInv /\ [Next]_vars => PInv'
<1> SUFFICES ASSUME PInv, [Next]_vars PROVE PInv'
  OBVIOUS
<1> DEFINE Inv2 == Good(inner, batches, pc, handle, log, linger, token) /\ Spawned(inner, batches)
<1>1. Inv2 /\ Maps
  BY DEF PInv
<1>2. Maps'
  BY <1>1, ZenonT(30) DEF Maps, Next, vars, ProduceError, ProduceFits, ProduceNoCapacity, Accept, Return,
              LingerFire, LingerJoined, HandleReady, CancelProduce, TaskStep, TaskWrite,
              TaskBroadcast, TaskError, TaskPanic, ManualFlush, FlushCheck, FlushJoin,
              CancelFlush, Release, DropInner, Terminated, caller_vars
<1>3. ASSUME NEW c \in Callers,
             \/ ProduceError(c) \/ ProduceFits(c) \/ ProduceNoCapacity(c) \/ LingerFire(c)
             \/ LingerJoined(c) \/ HandleReady(c) \/ CancelProduce(c)
      PROVE  Inv2'
  BY <1>3, CallerKeeps
<1>4. ASSUME NEW b \in 1 .. Current, TaskStep(b) PROVE Inv2'
  <2>1. UNCHANGED <<inner, pc, handle, linger, token>>
    BY <1>4, Zenon DEF TaskStep, TaskWrite, TaskBroadcast, TaskError, TaskPanic, caller_vars
  <2>2. Good(inner, batches', pc, handle, log', linger, token)
    <3>1. CASE TaskWrite(b)
      BY <3>1, WriteKeeps, Zenon
    <3>2. CASE TaskBroadcast(b) \/ TaskError(b) \/ TaskPanic(b)
      <4>1. log' = log
        BY <3>2 DEF TaskBroadcast, TaskError, TaskPanic
      <4> QED BY <3>2, <4>1, ConcludeKeeps, Zenon
    <3> QED BY <1>4, <3>1, <3>2, Zenon DEF TaskStep
  <2>3. Spawned(inner, batches')
    BY <1>4, TaskSpawned
  <2> QED BY <2>1, <2>2, <2>3
<1>5. ASSUME NEW f \in Flushers, ManualFlush(f) PROVE Inv2'
  <2>1. UNCHANGED <<pc, handle, linger, token, log>>
    BY <1>5 DEF ManualFlush, caller_vars
  <2>2. PICK ok \in FlushResults :
          /\ batches' = BackgroundFlush(inner, batches, ok)
          /\ \/ inner' = [FlushInner(inner, batches, ok) EXCEPT !.pending_flushes = {}]
             \/ inner' = FlushInner(inner, batches, ok)
    BY <1>5 DEF ManualFlush
  <2> DEFINE i == FlushInner(inner, batches, ok)
  <2>3. Good(i, batches', pc, handle, log, linger, token) /\ Spawned(i, batches')
    BY <2>2, FlushStep
  <2>4. [i EXCEPT !.pending_flushes = {}].pending_flushes = {}
    BY Zenon DEF FlushInner
  <2> HIDE DEF i
  <2>5. CASE inner' = i
    BY <2>1, <2>3, <2>5, Zenon
  <2>6. CASE inner' = [i EXCEPT !.pending_flushes = {}]
    <3>1. Good(inner', batches', pc, handle, log, linger, token)
      BY <2>3, <2>6, TakeTasks
    <3>2. Spawned(inner', batches')
      BY <2>4, <2>6, Zenon DEF Spawned
    <3> QED BY <2>1, <3>1, <3>2
  <2> QED BY <2>2, <2>5, <2>6 DEF i
<1>6. ASSUME UNCHANGED <<inner, batches, caller_vars, log>> PROVE Inv2'
  BY <1>1, <1>6, Zenon DEF caller_vars
<1>7. ASSUME DropInner PROVE Inv2'
  <2>1. Good(inner', batches', pc, handle, log, linger, token)
    BY <1>7, DropKeeps
  <2>2. UNCHANGED <<pc, handle, log, linger, token>>
    BY <1>7 DEF DropInner, caller_vars
  <2>3. inner'.pending_flushes = {}
    BY <1>1, <1>7, Zenon DEF DropInner, Good, Shape, IsInner
  <2> QED BY <2>1, <2>2, <2>3, Zenon DEF Spawned
<1>8. ASSUME NEW f \in Flushers, FlushCheck(f) \/ FlushJoin(f) \/ CancelFlush(f) PROVE Inv2'
  BY <1>6, <1>8, Zenon DEF FlushCheck, FlushJoin, CancelFlush
<1>9. ASSUME Release \/ Terminated \/ UNCHANGED vars PROVE Inv2'
  BY <1>6, <1>9, Zenon DEF Release, Terminated, vars, caller_vars
<1>10. Inv2'
  BY <1>3, <1>4, <1>5, <1>7, <1>8, <1>9 DEF Next
<1> QED BY <1>2, <1>10 DEF PInv

\* The bookkeeping of ProducerInner, of the batches it gave away and of the
\* handles of the calls is consistent, always.
THEOREM Invariance == Spec => []PInv
BY InitInv, StepInv, PTL DEF Spec

\* While a call waits on the current batch a linger task holds its token
\* (ProducerInner::try_push and flush keep has_linger_waiter and flush_clock in
\* step), for any number of calls and however the clock wraps.
THEOREM CurrentBatchIsLingered == Spec => []CurrentBatchHasLinger
<1>1. PInv => CurrentBatchHasLinger
  BY Zenon DEF PInv, Good, Lingering, CurrentBatchHasLinger, Current
<1> QED BY <1>1, Invariance, PTL

\* A produce() call reads the offset of its own record out of the answer of its
\* batch (the tag of RecordAggregator::try_push in deaggregate), for any number
\* of calls, sizes and limits.
THEOREM OffsetsAreOwn == Spec => []OwnOffset
<1>1. PInv => OwnOffset
  <2> SUFFICES ASSUME PInv, NEW c \in Callers, handle[c].batch # 0,
                      batches[handle[c].batch].result.kind = "ok"
               PROVE  LET h == handle[c] IN
                      /\ h.tag + 1 \in DOMAIN batches[h.batch].result.offsets
                      /\ log[batches[h.batch].result.offsets[h.tag + 1]] = c
    BY Zenon DEF OwnOffset
  <2> DEFINE b == handle[c].batch
  <2>1. /\ Tagged(inner, batches, handle, c) /\ Len(batches) \in Nat
        /\ batches[Len(batches)] = NewBatch
        /\ \A d \in 1 .. Len(batches) : Located(batches[d], log)
    BY Basics, Zenon
  <2>2. NewBatch.result.kind = "pending"
    BY Zenon DEF NewBatch, Pending
  <2>3. b # Len(batches)
    BY <2>1, <2>2, Zenon
  <2>4. b \in 0 .. Len(batches)
    BY <2>1, Zenon DEF Tagged
  <2>5. b \in 1 .. Len(batches) - 1 /\ b \in 1 .. Len(batches)
    BY <2>1, <2>3, <2>4, InRange, Zenon
  <2>6. batches[b].task # "none" /\ At(batches[b].records, handle[c].tag, c)
    BY <2>1, <2>5, Zenon DEF Tagged
  <2>7. Located(batches[b], log)
    BY <2>1, <2>5
  <2>8. /\ DOMAIN batches[b].result.offsets = 1 .. Len(batches[b].records)
        /\ \A k \in 1 .. Len(batches[b].records) :
              log[batches[b].result.offsets[k]] = batches[b].records[k]
    BY <2>6, <2>7, Zenon DEF Located
  <2> QED BY <2>6, <2>8, Zenon DEF At
<1> QED BY <1>1, Invariance, PTL

\* No record is handed to Kafka twice by this layer, whatever flushes, fails or is
\* dropped.
THEOREM RecordsWrittenAtMostOnce == Spec => []WrittenAtMostOnce
<1>1. PInv => WrittenAtMostOnce
  BY Zenon DEF PInv, Good, Owned, Inj, WrittenAtMostOnce
<1> QED BY <1>1, Invariance, PTL

-----------------------------------------------------------------------------
(* What flush() waits for                                                  *)

\* A running write is known to pending_flushes or to a flush() call that took it.
\* What a call owes was taken, by itself or by an earlier call, when it returned
\* from the lock; from then on it is given up only when it has ended.
Waits ==
    /\ DOMAIN fpc = Flushers /\ DOMAIN awaiting = Flushers /\ DOMAIN joining = Flushers
    /\ DOMAIN owed = Flushers
    /\ \A b \in PendingWrites :
          b \in inner.pending_flushes \/ \E g \in Flushers : b \in TakenBy(g)
    /\ \A f \in Flushers :
          /\ fpc[f] \in {"idle", "ok"} => awaiting[f] = {} /\ joining[f] = 0
          /\ \A b \in owed[f] : b \in 1 .. Current /\ b # Current
          /\ fpc[f] \in {"awaiting", "ok"} =>
                \A b \in owed[f] \cap PendingWrites : \E g \in Flushers : b \in TakenBy(g)

Writing(bs) == {b \in 1 .. Len(bs) : bs[b].task \notin TaskDone \cup {"none"}}

LEMMA WritingIs == PendingWrites = Writing(batches) /\ PendingWrites' = Writing(batches')
BY Zenon DEF PendingWrites, Writing, Current

LEMMA FlushWrites ==
    ASSUME PInv, NEW ok \in FlushResults
    PROVE  LET i == FlushInner(inner, batches, ok)
               bs == BackgroundFlush(inner, batches, ok) IN
           /\ \A b \in Writing(bs) :
                 b \in PendingWrites \/ (b = Current /\ ok /\ inner.records # <<>>)
           /\ \A b \in PendingWrites : b # Current
           /\ \A b \in inner.pending_flushes \cap PendingWrites : b \in i.pending_flushes
           /\ ok /\ inner.records # <<>> => Current \in i.pending_flushes
           /\ Len(bs) = Current + 1 /\ Current \in Nat /\ Current > 0
<1> DEFINE n == Len(batches)
           bs == BackgroundFlush(inner, batches, ok)
           i == FlushInner(inner, batches, ok)
<1>1. /\ IsInner(inner) /\ batches \in Seq(Batch) /\ n > 0 /\ n \in Nat
      /\ batches[n] = NewBatch /\ ok \in BOOLEAN /\ Current = n
  BY FlushChoice, Basics, Zenon
<1>2. /\ Len(bs) = n + 1 /\ bs[n + 1] = NewBatch
      /\ \A b \in 1 .. n - 1 : bs[b] = batches[b]
      /\ ~(ok /\ inner.records # <<>>) => bs[n].task = "none"
  <2>1. Len(bs) = n + 1 /\ bs[n + 1] = NewBatch
    BY <1>1, FlushedBatches, Zenon
  <2>2. \A b \in 1 .. n - 1 : bs[b] = batches[b]
    BY <1>1, FlushedBatches
  <2>3. ~ok => bs[n].task = "none"
    BY <1>1, FlushedBatches, Zenon
  <2>4. ok /\ inner.records = <<>> => bs[n].task = "none"
    BY <1>1, FlushedBatches, Zenon
  <2> QED BY <2>1, <2>2, <2>3, <2>4, Zenon
<1>3. NewBatch.task = "none"
  BY DEF NewBatch
<1>4. i.pending_flushes = RetainUnfinished(inner, batches)
                          \cup (IF ok /\ inner.records # <<>> THEN {n} ELSE {})
  BY Zenon DEF FlushInner
<1> HIDE DEF n, bs, i
<1>5. ASSUME NEW b \in Writing(bs)
      PROVE  b \in PendingWrites \/ (b = n /\ ok /\ inner.records # <<>>)
  <2>1. b \in 1 .. n + 1 /\ bs[b].task \notin TaskDone \cup {"none"}
    BY <1>2, <1>5 DEF Writing
  <2>2. b # n + 1
    BY <1>2, <1>3, <2>1
  <2>3. CASE b = n
    BY <1>2, <2>1, <2>3
  <2>4. CASE b # n
    <3>1. b \in 1 .. n - 1 /\ b \in 1 .. n
      BY <1>1, <2>1, <2>2, <2>4
    <3> QED BY <1>1, <1>2, <2>1, <3>1 DEF PendingWrites
  <2> QED BY <2>3, <2>4
<1>6. \A b \in PendingWrites : b # n
  BY <1>1, <1>3 DEF PendingWrites
<1>7. \A b \in inner.pending_flushes \cap PendingWrites : b \in i.pending_flushes
  BY <1>4 DEF RetainUnfinished, PendingWrites
<1>8. ok /\ inner.records # <<>> => n \in i.pending_flushes
  BY <1>4
<1> QED BY <1>1, <1>2, <1>5, <1>6, <1>7, <1>8, Zenon DEF bs, i

\* A flush that is not flush() itself.
LEMMA OtherFlushWaits ==
    ASSUME PInv, Waits, NEW ok \in FlushResults,
           batches' = BackgroundFlush(inner, batches, ok),
           inner'.pending_flushes = FlushInner(inner, batches, ok).pending_flushes,
           UNCHANGED flusher_vars
    PROVE  Waits'
<1> DEFINE pf == FlushInner(inner, batches, ok).pending_flushes
<1>1. /\ \A b \in PendingWrites' :
            b \in PendingWrites \/ (b = Current /\ ok /\ inner.records # <<>>)
      /\ \A b \in PendingWrites : b # Current
      /\ \A b \in inner.pending_flushes \cap PendingWrites : b \in pf
      /\ ok /\ inner.records # <<>> => Current \in pf
      /\ Current' = Current + 1 /\ Current \in Nat
  BY FlushWrites, WritingIs DEF Current
<1> HIDE DEF pf
<1>2. inner'.pending_flushes = pf
  BY DEF pf
<1>3. \A b \in 1 .. Current : b \in 1 .. Current' /\ b # Current'
  BY <1>1
<1>4. UNCHANGED <<fpc, awaiting, joining, owed>>
  BY DEF flusher_vars
<1>5. \A g \in Flushers : TakenBy(g)' = TakenBy(g)
  BY <1>4 DEF TakenBy
<1>6. \A b \in PendingWrites' : b \in pf \/ \E g \in Flushers : b \in TakenBy(g)
  BY <1>1 DEF Waits
<1>7. \A f \in Flushers : /\ \A b \in owed[f] : b \in 1 .. Current' /\ b # Current'
                          /\ \A b \in owed[f] \cap PendingWrites' : b \in PendingWrites
  BY <1>1, <1>3 DEF Waits
<1> QED BY <1>2, <1>4, <1>5, <1>6, <1>7 DEF Waits

\* A step that flushes nothing and leaves the flush() calls alone.
LEMMA OtherStepWaits ==
    ASSUME Waits, Current' = Current, PendingWrites' \subseteq PendingWrites,
           \A b \in PendingWrites' \cap inner.pending_flushes : b \in inner'.pending_flushes,
           UNCHANGED flusher_vars
    PROVE  Waits'
<1>1. UNCHANGED <<fpc, awaiting, joining, owed>>
  BY DEF flusher_vars
<1>2. \A g \in Flushers : TakenBy(g)' = TakenBy(g)
  BY <1>1 DEF TakenBy
<1> QED BY <1>1, <1>2 DEF Waits

LEMMA TaskWaits ==
    ASSUME PInv, Waits, NEW b \in 1 .. Current, TaskStep(b)
    PROVE  Waits'
<1>1. batches \in [1 .. Len(batches) -> Batch] /\ b \in 1 .. Len(batches) /\ Len(batches) \in Nat
  BY Basics, Zenon
<1>2. batches[b].task \in {"producing", "written"} /\ UNCHANGED <<inner, flusher_vars>>
  BY Zenon DEF TaskStep, TaskWrite, TaskBroadcast, TaskError, TaskPanic
<1>3. DOMAIN batches' = 1 .. Len(batches) /\ \A d \in 1 .. Len(batches) : d # b => batches'[d] = batches[d]
  BY <1>1, Zenon DEF TaskStep, TaskWrite, TaskBroadcast, TaskError, TaskPanic, Conclude
<1>4. Len(batches') = Len(batches)
  BY <1>1, <1>3
<1>5. b \in PendingWrites
  BY <1>1, <1>2 DEF PendingWrites, TaskDone, Current
<1>6. PendingWrites' \subseteq PendingWrites
  BY <1>3, <1>4, <1>5, Zenon DEF PendingWrites, Current
<1> QED BY <1>2, <1>4, <1>6, OtherStepWaits DEF Current

LEMMA DropWaits ==
    ASSUME PInv, Waits, DropInner
    PROVE  Waits'
<1>1. batches \in [1 .. Len(batches) -> Batch] /\ Len(batches) \in Nat
  BY Basics, Zenon
<1>2. /\ batches' = [b \in 1 .. Len(batches) |->
                       IF b \in inner.pending_flushes /\ ~IsFinished(b)
                       THEN WithResult(batches[b], "dropped", <<>>, "aborted")
                       ELSE batches[b]]
      /\ UNCHANGED <<fpc, awaiting, joining, owed>>
  BY DEF DropInner, Current, flusher_vars
<1>3. Len(batches') = Len(batches)
  BY <1>1, <1>2
<1>4. ASSUME NEW b \in PendingWrites' PROVE b \in PendingWrites /\ b \notin inner.pending_flushes
  <2>1. b \in 1 .. Len(batches) /\ batches'[b].task \notin TaskDone \cup {"none"}
    BY <1>3, <1>4, Zenon DEF PendingWrites, Current
  <2>2. WithResult(batches[b], "dropped", <<>>, "aborted").task \in TaskDone
    BY ResultFields DEF TaskDone
  <2>3. batches'[b] = batches[b] /\ ~(b \in inner.pending_flushes /\ ~IsFinished(b))
    BY <1>2, <2>1, <2>2, Zenon
  <2> QED BY <2>1, <2>3 DEF PendingWrites, IsFinished, Current
<1>5. Current' = Current /\ UNCHANGED flusher_vars
  BY <1>2, <1>3 DEF Current, flusher_vars
<1> QED BY <1>4, <1>5, OtherStepWaits

\* The lock section of flush(): what pending_flushes knew is taken by the call.
LEMMA ManualFlushWaits ==
    ASSUME PInv, Waits, NEW f \in Flushers, ManualFlush(f)
    PROVE  Waits'
<1>1. PICK ok \in FlushResults :
        /\ batches' = BackgroundFlush(inner, batches, ok)
        /\ owed' = [owed EXCEPT ![f] =
                      PendingWrites \cup (IF inner.records # <<>> THEN {Current} ELSE {})]
        /\ \/ /\ ok
              /\ awaiting' = [awaiting EXCEPT ![f] =
                                FlushInner(inner, batches, ok).pending_flushes]
              /\ fpc' = [fpc EXCEPT ![f] = "awaiting"]
           \/ /\ ~ok
              /\ inner' = FlushInner(inner, batches, ok)
              /\ fpc' = [fpc EXCEPT ![f] = "error"]
              /\ UNCHANGED awaiting
  BY DEF ManualFlush
<1>2. fpc[f] = "idle" /\ joining' = joining /\ awaiting[f] = {} /\ joining[f] = 0
  BY DEF ManualFlush, Waits
<1> DEFINE pf == FlushInner(inner, batches, ok).pending_flushes
<1>3. /\ \A b \in PendingWrites' :
            b \in PendingWrites \/ (b = Current /\ ok /\ inner.records # <<>>)
      /\ \A b \in PendingWrites : b # Current
      /\ \A b \in inner.pending_flushes \cap PendingWrites : b \in pf
      /\ ok /\ inner.records # <<>> => Current \in pf
      /\ Current' = Current + 1 /\ Current \in Nat /\ Current > 0
  BY <1>1, FlushWrites, WritingIs, Zenon DEF Current
<1>4. \/ /\ ok /\ awaiting' = [awaiting EXCEPT ![f] = pf]
         /\ fpc' = [fpc EXCEPT ![f] = "awaiting"]
      \/ /\ ~ok /\ awaiting' = awaiting /\ inner'.pending_flushes = pf
         /\ fpc' = [fpc EXCEPT ![f] = "error"]
  BY <1>1
<1> HIDE DEF pf
<1>5. /\ \A b \in 1 .. Current : b \in 1 .. Current' /\ b # Current'
      /\ Current \in 1 .. Current
  BY <1>3
<1>6. \A b \in PendingWrites : b \in 1 .. Current /\ b # 0
  BY <1>3, SMTT(30) DEF PendingWrites
<1>7. /\ DOMAIN owed' = Flushers /\ DOMAIN fpc' = Flushers /\ DOMAIN awaiting' = Flushers
      /\ DOMAIN joining' = Flushers
      /\ owed'[f] = PendingWrites \cup (IF inner.records # <<>> THEN {Current} ELSE {})
      /\ \A g \in Flushers : g # f => /\ owed'[g] = owed[g] /\ fpc'[g] = fpc[g]
                                      /\ awaiting'[g] = awaiting[g]
      /\ ok => awaiting'[f] = pf
      /\ ~ok => awaiting'[f] = {} /\ fpc'[f] = "error"
      /\ fpc'[f] \in {"awaiting", "error"}
  <2>1. /\ DOMAIN owed' = Flushers /\ DOMAIN joining' = Flushers
        /\ owed'[f] = PendingWrites \cup (IF inner.records # <<>> THEN {Current} ELSE {})
        /\ \A g \in Flushers : g # f => owed'[g] = owed[g]
    BY <1>1, <1>2, Zenon DEF Waits
  <2>2. DOMAIN fpc = Flushers /\ DOMAIN awaiting = Flushers
    BY DEF Waits
  <2>3. CASE ok
    BY <1>4, <2>1, <2>2, <2>3, Zenon
  <2>4. CASE ~ok
    BY <1>2, <1>4, <2>1, <2>2, <2>4, Zenon
  <2> QED BY <2>3, <2>4
<1>8. /\ \A g \in Flushers : g # f => TakenBy(g)' = TakenBy(g)
      /\ ok => \A b \in pf : b \in TakenBy(f)'
      /\ \A b \in TakenBy(f) : b = 0
  BY <1>2, <1>7 DEF TakenBy
<1>9. \A b \in PendingWrites : b \in TakenBy(f) => FALSE
  BY <1>6, <1>8
<1>10. \A h \in Flushers : \A b \in owed'[h] : b \in 1 .. Current' /\ b # Current'
  <2>1. \A b \in owed'[f] : b \in 1 .. Current' /\ b # Current'
    BY <1>5, <1>6, <1>7, Zenon
  <2>2. \A h \in Flushers : h # f => \A b \in owed'[h] : b \in 1 .. Current' /\ b # Current'
    BY <1>5, <1>7, Zenon DEF Waits
  <2> QED BY <2>1, <2>2, Zenon
<1>11. \A b \in PendingWrites : (\E g \in Flushers : b \in TakenBy(g)) =>
                                  \E g \in Flushers : b \in TakenBy(g)'
  BY <1>8, <1>9, Zenon
<1>12. \A b \in PendingWrites' : b \in pf \/ \E g \in Flushers : b \in TakenBy(g)'
  BY <1>3, <1>11, Zenon DEF Waits
<1>13. \A h \in Flushers :
          fpc'[h] \in {"idle", "ok"} => awaiting'[h] = {} /\ joining'[h] = 0
  BY <1>2, <1>7, Zenon DEF Waits
<1>14. CASE ok
  <2>1. \A b \in PendingWrites' : \E g \in Flushers : b \in TakenBy(g)'
    BY <1>8, <1>12, <1>14, Zenon
  <2> QED BY <1>7, <1>10, <1>13, <2>1, Zenon DEF Waits
<1>15. CASE ~ok
  <2>1. PendingWrites' \subseteq PendingWrites /\ inner'.pending_flushes = pf
    BY <1>3, <1>4, <1>15
  <2>2. ASSUME NEW h \in Flushers, fpc'[h] \in {"awaiting", "ok"},
               NEW b \in owed'[h] \cap PendingWrites'
        PROVE  \E g \in Flushers : b \in TakenBy(g)'
    <3>1. h # f
      BY <1>7, <1>15, <2>2
    <3>2. b \in owed[h] \cap PendingWrites /\ fpc[h] \in {"awaiting", "ok"}
      BY <1>7, <2>1, <2>2, <3>1
    <3>3. \E g \in Flushers : b \in TakenBy(g)
      BY <3>2, Zenon DEF Waits
    <3> QED BY <1>11, <3>2, <3>3
  <2> QED BY <1>7, <1>10, <1>12, <1>13, <2>1, <2>2, Zenon DEF Waits
<1> QED BY <1>14, <1>15

\* A step of a flush() call behind the lock, which lets go only of what has ended.
LEMMA FlusherMoves ==
    ASSUME Waits, NEW f \in Flushers, fpc[f] = "awaiting",
           PendingWrites' = PendingWrites, Current' = Current, UNCHANGED <<inner, owed>>,
           DOMAIN fpc' = Flushers, DOMAIN awaiting' = Flushers, DOMAIN joining' = Flushers,
           \A g \in Flushers : g # f => /\ fpc'[g] = fpc[g] /\ awaiting'[g] = awaiting[g]
                                       /\ joining'[g] = joining[g],
           fpc'[f] # "idle",
           fpc'[f] = "ok" => awaiting'[f] = {} /\ joining'[f] = 0,
           \A b \in PendingWrites : b \in TakenBy(f) => b \in TakenBy(f)'
    PROVE  Waits'
<1>1. \A g \in Flushers : g # f => TakenBy(g)' = TakenBy(g)
  BY DEF TakenBy
<1>2. \A b \in PendingWrites : (\E g \in Flushers : b \in TakenBy(g)) =>
                                 \E g \in Flushers : b \in TakenBy(g)'
  BY <1>1, Zenon
<1>3. \A b \in PendingWrites' :
          b \in inner'.pending_flushes \/ \E g \in Flushers : b \in TakenBy(g)'
  BY <1>2, Zenon DEF Waits
<1>4. ASSUME NEW h \in Flushers
      PROVE  /\ fpc'[h] \in {"idle", "ok"} => awaiting'[h] = {} /\ joining'[h] = 0
             /\ \A b \in owed'[h] : b \in 1 .. Current' /\ b # Current'
             /\ fpc'[h] \in {"awaiting", "ok"} => fpc[h] \in {"awaiting", "ok"}
  BY Zenon DEF Waits
<1>5. ASSUME NEW h \in Flushers, fpc'[h] \in {"awaiting", "ok"},
             NEW b \in owed'[h] \cap PendingWrites'
      PROVE  \E g \in Flushers : b \in TakenBy(g)'
  <2>1. b \in owed[h] \cap PendingWrites /\ fpc[h] \in {"awaiting", "ok"}
    BY <1>4, <1>5, Zenon
  <2>2. \E g \in Flushers : b \in TakenBy(g)
    BY <2>1, Zenon DEF Waits
  <2> QED BY <1>2, <2>1, <2>2, Zenon
<1>6. DOMAIN owed' = Flushers
  BY DEF Waits
<1> QED BY <1>3, <1>4, <1>5, <1>6, Zenon DEF Waits

LEMMA FlusherWaits ==
    ASSUME PInv, Waits, NEW f \in Flushers,
           ManualFlush(f) \/ FlushCheck(f) \/ FlushJoin(f) \/ CancelFlush(f)
    PROVE  Waits'
<1>1. CASE FlushCheck(f)
  <2>1. /\ fpc[f] = "awaiting" /\ joining[f] = 0 /\ UNCHANGED <<inner, owed>>
        /\ PendingWrites' = PendingWrites /\ Current' = Current
    BY <1>1 DEF FlushCheck, PendingWrites, Current
  <2>2. CASE awaiting[f] = {} /\ fpc' = [fpc EXCEPT ![f] = "ok"] /\ UNCHANGED <<awaiting, joining>>
    <3>1. /\ DOMAIN fpc' = Flushers /\ DOMAIN awaiting' = Flushers /\ DOMAIN joining' = Flushers
          /\ fpc'[f] = "ok" /\ \A g \in Flushers : g # f => fpc'[g] = fpc[g]
      BY <2>2, Zenon DEF Waits
    <3>2. TakenBy(f)' = TakenBy(f)
      BY <2>2 DEF TakenBy
    <3> QED BY <2>1, <2>2, <3>1, <3>2, FlusherMoves
  <2>3. ASSUME NEW b \in awaiting[f], awaiting' = [awaiting EXCEPT ![f] = @ \ {b}],
               joining' = [joining EXCEPT ![f] = IF IsFinished(b) THEN 0 ELSE b],
               UNCHANGED fpc
        PROVE  Waits'
    <3>1. IsFinished(b) => b \notin PendingWrites
      BY Zenon DEF IsFinished, PendingWrites
    <3>2. /\ awaiting'[f] = awaiting[f] \ {b}
          /\ joining'[f] = IF IsFinished(b) THEN 0 ELSE b
          /\ DOMAIN fpc' = Flushers /\ DOMAIN awaiting' = Flushers /\ DOMAIN joining' = Flushers
          /\ \A g \in Flushers : g # f => awaiting'[g] = awaiting[g] /\ joining'[g] = joining[g]
      BY <2>3, Zenon DEF Waits
    <3>3. 0 \notin PendingWrites
      BY SMTT(30) DEF PendingWrites
    <3>4. \A d \in PendingWrites : d \in TakenBy(f) => d \in TakenBy(f)'
      BY <2>1, <3>1, <3>2, <3>3 DEF TakenBy
    <3> QED BY <2>1, <2>3, <3>2, <3>4, FlusherMoves
  <2> QED BY <1>1, <2>2, <2>3 DEF FlushCheck
<1>2. CASE FlushJoin(f)
  <2>1. /\ PendingWrites' = PendingWrites /\ Current' = Current
        /\ UNCHANGED <<inner, owed, awaiting>>
        /\ joining' = [joining EXCEPT ![f] = 0] /\ IsFinished(joining[f])
        /\ fpc[f] = "awaiting"
        /\ \E e \in {"awaiting", "panic"} : fpc' = [fpc EXCEPT ![f] = e]
    BY <1>2, Zenon DEF FlushJoin, PendingWrites, Current
  <2>2. joining[f] \notin PendingWrites
    BY <2>1, Zenon DEF IsFinished, PendingWrites
  <2>3. /\ DOMAIN fpc' = Flushers /\ DOMAIN awaiting' = Flushers /\ DOMAIN joining' = Flushers
        /\ fpc'[f] \in {"awaiting", "panic"}
        /\ \A g \in Flushers : g # f => fpc'[g] = fpc[g] /\ joining'[g] = joining[g]
    BY <2>1, Zenon DEF Waits
  <2>4. \A d \in PendingWrites : d \in TakenBy(f) => d \in TakenBy(f)'
    BY <2>1, <2>2 DEF TakenBy
  <2> QED BY <2>1, <2>3, <2>4, FlusherMoves
<1>3. CASE CancelFlush(f)
  <2>1. /\ PendingWrites' = PendingWrites /\ Current' = Current
        /\ UNCHANGED <<inner, owed, awaiting, joining>>
        /\ fpc[f] = "awaiting" /\ fpc' = [fpc EXCEPT ![f] = "cancelled"]
    BY <1>3, Zenon DEF CancelFlush, PendingWrites, Current
  <2>2. /\ DOMAIN fpc' = Flushers /\ DOMAIN awaiting' = Flushers /\ DOMAIN joining' = Flushers
        /\ fpc'[f] = "cancelled" /\ \A g \in Flushers : g # f => fpc'[g] = fpc[g]
    BY <2>1, Zenon DEF Waits
  <2>3. TakenBy(f)' = TakenBy(f)
    BY <2>1 DEF TakenBy
  <2> QED BY <2>1, <2>2, <2>3, FlusherMoves
<1> QED BY <1>1, <1>2, <1>3, ManualFlushWaits, Zenon

LEMMA CallerWaits ==
    ASSUME PInv, Waits, NEW c \in Callers,
           \/ ProduceError(c) \/ ProduceFits(c) \/ ProduceNoCapacity(c) \/ LingerFire(c)
           \/ LingerJoined(c) \/ HandleReady(c) \/ CancelProduce(c)
    PROVE  Waits'
<1>1. ASSUME inner'.pending_flushes = inner.pending_flushes, UNCHANGED <<batches, flusher_vars>>
      PROVE  Waits'
  <2>1. Current' = Current /\ PendingWrites' = PendingWrites
    BY <1>1 DEF Current, PendingWrites
  <2> QED BY <1>1, <2>1, OtherStepWaits, Zenon
<1>2. UNCHANGED flusher_vars
  BY Zenon DEF ProduceError, ProduceFits, ProduceNoCapacity, LingerFire, LingerJoined, HandleReady,
         CancelProduce
<1>3. \A i, d : IsInner(i) => PushInner(i, d).pending_flushes = i.pending_flushes
  BY DEF PushInner, IsInner
<1>4. CASE ProduceError(c) \/ LingerJoined(c) \/ HandleReady(c) \/ CancelProduce(c)
  BY <1>1, <1>2, <1>4, Zenon DEF ProduceError, LingerJoined, HandleReady, CancelProduce
<1>5. CASE ProduceFits(c)
  <2>1. inner' = PushInner(inner, c) /\ UNCHANGED batches
    BY <1>5 DEF ProduceFits, Accept
  <2>2. inner'.pending_flushes = inner.pending_flushes
    BY <1>3, <2>1, Basics, Zenon
  <2> QED BY <1>1, <1>2, <2>1, <2>2, Zenon
<1>6. CASE ProduceNoCapacity(c)
  <2>1. PICK ok \in FlushResults :
          /\ batches' = BackgroundFlush(inner, batches, ok)
          /\ \/ inner' = PushInner(FlushInner(inner, batches, ok), c)
             \/ inner' = FlushInner(inner, batches, ok)
    BY <1>6 DEF ProduceNoCapacity, Accept
  <2>2. IsInner(FlushInner(inner, batches, ok))
    BY Basics, FlushChoice, FlushedInner, Zenon
  <2>3. inner'.pending_flushes = FlushInner(inner, batches, ok).pending_flushes
    BY <1>3, <2>1, <2>2
  <2> QED BY <1>2, <2>1, <2>3, OtherFlushWaits
<1>7. CASE LingerFire(c)
  <2>1. CASE UNCHANGED <<inner, batches>>
    BY <1>1, <1>2, <2>1, Zenon
  <2>2. ASSUME NEW ok \in FlushResults, inner' = FlushInner(inner, batches, ok),
               batches' = BackgroundFlush(inner, batches, ok)
        PROVE  Waits'
    BY <1>2, <2>2, OtherFlushWaits
  <2> QED BY <1>7, <2>1, <2>2, Zenon DEF LingerFire
<1> QED BY <1>4, <1>5, <1>6, <1>7, Zenon

\* However many flush() calls overlap, are dropped or panic, and however many calls
\* produce meanwhile: flush() returns Ok only when every write that was pending when
\* it took the lock has ended or is one that another flush() call took before it.
THEOREM FlushWaits == Spec => []FlushWaitsUnlessTaken
<1>1. Init => Waits
  <2> SUFFICES ASSUME Init PROVE Waits
    BY Zenon
  <2>1. batches = <<NewBatch>> /\ NewBatch.task = "none"
    BY DEF Init, NewBatch
  <2>2. PendingWrites = {}
    BY <2>1 DEF PendingWrites, Current
  <2> QED BY <2>2 DEF Init, Waits
<1>2. PInv /\ Waits /\ [Next]_vars => Waits'
  <2> SUFFICES ASSUME PInv, Waits, [Next]_vars PROVE Waits'
    BY Zenon
  <2>1. CASE Release \/ Terminated \/ UNCHANGED vars
    <3>1. UNCHANGED <<inner, batches, flusher_vars>>
      BY <2>1, Zenon DEF Release, Terminated, vars, flusher_vars
    <3>2. Current' = Current /\ PendingWrites' = PendingWrites
      BY <3>1, Zenon DEF Current, PendingWrites
    <3> QED BY <3>1, <3>2, OtherStepWaits, Zenon
  <2> QED BY <2>1, CallerWaits, TaskWaits, FlusherWaits, DropWaits, Zenon DEF Next
<1>3. Waits => FlushWaitsUnlessTaken
  <2> SUFFICES ASSUME Waits, NEW f \in Flushers, fpc[f] = "ok",
                      NEW b \in owed[f] \cap PendingWrites
               PROVE  \E g \in Flushers \ {f} : b \in TakenBy(g)
    BY Zenon DEF FlushWaitsUnlessTaken
  <2>1. PICK g \in Flushers : b \in TakenBy(g)
    BY Zenon DEF Waits
  <2>2. b # 0
    BY SMTT(30) DEF PendingWrites
  <2>3. g # f
    BY <2>1, <2>2 DEF Waits, TakenBy
  <2> QED BY <2>1, <2>3
<1> QED BY <1>1, <1>2, <1>3, Invariance, PTL DEF Spec

-----------------------------------------------------------------------------
(* The flush clock                                                         *)

\* The clock runs once around for ClockMod flushes: while fewer than that have
\* happened since it was started, the token of a sleeping linger task and the
\* number of those flushes add up to the clock.
Ticks(k, n, p, h, lg, tk) ==
    /\ k \in 0 .. ClockMod - 1
    /\ \A c \in Callers : lg[c] = "sleeping" =>
          /\ p[c] # "idle" /\ h[c].batch \in 1 .. n /\ tk[c] \in 0 .. ClockMod - 1
          /\ n - h[c].batch < ClockMod =>
                \/ tk[c] + (n - h[c].batch) = k
                \/ tk[c] + (n - h[c].batch) = k + ClockMod

Clock == Ticks(inner.flush_clock, Current, pc, handle, linger, token)

LEMMA Wrap ==
    ASSUME NEW k \in 0 .. ClockMod - 1
    PROVE  (k + 1) % ClockMod = IF k + 1 = ClockMod THEN 0 ELSE k + 1
<1>1. ClockMod \in Nat \ {0}
  BY ProducerAssumption
<1>2. CASE k + 1 = ClockMod
  BY <1>1, <1>2
<1>3. CASE k + 1 # ClockMod
  BY <1>1, <1>3
<1> QED BY <1>2, <1>3, Zenon

LEMMA FlushTicks ==
    ASSUME NEW n \in Nat, NEW k, NEW p, NEW h, NEW lg, NEW tk, Ticks(k, n, p, h, lg, tk)
    PROVE  Ticks((k + 1) % ClockMod, n + 1, p, h, lg, tk)
<1>1. ClockMod \in Nat \ {0} /\ k \in 0 .. ClockMod - 1
  BY ProducerAssumption, Zenon DEF Ticks
<1> DEFINE m == (k + 1) % ClockMod
<1>2. m = IF k + 1 = ClockMod THEN 0 ELSE k + 1
  BY <1>1, Wrap
<1> HIDE DEF m
<1>3. m \in 0 .. ClockMod - 1
  BY <1>1, <1>2
<1>4. ASSUME NEW c \in Callers, lg[c] = "sleeping"
      PROVE  /\ p[c] # "idle" /\ h[c].batch \in 1 .. n + 1 /\ tk[c] \in 0 .. ClockMod - 1
             /\ (n + 1) - h[c].batch < ClockMod =>
                   \/ tk[c] + ((n + 1) - h[c].batch) = m
                   \/ tk[c] + ((n + 1) - h[c].batch) = m + ClockMod
  <2> DEFINE b == h[c].batch
             t == tk[c]
  <2>1. /\ p[c] # "idle" /\ b \in 1 .. n /\ t \in 0 .. ClockMod - 1
        /\ n - b < ClockMod => t + (n - b) = k \/ t + (n - b) = k + ClockMod
    BY <1>4, Zenon DEF Ticks
  <2> HIDE DEF b, t
  <2>2. b \in 1 .. n + 1
    BY <2>1
  <2>3. (n + 1) - b < ClockMod => t + ((n + 1) - b) = m \/ t + ((n + 1) - b) = m + ClockMod
    BY <1>1, <1>2, <2>1
  <2> QED BY <2>1, <2>2, <2>3, Zenon DEF b, t
<1> QED BY <1>3, <1>4, Zenon DEF Ticks, m

\* The end of try_push on inner state i, when the batches are n.
LEMMA AcceptTicks ==
    ASSUME Maps, NEW c \in Callers, NEW n \in Nat \ {0}, NEW i, IsInner(i), pc[c] = "idle",
           Ticks(i.flush_clock, n, pc, handle, linger, token), Accept(c, i, n)
    PROVE  Ticks(inner'.flush_clock, n, pc', handle', linger', token')
<1>1. inner'.flush_clock = i.flush_clock
  BY PushFields, Zenon DEF Accept
<1>2. \A d \in Callers : d # c => /\ pc'[d] = pc[d] /\ handle'[d] = handle[d]
                                  /\ linger'[d] = linger[d] /\ token'[d] = token[d]
  BY DEF Accept, Maps
<1>3. linger[c] # "sleeping" /\ i.flush_clock \in 0 .. ClockMod - 1 /\ ClockMod \in Nat
  BY ProducerAssumption, Zenon DEF Ticks
<1>4. linger'[c] = "sleeping" =>
        pc'[c] # "idle" /\ handle'[c].batch = n /\ token'[c] = i.flush_clock
  BY <1>3, Zenon DEF Accept, Maps
<1>5. n \in 1 .. n /\ n - n = 0 /\ i.flush_clock + 0 = i.flush_clock
  BY <1>3, SMTT(30)
<1>6. ASSUME NEW d \in Callers, linger'[d] = "sleeping"
      PROVE  /\ pc'[d] # "idle" /\ handle'[d].batch \in 1 .. n
             /\ token'[d] \in 0 .. ClockMod - 1
             /\ n - handle'[d].batch < ClockMod =>
                   \/ token'[d] + (n - handle'[d].batch) = i.flush_clock
                   \/ token'[d] + (n - handle'[d].batch) = i.flush_clock + ClockMod
  <2>1. CASE d = c
    BY <1>3, <1>4, <1>5, <1>6, <2>1, ZenonT(30)
  <2>2. CASE d # c
    BY <1>2, <1>6, <2>2 DEF Ticks
  <2> QED BY <2>1, <2>2, ZenonT(30)
<1> QED BY <1>1, <1>3, <1>6, Zenon DEF Ticks

\* Calls move on and linger tasks end; the clock and the batches stand still.
LEMMA MoveTicks ==
    ASSUME NEW k, NEW n, NEW p, NEW h, NEW lg, NEW tk, NEW p2, NEW lg2,
           Ticks(k, n, p, h, lg, tk),
           \A d \in Callers : p2[d] = "idle" => p[d] = "idle",
           \A d \in Callers : lg2[d] = "sleeping" => lg[d] = "sleeping"
    PROVE  Ticks(k, n, p2, h, lg2, tk)
BY Zenon DEF Ticks

LEMMA InitClock == Init => Clock
<1> SUFFICES ASSUME Init PROVE Clock
  OBVIOUS
<1>1. inner.flush_clock = 0 /\ \A c \in Callers : linger[c] # "sleeping"
  BY DEF Init
<1>2. 0 \in 0 .. ClockMod - 1
  BY ProducerAssumption
<1> QED BY <1>1, <1>2, Zenon DEF Clock, Ticks

LEMMA FlushedClock ==
    ASSUME PInv, Clock, NEW ok \in FlushResults
    PROVE  LET i == FlushInner(inner, batches, ok)
               bs == BackgroundFlush(inner, batches, ok) IN
           /\ Ticks(i.flush_clock, Len(bs), pc, handle, linger, token)
           /\ IsInner(i) /\ Len(bs) = Current + 1 /\ Current \in Nat
<1>1. Current \in Nat /\ IsInner(inner)
  BY Basics, Zenon
<1>2. Ticks((inner.flush_clock + 1) % ClockMod, Current + 1, pc, handle, linger, token)
  BY <1>1, FlushTicks, Zenon DEF Clock
<1>3. FlushInner(inner, batches, ok).flush_clock = (inner.flush_clock + 1) % ClockMod
  BY Zenon DEF FlushInner, ClockAfterFlush
<1>4. IsInner(FlushInner(inner, batches, ok))
  BY <1>1, FlushChoice, FlushedInner, Zenon
<1>5. Len(BackgroundFlush(inner, batches, ok)) = Current + 1
  BY FlushStep, Zenon
<1> QED BY <1>1, <1>2, <1>3, <1>4, <1>5, Zenon

LEMMA CallerClock ==
    ASSUME PInv, Clock, NEW c \in Callers,
           \/ ProduceError(c) \/ ProduceFits(c) \/ ProduceNoCapacity(c) \/ LingerFire(c)
           \/ LingerJoined(c) \/ HandleReady(c) \/ CancelProduce(c)
    PROVE  Clock'
<1>1. /\ Maps /\ IsInner(inner) /\ Current \in Nat \ {0}
      /\ Ticks(inner.flush_clock, Current, pc, handle, linger, token)
  BY Basics, Zenon DEF Clock
<1>2. CASE ProduceError(c) \/ LingerJoined(c) \/ HandleReady(c) \/ CancelProduce(c)
  <2>1. UNCHANGED <<inner, batches, handle, linger, token>>
    BY <1>2, Zenon DEF ProduceError, LingerJoined, HandleReady, CancelProduce
  <2>2. \A d \in Callers : pc'[d] = "idle" => pc[d] = "idle"
    BY <1>1, <1>2, ZenonT(30) DEF ProduceError, LingerJoined, HandleReady, CancelProduce, Return, Maps
  <2>3. Ticks(inner.flush_clock, Current, pc', handle, linger, token)
    BY <1>1, <2>2, MoveTicks, Zenon
  <2> QED BY <2>1, <2>3 DEF Clock, Current
<1>3. CASE ProduceFits(c)
  <2>1. pc[c] = "idle" /\ Accept(c, inner, Current) /\ Current' = Current
    BY <1>3 DEF ProduceFits, Current
  <2>2. Ticks(inner'.flush_clock, Current, pc', handle', linger', token')
    BY <1>1, <2>1, AcceptTicks, Zenon
  <2> QED BY <2>1, <2>2, Zenon DEF Clock
<1>4. CASE ProduceNoCapacity(c)
  <2>1. PICK ok \in FlushResults :
          /\ batches' = BackgroundFlush(inner, batches, ok)
          /\ \/ Accept(c, FlushInner(inner, batches, ok), Current + 1)
             \/ /\ \E o : Return(c, o)
                /\ inner' = FlushInner(inner, batches, ok)
                /\ UNCHANGED <<handle, linger, token>>
    BY <1>4, Zenon DEF ProduceNoCapacity
  <2>2. pc[c] = "idle"
    BY <1>4, Zenon DEF ProduceNoCapacity
  <2> DEFINE i == FlushInner(inner, batches, ok)
  <2>3. /\ Ticks(i.flush_clock, Current + 1, pc, handle, linger, token)
        /\ IsInner(i) /\ Current' = Current + 1 /\ Current + 1 \in Nat \ {0}
    BY <2>1, FlushedClock DEF Current
  <2> HIDE DEF i
  <2>4. CASE Accept(c, i, Current + 1)
    <3>1. Ticks(inner'.flush_clock, Current + 1, pc', handle', linger', token')
      BY <1>1, <2>2, <2>3, <2>4, AcceptTicks, ZenonT(30)
    <3> QED BY <2>3, <3>1, Zenon DEF Clock
  <2>5. CASE (\E o : Return(c, o)) /\ inner' = i /\ UNCHANGED <<handle, linger, token>>
    <3>1. \A d \in Callers : pc'[d] = "idle" => pc[d] = "idle"
      BY <1>1, <2>5, Zenon DEF Return, Maps
    <3>2. Ticks(i.flush_clock, Current + 1, pc', handle, linger, token)
      BY <2>3, <3>1, MoveTicks, Zenon
    <3> QED BY <2>3, <2>5, <3>2, Zenon DEF Clock
  <2> QED BY <2>1, <2>4, <2>5, Zenon DEF i
<1>5. CASE LingerFire(c)
  <2>1. /\ UNCHANGED <<pc, handle, token>>
        /\ \A d \in Callers : linger'[d] = "sleeping" => linger[d] = "sleeping"
    BY <1>1, <1>5, Zenon DEF LingerFire, Maps
  <2>2. CASE UNCHANGED <<inner, batches>>
    <3>1. Ticks(inner.flush_clock, Current, pc, handle, linger', token)
      BY <1>1, <2>1, MoveTicks, Zenon
    <3> QED BY <2>1, <2>2, <3>1 DEF Clock, Current
  <2>3. ASSUME NEW ok \in FlushResults, inner' = FlushInner(inner, batches, ok),
               batches' = BackgroundFlush(inner, batches, ok)
        PROVE  Clock'
    <3>1. Ticks(inner'.flush_clock, Len(batches'), pc, handle, linger, token)
      BY <2>3, FlushedClock
    <3>2. Ticks(inner'.flush_clock, Len(batches'), pc, handle, linger', token)
      BY <2>1, <3>1, MoveTicks, Zenon
    <3> QED BY <2>1, <3>2, Zenon DEF Clock, Current
  <2>4. \/ UNCHANGED <<inner, batches>>
        \/ \E ok \in FlushResults : /\ inner' = FlushInner(inner, batches, ok)
                                   /\ batches' = BackgroundFlush(inner, batches, ok)
    BY <1>5, Zenon DEF LingerFire
  <2> QED BY <2>2, <2>3, <2>4, Zenon
<1> QED BY <1>2, <1>3, <1>4, <1>5

LEMMA StepClock == PInv /\ Clock /\ [Next]_vars => Clock'
<1> SUFFICES ASSUME PInv, Clock, [Next]_vars PROVE Clock'
  BY Zenon
<1>1. ASSUME inner'.flush_clock = inner.flush_clock, Current' = Current, UNCHANGED caller_vars
      PROVE  Clock'
  BY <1>1, Zenon DEF Clock, caller_vars
<1>2. ASSUME NEW b \in 1 .. Current, TaskStep(b) PROVE Clock'
  <2>1. UNCHANGED <<inner, caller_vars>>
    BY <1>2, Zenon DEF TaskStep, TaskWrite, TaskBroadcast, TaskError, TaskPanic
  <2>2. batches \in Seq(Batch)
    BY Basics, Zenon
  <2>3. \E x : batches' = [batches EXCEPT ![b] = x]
    BY <1>2, Zenon DEF TaskStep, TaskWrite, TaskBroadcast, TaskError, TaskPanic, Conclude
  <2>4. Current' = Current
    BY <2>2, <2>3, LenOfSeq DEF Current
  <2> QED BY <1>1, <2>1, <2>4, Zenon
<1>3. ASSUME NEW f \in Flushers, ManualFlush(f) PROVE Clock'
  <2>1. PICK ok \in FlushResults :
          /\ batches' = BackgroundFlush(inner, batches, ok)
          /\ \/ inner' = [FlushInner(inner, batches, ok) EXCEPT !.pending_flushes = {}]
             \/ inner' = FlushInner(inner, batches, ok)
    BY <1>3 DEF ManualFlush
  <2>2. inner'.flush_clock = FlushInner(inner, batches, ok).flush_clock
    BY <2>1 DEF FlushInner
  <2>3. Ticks(inner'.flush_clock, Len(batches'), pc, handle, linger, token)
    BY <2>1, <2>2, FlushedClock, Zenon
  <2>4. UNCHANGED caller_vars
    BY <1>3 DEF ManualFlush
  <2> QED BY <2>3, <2>4, Zenon DEF Clock, Current, caller_vars
<1>4. CASE DropInner
  <2>1. IsInner(inner) /\ Current \in Nat
    BY Basics, Zenon
  <2>2. inner'.flush_clock = inner.flush_clock
    BY <1>4, <2>1, Zenon DEF DropInner, IsInner
  <2>3. Current' = Current
    BY <1>4, <2>1 DEF DropInner, Current
  <2> QED BY <1>1, <1>4, <2>2, <2>3 DEF DropInner
<1>5. ASSUME NEW f \in Flushers, FlushCheck(f) \/ FlushJoin(f) \/ CancelFlush(f) PROVE Clock'
  BY <1>1, <1>5, Zenon DEF FlushCheck, FlushJoin, CancelFlush, Current
<1>6. CASE Release \/ Terminated \/ UNCHANGED vars
  BY <1>1, <1>6 DEF Release, Terminated, vars, Current, caller_vars
<1> QED BY <1>2, <1>3, <1>4, <1>5, <1>6, CallerClock, Zenon DEF Next

\* No linger task sleeps through ClockMod flushes (2^64 in the code).
Timely == \A c \in Callers : linger[c] = "sleeping" => Current - handle[c].batch < ClockMod

\* A linger task flushes the batch it was started for and no later one: the token
\* compared in the task of BatchProducer::produce is exact, wrap of flush_clock
\* included, unless ClockMod flushes happen while the one task sleeps.
THEOREM LingerTaskIsExact == Spec /\ []Timely => LingerFlushesOwnBatch
<1>1. ASSUME PInv, Clock, Timely, [Next]_vars
      PROVE  [\A c \in Callers :
                linger[c] = "sleeping" /\ linger'[c] # "sleeping" /\ Len(batches') > Current
                    => handle[c].batch = Current]_vars
  <2> SUFFICES ASSUME Next, NEW c \in Callers, linger[c] = "sleeping", linger'[c] # "sleeping",
                      Len(batches') > Current
               PROVE  handle[c].batch = Current
    BY <1>1
  <2>1. Maps /\ Current \in Nat /\ ClockMod \in Nat \ {0}
    BY <1>1, ProducerAssumption, Basics, Zenon
  <2>2. LingerFire(c)
    <3>1. \A d \in Callers : ProduceFits(d) \/ ProduceNoCapacity(d) => linger'[c] = "sleeping"
      BY <2>1 DEF ProduceFits, ProduceNoCapacity, Accept, Maps
    <3>2. \A d \in Callers : ProduceError(d) \/ LingerJoined(d) \/ HandleReady(d)
                                \/ CancelProduce(d) => linger' = linger
      BY Zenon DEF ProduceError, LingerJoined, HandleReady, CancelProduce
    <3>3. \A d \in Callers : LingerFire(d) => d = c
      BY <2>1, Zenon DEF LingerFire, Maps
    <3>4. \A b \in 1 .. Current : TaskStep(b) => linger' = linger
      BY Zenon DEF TaskStep, TaskWrite, TaskBroadcast, TaskError, TaskPanic, caller_vars
    <3>5. \A f \in Flushers : ManualFlush(f) \/ FlushCheck(f) \/ FlushJoin(f) \/ CancelFlush(f)
                                => linger' = linger
      BY Zenon DEF ManualFlush, FlushCheck, FlushJoin, CancelFlush, caller_vars
    <3>6. Release \/ DropInner \/ Terminated => linger' = linger
      BY Zenon DEF Release, DropInner, Terminated, caller_vars, vars
    <3> QED BY <3>1, <3>2, <3>3, <3>4, <3>5, <3>6 DEF Next
  <2>3. token[c] = inner.flush_clock
    <3>1. token[c] # inner.flush_clock => batches' = batches
      BY <2>2, Zenon DEF LingerFire
    <3>2. ~(Current > Current)
      BY <2>1
    <3> QED BY <3>1, <3>2, Zenon DEF Current
  <2>4. /\ handle[c].batch \in 1 .. Current /\ token[c] \in 0 .. ClockMod - 1
        /\ \/ token[c] + (Current - handle[c].batch) = inner.flush_clock
           \/ token[c] + (Current - handle[c].batch) = inner.flush_clock + ClockMod
        /\ Current - handle[c].batch < ClockMod
    BY <1>1, Zenon DEF Clock, Ticks, Timely
  <2> QED BY <2>1, <2>3, <2>4, SMTT(30)
<1>2. Spec => []Clock
  BY InitClock, StepClock, Invariance, PTL DEF Spec
<1> QED BY <1>1, <1>2, Invariance, PTL DEF Spec, LingerFlushesOwnBatch
=============================================================================
