----------------------------- MODULE WireProofs -----------------------------
(***************************************************************************)
(* Proofs about the fixed-width integers of Primitives and the framing     *)
(* layer of Wire, for every byte width, every max_message_size and any     *)
(* messages.                                                               *)
(***************************************************************************)
EXTENDS Wire, NaturalsInduction, WellFoundedInduction, SequenceTheorems, TLAPS

-----------------------------------------------------------------------------
(* Induction, and functions that are defined by it                         *)

LEMMA Least ==
    ASSUME NEW T \in SUBSET Nat, T # {}
    PROVE  \E x \in T : \A y \in T : x <= y
<1>1. PICK x \in T : \A y \in T : ~ (<<y, x>> \in OpToRel(<, Nat))
  BY NatLessThanWellFounded, WFMin
<1>2. \A y \in T : ~(y < x)
  BY <1>1, Zenon DEF OpToRel
<1> QED BY <1>2

LEMMA Induction ==
    ASSUME NEW n \in Nat, NEW T, n > 0 => 1 \in T,
           \A i \in 1 .. n : i # 1 /\ i - 1 \in T => i \in T
    PROVE  \A i \in 1 .. n : i \in T
<1> DEFINE Bad == {i \in 1 .. n : i \notin T}
<1>1. Bad \in SUBSET Nat
  OBVIOUS
<1>2. ASSUME NEW m \in Bad, \A k \in Bad : m <= k PROVE FALSE
  <2>1. m \in 1 .. n /\ m \notin T
    OBVIOUS
  <2>2. m # 1
    BY <2>1
  <2>3. m - 1 \in 1 .. n /\ ~(m <= m - 1)
    BY <2>1, <2>2
  <2>4. m - 1 \notin Bad
    BY <1>2, <2>3
  <2>5. m - 1 \in T
    BY <2>3, <2>4
  <2> QED BY <2>1, <2>2, <2>5
<1> HIDE DEF Bad
<1>3. Bad = {}
  BY <1>1, <1>2, Least
<1> QED BY <1>3 DEF Bad

\* g has the value a at 1 and follows F from each number to the next.
Follows(g, n, a, F) == \A i \in 1 .. n : g[i] = IF i = 1 THEN a ELSE F[i][g[i - 1]]

LEMMA Recursion ==
    ASSUME NEW S, NEW n \in Nat, NEW a \in S, NEW F \in [1 .. n -> [S -> S]]
    PROVE  \E g \in [1 .. n -> S] : Follows(g, n, a, F)
<1> DEFINE Obeys(g, m) == \A i \in 1 .. m : g[i] = IF i = 1 THEN a ELSE F[i][g[i - 1]]
           T == {m \in 1 .. n : \E g \in [1 .. m -> S] : Obeys(g, m)}
<1>1. ASSUME n > 0 PROVE 1 \in T
  <2>1. [i \in 1 .. 1 |-> a] \in [1 .. 1 -> S]
    OBVIOUS
  <2>2. Obeys([i \in 1 .. 1 |-> a], 1)
    OBVIOUS
  <2>3. \E g \in [1 .. 1 -> S] : Obeys(g, 1)
    BY <2>1, <2>2, Zenon
  <2> HIDE DEF Obeys
  <2> QED BY <1>1, <2>3
<1>2. ASSUME NEW m \in 1 .. n, m # 1, m - 1 \in T PROVE m \in T
  <2>1. PICK g \in [1 .. m - 1 -> S] : Obeys(g, m - 1)
    BY <1>2
  <2> DEFINE v == F[m][g[m - 1]]
             h == [i \in 1 .. m |-> IF i = m THEN v ELSE g[i]]
  <2>2. m - 1 \in 1 .. m - 1
    BY <1>2
  <2>3. v \in S
    BY <2>2
  <2> HIDE DEF v
  <2>4. h \in [1 .. m -> S]
    BY <2>3
  <2>5. ASSUME NEW i \in 1 .. m PROVE h[i] = IF i = 1 THEN a ELSE F[i][h[i - 1]]
    <3>1. i # 1 => i - 1 \in 1 .. m /\ i - 1 # m
      OBVIOUS
    <3>2. i # 1 => h[i - 1] = g[i - 1]
      BY <3>1
    <3>3. CASE i = m
      BY <1>2, <3>2, <3>3 DEF v
    <3>4. CASE i # m
      <4>1. i \in 1 .. m - 1
        BY <3>4
      <4> QED BY <2>1, <3>2, <3>4, <4>1
    <3> QED BY <3>3, <3>4
  <2>6. Obeys(h, m)
    BY <2>5
  <2> HIDE DEF h, Obeys
  <2> QED BY <2>4, <2>6
<1>3. CASE n = 0
  <2>1. [i \in 1 .. 0 |-> a] \in [1 .. 0 -> S] /\ 1 .. 0 = {}
    OBVIOUS
  <2>2. \E g \in [1 .. 0 -> S] : \A i \in 1 .. 0 : FALSE
    BY <2>1, Zenon
  <2> QED BY <1>3, <2>1, <2>2, Zenon DEF Follows
<1>4. CASE n # 0
  <2>1. n \in 1 .. n
    BY <1>4
  <2> HIDE DEF T
  <2>2. n \in T
    BY <1>1, <1>2, <2>1, Induction, Zenon
  <2> QED BY <2>2 DEF T, Follows
<1> QED BY <1>3, <1>4

\* Such a function takes its values in S.
LEMMA RecursionType ==
    ASSUME NEW S, NEW n \in Nat, NEW f, n > 0 => f[1] \in S,
           \A i \in 1 .. n : i # 1 /\ f[i - 1] \in S => f[i] \in S
    PROVE  \A i \in 1 .. n : f[i] \in S
<1> DEFINE T == {i \in 1 .. n : f[i] \in S}
<1>1. n > 0 => 1 \in T
  OBVIOUS
<1>2. \A i \in 1 .. n : i # 1 /\ i - 1 \in T => i \in T
  OBVIOUS
<1> HIDE DEF T
<1>3. \A i \in 1 .. n : i \in T
  BY <1>1, <1>2, Induction
<1> QED BY <1>3 DEF T

-----------------------------------------------------------------------------
(* Int8 .. Int64                                                           *)

LEMMA BytesAre == Base \in Nat \ {0} /\ Byte \in Nat \ {0} /\ Byte = 2 * Base
BY BaseAssumption DEF Byte

LEMMA DivMod ==
    ASSUME NEW x \in Int, NEW b \in Nat \ {0}
    PROVE  x \div b \in Int /\ x % b \in 0 .. b - 1 /\ x = (x \div b) * b + (x % b)
<1>1. x \div b \in Int /\ x % b \in 0 .. b - 1
  OBVIOUS
<1>2. x = (x \div b) * b + (x % b)
  OBVIOUS
<1> QED BY <1>1, <1>2

\* Shifted obeys its equation.
LEMMA ShiftedIs ==
    ASSUME NEW n \in Int, NEW size \in Nat
    PROVE  /\ Shifted(n, size) \in [1 .. size -> Int]
           /\ \A i \in 1 .. size : Shifted(n, size)[i] =
                 IF i = 1 THEN n ELSE Shifted(n, size)[i - 1] \div Byte
<1> DEFINE F == [i \in 1 .. size |-> [x \in Int |-> x \div Byte]]
<1>1. \A x \in Int : x \div Byte \in Int
  BY BytesAre, DivMod
<1>2. F \in [1 .. size -> [Int -> Int]]
  BY <1>1
<1>3. \A i \in 1 .. size : \A x \in Int : F[i][x] = x \div Byte
  OBVIOUS
<1> HIDE DEF F
<1> DEFINE Z == Int
<1>4. PICK g \in [1 .. size -> Z] : Follows(g, size, n, F)
  <2>1. F \in [1 .. size -> [Z -> Z]] /\ n \in Z
    BY <1>2
  <2> HIDE DEF Z
  <2> QED BY <2>1, Recursion, Zenon
<1>5. ASSUME NEW i \in 1 .. size PROVE g[i] = IF i = 1 THEN n ELSE g[i - 1] \div Byte
  <2>1. i # 1 => i - 1 \in 1 .. size
    OBVIOUS
  <2>2. i # 1 => g[i - 1] \in Int
    BY <1>4, <2>1
  <2> QED BY <1>3, <1>4, <2>2 DEF Follows
<1>6. g = [i \in 1 .. size |-> IF i = 1 THEN n ELSE g[i - 1] \div Byte]
  BY <1>5
<1>7. Shifted(n, size) = [i \in 1 .. size |->
                            IF i = 1 THEN n ELSE Shifted(n, size)[i - 1] \div Byte]
  BY <1>6, Zenon DEF Shifted
<1> DEFINE r == Shifted(n, size)
<1> HIDE DEF r
<1>8. \A i \in 1 .. size : r[i] = IF i = 1 THEN n ELSE r[i - 1] \div Byte
  BY <1>7 DEF r
<1>9. \A i \in 1 .. size : r[i] \in Int
  <2>1. /\ size > 0 => r[1] \in Z
        /\ \A i \in 1 .. size : i # 1 /\ r[i - 1] \in Z => r[i] \in Z
    <3>1. size > 0 => 1 \in 1 .. size
      OBVIOUS
    <3>2. size > 0 => r[1] = n
      BY <1>8, <3>1
    <3> QED BY <1>1, <1>8, <3>2, Zenon
  <2> HIDE DEF Z
  <2>2. \A i \in 1 .. size : r[i] \in Z
    BY <2>1, RecursionType, Zenon
  <2> QED BY <2>2 DEF Z
<1>10. r \in [1 .. size -> Int]
  BY <1>7, <1>9 DEF r
<1> QED BY <1>8, <1>10 DEF r

Sign(x) == IF x >= Base THEN x - Byte ELSE x

\* BigEndian obeys its equation.
LEMMA BigEndianIs ==
    ASSUME NEW size \in Nat \ {0}, NEW b, \A i \in 1 .. size : b[i] \in Int
    PROVE  \A i \in 1 .. size : BigEndian(b, size)[i] =
              IF i = 1 THEN Sign(b[1]) ELSE BigEndian(b, size)[i - 1] * Byte + b[i]
<1> DEFINE F == [i \in 1 .. size |-> [x \in Int |-> x * Byte + b[i]]]
           Z == Int
<1>1. F \in [1 .. size -> [Z -> Z]]
  BY BytesAre
<1>2. \A i \in 1 .. size : \A x \in Int : F[i][x] = x * Byte + b[i]
  OBVIOUS
<1>3. 1 \in 1 .. size /\ Sign(b[1]) \in Z
  BY BytesAre DEF Sign
<1>4. PICK g \in [1 .. size -> Z] : Follows(g, size, Sign(b[1]), F)
  <2> HIDE DEF F, Z
  <2> QED BY <1>1, <1>3, Recursion, Zenon
<1> HIDE DEF F
<1>5. ASSUME NEW i \in 1 .. size PROVE g[i] = IF i = 1 THEN Sign(b[1]) ELSE g[i - 1] * Byte + b[i]
  <2>1. i # 1 => i - 1 \in 1 .. size
    OBVIOUS
  <2>2. i # 1 => g[i - 1] \in Int
    BY <1>4, <2>1
  <2> QED BY <1>2, <1>4, <2>2, Zenon DEF Follows
<1>6. g = [i \in 1 .. size |-> IF i = 1 THEN IF b[1] >= Base THEN b[1] - Byte ELSE b[1]
                               ELSE g[i - 1] * Byte + b[i]]
  BY <1>5 DEF Sign
<1>7. BigEndian(b, size) =
        [i \in 1 .. size |-> IF i = 1 THEN IF b[1] >= Base THEN b[1] - Byte ELSE b[1]
                             ELSE BigEndian(b, size)[i - 1] * Byte + b[i]]
  BY <1>6, Zenon DEF BigEndian
<1> DEFINE u == BigEndian(b, size)
<1> HIDE DEF u
<1>8. u = [i \in 1 .. size |-> IF i = 1 THEN Sign(b[1]) ELSE u[i - 1] * Byte + b[i]]
  BY <1>7 DEF u, Sign
<1>9. \A i \in 1 .. size : u[i] = IF i = 1 THEN Sign(b[1]) ELSE u[i - 1] * Byte + b[i]
  BY <1>8
<1> QED BY <1>9 DEF u

\* n is a two's complement integer of `size' bytes: its highest byte has room for
\* the sign.
FitsInt(n, size) == Shifted(n, size)[size] \in -Base .. Base - 1

LEMMA WriteIntIs ==
    ASSUME NEW n \in Int, NEW size \in Nat \ {0}
    PROVE  /\ WriteInt(n, size) \in [1 .. size -> 0 .. Byte - 1]
           /\ WriteInt(n, size) \in Seq(0 .. Byte - 1) /\ Len(WriteInt(n, size)) = size
<1>1. Shifted(n, size) \in [1 .. size -> Int]
  BY ShiftedIs
<1>2. \A i \in 1 .. size : size - i + 1 \in 1 .. size
  OBVIOUS
<1>3. \A i \in 1 .. size : Shifted(n, size)[size - i + 1] % Byte \in 0 .. Byte - 1
  BY <1>1, <1>2, BytesAre, DivMod, Zenon
<1>4. WriteInt(n, size) \in [1 .. size -> 0 .. Byte - 1]
  BY <1>3 DEF WriteInt
<1>5. WriteInt(n, size) \in Seq(0 .. Byte - 1)
  BY <1>4, SeqDef, Zenon
<1> QED BY <1>4, <1>5, LenProperties

\* The bytes of an integer are read as that integer.
LEMMA BytesOfInt ==
    ASSUME NEW n \in Int, NEW size \in Nat \ {0}, FitsInt(n, size)
    PROVE  BigEndian(WriteInt(n, size), size)[size] = n
<1> DEFINE r == Shifted(n, size)
           b == WriteInt(n, size)
           u == BigEndian(b, size)
<1>1. /\ r \in [1 .. size -> Int] /\ r[size] \in -Base .. Base - 1
      /\ \A i \in 1 .. size : r[i] = IF i = 1 THEN n ELSE r[i - 1] \div Byte
  BY ShiftedIs, Zenon DEF FitsInt
<1>2. \A i \in 1 .. size : b[i] = r[size - i + 1] % Byte
  BY DEF WriteInt
<1>3. \A i \in 1 .. size : b[i] \in 0 .. Byte - 1
  BY WriteIntIs, Zenon
<1>4. \A i \in 1 .. size : u[i] = IF i = 1 THEN Sign(b[1]) ELSE u[i - 1] * Byte + b[i]
  <2>1. \A i \in 1 .. size : b[i] \in Int
    BY <1>3, BytesAre
  <2> HIDE DEF b
  <2> QED BY <2>1, BigEndianIs
<1> HIDE DEF r, b, u
<1>5. 1 \in 1 .. size /\ size \in 1 .. size /\ size - 1 + 1 = size /\ size - size + 1 = 1
  OBVIOUS
<1> DEFINE T == {i \in 1 .. size : u[i] = r[size - i + 1]}
<1>6. 1 \in T
  <2>1. b[1] = r[size] % Byte
    BY <1>2, <1>5
  <2>2. Sign(r[size] % Byte) = r[size]
    <3> DEFINE x == r[size]
    <3>1. x \in Int /\ x \in -Base .. Base - 1
      BY <1>1, <1>5
    <3> HIDE DEF x
    <3>2. CASE x >= 0
      <4>1. x % Byte = x
        BY <3>1, <3>2, BytesAre
      <4> QED BY <3>1, <4>1, BytesAre DEF Sign, x
    <3>3. CASE x < 0
      <4>1. x % Byte = x + Byte
        BY <3>1, <3>3, BytesAre
      <4> QED BY <3>1, <3>3, <4>1, BytesAre DEF Sign, x
    <3> QED BY <3>1, <3>2, <3>3
  <2>3. u[1] = r[size]
    BY <1>4, <1>5, <2>1, <2>2, Zenon
  <2> QED BY <1>5, <2>3
<1>7. ASSUME NEW i \in 1 .. size, i # 1, i - 1 \in T PROVE i \in T
  <2> DEFINE k == size - i + 1
  <2>1. /\ k \in 1 .. size /\ k + 1 \in 1 .. size /\ k + 1 # 1
        /\ (k + 1) - 1 = k /\ size - (i - 1) + 1 = k + 1
    BY <1>7
  <2>2. u[i - 1] = r[k + 1]
    BY <1>7, <2>1
  <2>3. u[i] = r[k + 1] * Byte + b[i] /\ b[i] = r[k] % Byte
    BY <1>2, <1>4, <1>7, <2>2, Zenon
  <2> HIDE DEF k
  <2>4. r[k + 1] = r[k] \div Byte /\ r[k] \in Int
    BY <1>1, <2>1
  <2>5. u[i] = r[k]
    BY <2>3, <2>4, DivMod, BytesAre, Zenon
  <2> QED BY <2>5 DEF k
<1>8. size \in T
  <2> HIDE DEF T
  <2> QED BY <1>5, <1>6, <1>7, Induction, Zenon
<1>9. u[size] = r[1] /\ r[1] = n
  BY <1>1, <1>5, <1>8, Zenon
<1> QED BY <1>9 DEF u, b

\* ReadInt on a buffer that has the bytes of n at position p.
LEMMA ReadsIntAt ==
    ASSUME NEW S, NEW s \in Seq(S), NEW p \in Nat, NEW n \in Int, NEW size \in Nat \ {0},
           FitsInt(n, size), p + size <= Len(s),
           SubSeq(s, p + 1, p + size) = WriteInt(n, size)
    PROVE  ReadInt(s, p, size) = Done(n, p + size)
<1>1. ReadExact(s, p, size) = Done(WriteInt(n, size), p + size)
  <2>1. Len(s) \in Nat
    BY LenProperties
  <2>2. ~(size < 0) /\ ~(size > Len(s) - p)
    BY <2>1
  <2> QED BY <2>2, Zenon DEF ReadExact
<1>2. BigEndian(WriteInt(n, size), size)[size] = n
  BY BytesOfInt
<1>3. Done(WriteInt(n, size), p + size).pos = p + size
      /\ Done(WriteInt(n, size), p + size).val = WriteInt(n, size) /\ ~(p + size < 0)
  BY DEF Done
<1> QED BY <1>1, <1>2, <1>3 DEF ReadInt, Then

\* What Int8::write .. Int64::write put anywhere into a buffer, read gives back and
\* takes no byte more: for every width, every byte size and every integer that fits.
THEOREM IntRoundTrip ==
    ASSUME NEW n \in Int, NEW size \in Nat \ {0}, FitsInt(n, size),
           NEW before \in Seq(0 .. Byte - 1), NEW after \in Seq(0 .. Byte - 1)
    PROVE  ReadInt(before \o WriteInt(n, size) \o after, Len(before), size)
              = Done(n, Len(before) + size)
<1> DEFINE S == 0 .. Byte - 1
           w == WriteInt(n, size)
           s == before \o w \o after
           p == Len(before)
<1>1. w \in Seq(S) /\ Len(w) = size
  BY WriteIntIs
<1> HIDE DEF S, w
<1>2. before \in Seq(S) /\ after \in Seq(S) /\ p \in Nat
  BY LenProperties DEF S
<1>3. before \o w \in Seq(S) /\ Len(before \o w) = p + size
  BY <1>1, <1>2, ConcatProperties, Zenon
<1>4. s \in Seq(S) /\ Len(s) = p + size + Len(after) /\ Len(after) \in Nat
  BY <1>2, <1>3, ConcatProperties, LenProperties, ZenonT(30)
<1>5. SubSeq(s, p + 1, p + size) = SubSeq(before \o w, p + 1, p + size)
  <2>1. p + 1 \in 1 .. Len(before \o w) + 1 /\ p + size \in p + 1 - 1 .. Len(before \o w)
    BY <1>2, <1>3
  <2> QED BY <1>2, <1>3, <2>1, SubSeqOfConcat1, SMTT(30)
<1>6. SubSeq(before \o w, p + 1, p + size) = SubSeq(w, 1, size)
  <2>1. /\ p + 1 \in Len(before) + 1 .. Len(before) + Len(w) + 1
        /\ p + size \in p + 1 - 1 .. Len(before) + Len(w)
        /\ p + 1 - p = 1 /\ p + size - p = size
    BY <1>1, <1>2
  <2> QED BY <1>1, <1>2, <2>1, SubSeqOfConcat2
<1>7. SubSeq(w, 1, size) = w
  BY <1>1, SubSeqFull
<1>8. p + size <= Len(s)
  BY <1>2, <1>4
<1>9. SubSeq(s, p + 1, p + size) = WriteInt(n, size)
  BY <1>5, <1>6, <1>7, Zenon DEF w
<1> HIDE DEF s, p
<1>10. ReadInt(s, p, size) = Done(n, p + size)
  BY <1>2, <1>4, <1>8, <1>9, ReadsIntAt, Zenon
<1> QED BY <1>10 DEF s, p, w

-----------------------------------------------------------------------------
(* Sequences of frames                                                     *)

\* The concatenations of the first sequences of ss.
Flat(ss) ==
    LET upTo[i \in 1 .. Len(ss)] == IF i = 1 THEN ss[1] ELSE upTo[i - 1] \o ss[i]
    IN  upTo

LEMMA JoinedIs ==
    ASSUME NEW ss
    PROVE  Joined(ss) = IF Len(ss) = 0 THEN <<>> ELSE Flat(ss)[Len(ss)]
BY DEF Joined, Flat

LEMMA FlatIs ==
    ASSUME NEW S, NEW ss \in Seq(Seq(S))
    PROVE  \A i \in 1 .. Len(ss) :
              /\ Flat(ss)[i] = IF i = 1 THEN ss[i] ELSE Flat(ss)[i - 1] \o ss[i]
              /\ Flat(ss)[i] \in Seq(S)
<1> DEFINE n == Len(ss)
           Q == Seq(S)
           F == [i \in 1 .. n |-> [x \in Q |-> x \o ss[i]]]
<1>1. n \in Nat /\ \A i \in 1 .. n : ss[i] \in Q
  BY LenProperties, ElementOfSeq
<1>2. \A x \in Q : \A i \in 1 .. n : x \o ss[i] \in Q
  BY <1>1, ConcatProperties
<1> HIDE DEF n, Q
<1>3. F \in [1 .. n -> [Q -> Q]]
  BY <1>2
<1>4. \A i \in 1 .. n : \A x \in Q : F[i][x] = x \o ss[i]
  OBVIOUS
<1> HIDE DEF F
<1>5. CASE n = 0
  BY <1>5 DEF n
<1>6. CASE n # 0
  <2>1. 1 \in 1 .. n
    BY <1>1, <1>6
  <2>2. PICK g \in [1 .. n -> Q] : Follows(g, n, ss[1], F)
    BY <1>1, <1>3, <2>1, Recursion, Zenon
  <2>3. ASSUME NEW i \in 1 .. n PROVE g[i] = IF i = 1 THEN ss[i] ELSE g[i - 1] \o ss[i]
    <3>1. i # 1 => i - 1 \in 1 .. n
      BY <1>1
    <3>2. i # 1 => g[i - 1] \in Q
      BY <2>2, <3>1, Zenon
    <3> QED BY <1>4, <2>2, <3>2, Zenon DEF Follows
  <2>4. g = [i \in 1 .. Len(ss) |-> IF i = 1 THEN ss[i] ELSE g[i - 1] \o ss[i]]
    BY <2>2, <2>3, Zenon DEF n
  <2>5. Flat(ss) = [i \in 1 .. Len(ss) |-> IF i = 1 THEN ss[i] ELSE Flat(ss)[i - 1] \o ss[i]]
    BY <2>4, ZenonT(30) DEF Flat
  <2> DEFINE f == Flat(ss)
  <2> HIDE DEF f
  <2>6. \A i \in 1 .. n : f[i] = IF i = 1 THEN ss[i] ELSE f[i - 1] \o ss[i]
    BY <2>5, Zenon DEF f, n
  <2>7. /\ n > 0 => f[1] \in Q
        /\ \A i \in 1 .. n : i # 1 /\ f[i - 1] \in Q => f[i] \in Q
    BY <1>1, <1>2, <2>1, <2>6, Zenon
  <2>8. \A i \in 1 .. n : f[i] \in Q
    BY <1>1, <2>7, RecursionType, Zenon
  <2> QED BY <2>6, <2>8, Zenon DEF f, n, Q
<1> QED BY <1>5, <1>6

LEMMA JoinedType ==
    ASSUME NEW S, NEW ss \in Seq(Seq(S))
    PROVE  Joined(ss) \in Seq(S)
<1>1. Len(ss) \in Nat
  BY LenProperties
<1>2. CASE Len(ss) = 0
  <2>1. ss = <<>>
    BY <1>2, EmptySeq
  <2> QED BY <1>2, <2>1, JoinedIs, EmptySeq, Zenon
<1>3. CASE Len(ss) # 0
  <2>1. Len(ss) \in 1 .. Len(ss)
    BY <1>1, <1>3
  <2> QED BY <1>3, <2>1, JoinedIs, FlatIs, Zenon
<1> QED BY <1>2, <1>3

\* The first part of a concatenation.
LEMMA FlatPrefix ==
    ASSUME NEW S, NEW a \in Seq(Seq(S)), NEW b \in Seq(Seq(S))
    PROVE  \A i \in 1 .. Len(a) : Flat(a \o b)[i] = Flat(a)[i]
<1> DEFINE c == a \o b
           f == Flat(a)
           h == Flat(c)
           n == Len(a)
           T == {i \in 1 .. n : h[i] = f[i]}
<1>1. /\ c \in Seq(Seq(S)) /\ Len(c) = Len(a) + Len(b) /\ Len(a) \in Nat /\ Len(b) \in Nat
      /\ \A i \in 1 .. Len(a) : c[i] = a[i]
  BY ConcatProperties, LenProperties
<1>2. \A i \in 1 .. Len(a) : f[i] = IF i = 1 THEN a[i] ELSE f[i - 1] \o a[i]
  BY FlatIs
<1> HIDE DEF c
<1>3. \A i \in 1 .. Len(c) : h[i] = IF i = 1 THEN c[i] ELSE h[i - 1] \o c[i]
  BY <1>1, FlatIs, Zenon
<1> HIDE DEF f, h
<1>4. \A i \in 1 .. n : i \in 1 .. Len(c)
  BY <1>1
<1>5. \A i \in 1 .. n : h[i] = IF i = 1 THEN a[i] ELSE h[i - 1] \o a[i]
  BY <1>1, <1>3, <1>4, Zenon
<1>6. n > 0 => 1 \in T
  BY <1>1, <1>2, <1>5
<1>7. \A i \in 1 .. n : i # 1 /\ i - 1 \in T => i \in T
  BY <1>1, <1>2, <1>5
<1>8. \A i \in 1 .. n : i \in T
  <2> HIDE DEF T
  <2> QED BY <1>1, <1>6, <1>7, Induction, Zenon
<1> QED BY <1>8 DEF h, f, c

LEMMA ConcatIs ==
    ASSUME NEW S, NEW u \in Seq(S), NEW v \in Seq(S)
    PROVE  /\ u \o v \in Seq(S) /\ Len(u) \in Nat /\ Len(v) \in Nat
           /\ Len(u \o v) = Len(u) + Len(v)
           /\ \A i \in 1 .. Len(u) : (u \o v)[i] = u[i]
           /\ \A i \in 1 .. Len(v) : (u \o v)[Len(u) + i] = v[i]
BY ConcatProperties, LenProperties

LEMMA Associates == \A S : \A x, y, z \in Seq(S) : (x \o y) \o z = x \o (y \o z)
BY ConcatAssociative, Zenon

LEMMA JoinedConcat ==
    ASSUME NEW S, NEW a \in Seq(Seq(S)), NEW b \in Seq(Seq(S))
    PROVE  Joined(a \o b) = Joined(a) \o Joined(b)
<1> DEFINE c == a \o b
           x == Joined(a)
           g == Flat(b)
           h == Flat(c)
           n == Len(b)
           m == Len(a)
           T == {i \in 1 .. n : h[m + i] = x \o g[i]}
<1>1. /\ c \in Seq(Seq(S)) /\ Len(c) = m + n /\ m \in Nat /\ n \in Nat
      /\ \A i \in 1 .. n : c[m + i] = b[i]
  BY ConcatProperties, LenProperties
<1>2. x \in Seq(S)
  BY JoinedType
<1>3. \A i \in 1 .. n : /\ g[i] = IF i = 1 THEN b[i] ELSE g[i - 1] \o b[i]
                        /\ g[i] \in Seq(S) /\ b[i] \in Seq(S)
  BY FlatIs, ElementOfSeq
<1>4. m # 0 => h[m] = x
  <2>1. m # 0 => m \in 1 .. m
    BY <1>1
  <2>2. m # 0 => h[m] = Flat(a)[m]
    BY <2>1, FlatPrefix
  <2> QED BY <2>2, JoinedIs
<1>5. m = 0 => x = <<>> /\ a = <<>>
  BY JoinedIs, EmptySeq
<1>6. CASE n = 0
  <2>1. b = <<>> /\ Joined(b) = <<>>
    BY <1>6, JoinedIs, EmptySeq, Zenon
  <2>2. a \o <<>> = a /\ x \o <<>> = x
    BY <1>2, ConcatEmptySeq, Zenon
  <2> QED BY <2>1, <2>2, Zenon
<1>7. CASE n # 0
  <2> HIDE DEF c, x, g
  <2>1. \A j \in 1 .. m + n : h[j] = IF j = 1 THEN c[j] ELSE h[j - 1] \o c[j]
    <3>1. \A j \in 1 .. Len(c) : h[j] = IF j = 1 THEN c[j] ELSE h[j - 1] \o c[j]
      BY <1>1, FlatIs, Zenon
    <3> HIDE DEF h, m, n
    <3> QED BY <1>1, <3>1
  <2> HIDE DEF h, n, m
  <2>2. 1 \in 1 .. n /\ n \in 1 .. n /\ m + 1 \in 1 .. m + n /\ (m + 1) - 1 = m
    BY <1>1, <1>7
  <2>3. 1 \in T
    <3>1. c[m + 1] = b[1] /\ g[1] = b[1] /\ b[1] \in Seq(S)
      BY <1>1, <1>3, <2>2
    <3>2. CASE m = 0
      <4>1. h[m + 1] = b[1]
        BY <2>1, <2>2, <3>1, <3>2
      <4>2. x \o b[1] = b[1]
        BY <1>5, <3>1, <3>2, ConcatEmptySeq, Zenon
      <4> QED BY <2>2, <3>1, <4>1, <4>2, Zenon
    <3>3. CASE m # 0
      <4>1. h[m + 1] = h[(m + 1) - 1] \o c[m + 1]
        <5>1. m + 1 # 1
          BY <1>1, <3>3
        <5> QED BY <2>1, <2>2, <5>1, Zenon
      <4>2. h[m + 1] = x \o g[1]
        BY <1>4, <2>2, <3>1, <3>3, <4>1, Zenon
      <4> QED BY <2>2, <4>2, Zenon
    <3> QED BY <3>2, <3>3
  <2>4. ASSUME NEW i \in 1 .. n, i # 1, i - 1 \in T PROVE i \in T
    <3>1. /\ i - 1 \in 1 .. n /\ m + i \in 1 .. m + n /\ m + i # 1
          /\ (m + i) - 1 = m + (i - 1)
      BY <1>1, <2>4
    <3>2. h[m + (i - 1)] = x \o g[i - 1]
      BY <2>4
    <3>3. h[m + i] = (x \o g[i - 1]) \o b[i]
      BY <1>1, <2>1, <3>1, <3>2, ZenonT(30)
    <3>4. g[i] = g[i - 1] \o b[i] /\ g[i - 1] \in Seq(S) /\ b[i] \in Seq(S)
      BY <1>3, <2>4, <3>1, Zenon
    <3>5. (x \o g[i - 1]) \o b[i] = x \o (g[i - 1] \o b[i])
      <4> DEFINE y == g[i - 1]
                 z == b[i]
                 Q == Seq(S)
      <4>0. x \in Q /\ y \in Q /\ z \in Q
        BY <1>2, <3>4
      <4>1. \A u, v, w \in Q : (u \o v) \o w = u \o (v \o w)
        BY Associates, SMTT(30)
      <4> HIDE DEF y, z, T, Q
      <4>2. (x \o y) \o z = x \o (y \o z)
        BY <4>0, <4>1, Zenon
      <4> QED BY <4>2 DEF y, z
    <3> QED BY <3>3, <3>4, <3>5, Zenon
  <2>5. n \in T
    <3> HIDE DEF T
    <3> QED BY <1>1, <2>2, <2>3, <2>4, Induction, Zenon
  <2>6. h[m + n] = x \o g[n]
    BY <2>5
  <2>7. Joined(c) = h[m + n]
    <3>1. Len(c) = m + n /\ m + n # 0
      BY <1>1, <1>7
    <3> QED BY <3>1, JoinedIs, Zenon DEF h
  <2>8. Joined(b) = g[n]
    BY <1>7, JoinedIs DEF g, n
  <2> QED BY <2>6, <2>7, <2>8, Zenon DEF c, x
<1> QED BY <1>6, <1>7

Bytes == 0 .. Byte - 1

\* The messages write_message accepts.
Message == {m \in Seq(Bytes) : Writable(m)}

\* A length that an Int32 can hold fits four bytes.
LEMMA LengthFits ==
    ASSUME NEW n \in Nat, n < Base * Byte * Byte * Byte
    PROVE  FitsInt(n, 4)
<1> DEFINE size == 4
           r == Shifted(n, size)
<1>0. size \in Nat /\ n \in Int
  OBVIOUS
<1> HIDE DEF size
<1>1. \A i \in 1 .. size : r[i] \in Int /\ r[i] = IF i = 1 THEN n ELSE r[i - 1] \div Byte
  <2>1. r \in [1 .. size -> Int]
    BY <1>0, ShiftedIs
  <2>2. \A i \in 1 .. size : r[i] = IF i = 1 THEN n ELSE r[i - 1] \div Byte
    BY <1>0, ShiftedIs
  <2> QED BY <2>1, <2>2
<1> HIDE DEF r
<1>2. r[1] = n /\ r[2] = r[1] \div Byte /\ r[3] = r[2] \div Byte /\ r[4] = r[3] \div Byte
  BY <1>1 DEF size
<1>3. ASSUME NEW x \in Nat, NEW y \in Nat, x < y * Byte
      PROVE  x \div Byte \in Nat /\ x \div Byte < y
  BY <1>3, BytesAre
<1>4. Base * Byte \in Nat /\ Base * Byte * Byte \in Nat
  BY BytesAre
<1>5. r[2] \in Nat /\ r[2] < Base * Byte * Byte
  BY <1>2, <1>3, <1>4, Zenon
<1>6. r[3] \in Nat /\ r[3] < Base * Byte
  BY <1>2, <1>3, <1>4, <1>5
<1>7. r[4] \in Nat /\ r[4] < Base
  BY <1>2, <1>3, <1>6, BytesAre, Zenon
<1>8. r[4] \in -Base .. Base - 1
  BY <1>7, BytesAre
<1> QED BY <1>8 DEF FitsInt, r, size

LEMMA FrameIs ==
    ASSUME NEW m \in Message
    PROVE  /\ Frame(m) \in Seq(Bytes) /\ Len(Frame(m)) = Len(m) + 4
           /\ WriteInt(Len(m), 4) \in Seq(Bytes) /\ Len(WriteInt(Len(m), 4)) = 4
           /\ m \in Seq(Bytes) /\ Len(m) \in Nat /\ FitsInt(Len(m), 4)
<1>1. m \in Seq(Bytes) /\ Len(m) \in Nat /\ Writable(m)
  BY LenProperties DEF Message
<1>2. FitsInt(Len(m), 4)
  BY <1>1, LengthFits DEF Writable
<1>3. WriteInt(Len(m), 4) \in Seq(Bytes) /\ Len(WriteInt(Len(m), 4)) = 4
  <2> DEFINE size == 4
  <2>1. size \in Nat \ {0} /\ Len(m) \in Int
    BY <1>1
  <2> HIDE DEF size
  <2>2. WriteInt(Len(m), size) \in Seq(Bytes) /\ Len(WriteInt(Len(m), size)) = size
    BY <2>1, WriteIntIs DEF Bytes
  <2> QED BY <2>2 DEF size
<1>4. Frame(m) \in Seq(Bytes) /\ Len(Frame(m)) = 4 + Len(m)
  <2> DEFINE w == WriteInt(Len(m), 4)
             B == Bytes
  <2>1. w \in Seq(B) /\ Len(w) = 4 /\ m \in Seq(B)
    BY <1>1, <1>3
  <2>2. Frame(m) = w \o m
    BY DEF Frame
  <2> HIDE DEF w, B
  <2>3. w \o m \in Seq(B) /\ Len(w \o m) = Len(w) + Len(m)
    BY <2>1, ConcatProperties, Zenon
  <2> QED BY <2>1, <2>2, <2>3 DEF B
<1> QED BY <1>1, <1>2, <1>3, <1>4

Framed(ms) == [i \in DOMAIN ms |-> Frame(ms[i])]

LEMMA FramedIs ==
    ASSUME NEW ms \in Seq(Message)
    PROVE  Framed(ms) \in Seq(Seq(Bytes)) /\ Len(Framed(ms)) = Len(ms)
<1>1. Len(ms) \in Nat /\ DOMAIN ms = 1 .. Len(ms) /\ \A i \in 1 .. Len(ms) : ms[i] \in Message
  BY LenProperties, ElementOfSeq
<1>2. \A i \in 1 .. Len(ms) : Frame(ms[i]) \in Seq(Bytes)
  BY <1>1, FrameIs
<1>3. Framed(ms) \in [1 .. Len(ms) -> Seq(Bytes)]
  BY <1>1, <1>2 DEF Framed
<1>4. Framed(ms) \in Seq(Seq(Bytes))
  BY <1>1, <1>3, SeqDef
<1> QED BY <1>1, <1>3, <1>4, LenProperties

LEMMA FramesAre ==
    ASSUME NEW a \in Seq(Message), NEW b \in Seq(Message)
    PROVE  /\ Frames(a) \in Seq(Bytes)
           /\ Frames(a \o b) = Frames(a) \o Frames(b)
<1> DEFINE c == a \o b
           Q == Seq(Bytes)
<1>1. /\ c \in Seq(Message) /\ Len(c) = Len(a) + Len(b) /\ Len(a) \in Nat /\ Len(b) \in Nat
      /\ \A i \in 1 .. Len(a) : c[i] = a[i]
      /\ \A i \in 1 .. Len(b) : c[Len(a) + i] = b[i]
      /\ DOMAIN a = 1 .. Len(a) /\ DOMAIN b = 1 .. Len(b)
  BY ConcatProperties, LenProperties
<1> HIDE DEF c, Q
<1>2. /\ Framed(a) \in Seq(Q) /\ Framed(b) \in Seq(Q) /\ Framed(c) \in Seq(Q)
      /\ Len(Framed(a)) = Len(a) /\ Len(Framed(b)) = Len(b) /\ Len(Framed(c)) = Len(c)
  BY <1>1, FramedIs, Zenon DEF Q
<1>3. /\ Framed(a) \o Framed(b) \in Seq(Q)
      /\ Len(Framed(a) \o Framed(b)) = Len(a) + Len(b)
      /\ \A i \in 1 .. Len(a) : (Framed(a) \o Framed(b))[i] = Framed(a)[i]
      /\ \A i \in 1 .. Len(b) : (Framed(a) \o Framed(b))[Len(a) + i] = Framed(b)[i]
  <2> DEFINE u == Framed(a)
             v == Framed(b)
  <2>1. u \in Seq(Q) /\ v \in Seq(Q) /\ Len(u) = Len(a) /\ Len(v) = Len(b)
    BY <1>2
  <2> HIDE DEF u, v
  <2>2. /\ u \o v \in Seq(Q)
        /\ Len(u \o v) = Len(u) + Len(v)
        /\ \A i \in 1 .. Len(u) : (u \o v)[i] = u[i]
        /\ \A i \in 1 .. Len(v) : (u \o v)[Len(u) + i] = v[i]
    BY <2>1, ConcatIs
  <2> QED BY <2>1, <2>2, Zenon DEF u, v
<1>4. DOMAIN c = 1 .. Len(c)
  BY <1>1, LenProperties
<1>5. ASSUME NEW i \in 1 .. Len(c) PROVE Framed(c)[i] = (Framed(a) \o Framed(b))[i]
  <2>1. CASE i \in 1 .. Len(a)
    BY <1>1, <1>3, <1>4, <2>1, Zenon DEF Framed
  <2>2. CASE i \notin 1 .. Len(a)
    <3>1. i - Len(a) \in 1 .. Len(b) /\ i = Len(a) + (i - Len(a))
      BY <1>1, <2>2
    <3> DEFINE k == i - Len(a)
    <3> HIDE DEF k
    <3>2. k \in 1 .. Len(b) /\ i = Len(a) + k
      BY <3>1 DEF k
    <3>3. c[i] = b[k] /\ (Framed(a) \o Framed(b))[i] = Framed(b)[k]
      BY <1>1, <1>3, <3>2, Zenon
    <3> QED BY <1>1, <1>4, <3>2, <3>3, Zenon DEF Framed
  <2> QED BY <2>1, <2>2, Zenon
<1>6. Framed(c) = Framed(a) \o Framed(b)
  <2> DEFINE u == Framed(c)
             v == Framed(a) \o Framed(b)
  <2>1. u \in Seq(Q) /\ v \in Seq(Q) /\ Len(u) = Len(v) /\ \A i \in 1 .. Len(u) : u[i] = v[i]
    BY <1>1, <1>2, <1>3, <1>5, Zenon
  <2> HIDE DEF u, v
  <2>2. u = v
    BY <2>1, SeqEqual
  <2> QED BY <2>2 DEF u, v
<1>7. \A ms : Frames(ms) = Joined(Framed(ms))
  BY DEF Frames, Framed
<1>8. Joined(Framed(a) \o Framed(b)) = Joined(Framed(a)) \o Joined(Framed(b))
  BY <1>2, JoinedConcat, Zenon DEF Q
<1>9. Joined(Framed(a)) \in Seq(Bytes)
  BY <1>2, JoinedType DEF Q
<1> QED BY <1>6, <1>7, <1>8, <1>9, Zenon DEF c

LEMMA FewFrames == Frames(<<>>) = <<>> /\ \A m \in Message : Frames(<<m>>) = Frame(m)
<1>1. Frames(<<>>) = <<>>
  <2>1. Framed(<<>>) = <<>>
    BY DEF Framed
  <2> QED BY <2>1, JoinedIs DEF Frames, Framed
<1>2. ASSUME NEW m \in Message PROVE Frames(<<m>>) = Frame(m)
  <2> DEFINE f == Framed(<<m>>)
             Q == Bytes
  <2>1. <<m>> \in Seq(Message) /\ Len(<<m>>) = 1
    OBVIOUS
  <2>2. f \in Seq(Seq(Q)) /\ Len(f) = 1
    BY <2>1, FramedIs, Zenon
  <2>3. f[1] = Frame(m)
    BY DEF Framed
  <2> HIDE DEF f, Q
  <2>4. Flat(f)[1] = f[1]
    <3>1. \A i \in 1 .. Len(f) : Flat(f)[i] = IF i = 1 THEN f[i] ELSE Flat(f)[i - 1] \o f[i]
      BY <2>2, FlatIs, Zenon
    <3>2. 1 \in 1 .. Len(f)
      BY <2>2
    <3> QED BY <3>1, <3>2
  <2>5. Joined(f) = Frame(m)
    <3>1. Joined(f) = IF Len(f) = 0 THEN f ELSE Flat(f)[Len(f)]
      BY JoinedIs
    <3> QED BY <2>2, <2>3, <2>4, <3>1
  <2> QED BY <2>5 DEF Frames, Framed, f
<1> QED BY <1>1, <1>2

\* The stream that begins with the first message.
LEMMA FirstFrame ==
    ASSUME NEW ms \in Seq(Message), ms # <<>>
    PROVE  /\ Head(ms) \in Message /\ Tail(ms) \in Seq(Message)
           /\ Frames(ms) = Frame(Head(ms)) \o Frames(Tail(ms))
<1>1. Head(ms) \in Message /\ Tail(ms) \in Seq(Message) /\ <<Head(ms)>> \in Seq(Message)
  BY HeadTailProperties
<1>2. ms = <<Head(ms)>> \o Tail(ms)
  BY <1>1
<1>3. Frames(<<Head(ms)>> \o Tail(ms)) = Frames(<<Head(ms)>>) \o Frames(Tail(ms))
  BY <1>1, FramesAre, Zenon
<1> QED BY <1>1, <1>2, <1>3, FewFrames, Zenon

-----------------------------------------------------------------------------
(* read_message                                                            *)

\* What ConcatIs says of a concatenation t.
Joins(t, u, v) ==
    /\ Len(u) \in Nat /\ Len(v) \in Nat /\ Len(t) = Len(u) + Len(v)
    /\ \A i \in 1 .. Len(u) : t[i] = u[i]
    /\ \A i \in 1 .. Len(v) : t[Len(u) + i] = v[i]

LEMMA ConcatJoins == \A S : \A u, v \in Seq(S) : u \o v \in Seq(S) /\ Joins(u \o v, u, v)
<1> TAKE S
<1> TAKE u, v \in Seq(S)
<1> QED BY ConcatIs DEF Joins

\* Sequences that agree, the first n elements of both removed.
FrontDropped(S, s, y, a, b, n) ==
    /\ SubSeq(s, 1, n) = SubSeq(a, 1, n)
    /\ SubSeq(s, n + 1, Len(s)) \in Seq(S) /\ SubSeq(a, n + 1, Len(a)) \in Seq(S)
    /\ Len(SubSeq(a, n + 1, Len(a))) = Len(a) - n
    /\ SubSeq(s, n + 1, Len(s)) \o y = SubSeq(a, n + 1, Len(a)) \o b

LEMMA DropFront ==
    ASSUME NEW S, NEW s \in Seq(S), NEW y \in Seq(S), NEW a \in Seq(S), NEW b \in Seq(S),
           s \o y = a \o b, NEW n \in Nat, n <= Len(s), n <= Len(a)
    PROVE  FrontDropped(S, s, y, a, b, n)
<1> DEFINE t == s \o y
           d == SubSeq(s, n + 1, Len(s))
           e == SubSeq(a, n + 1, Len(a))
<1>1. /\ t \in Seq(S) /\ Joins(t, s, y) /\ Joins(t, a, b)
  <2>1. t \in Seq(S) /\ Joins(t, s, y)
    BY ConcatJoins, Zenon
  <2>2. Joins(a \o b, a, b)
    BY ConcatJoins, Zenon
  <2> QED BY <2>1, <2>2
<1>2. /\ \A i \in 1 .. Len(s) : s[i] \in S
      /\ \A i \in 1 .. Len(a) : a[i] \in S
  BY ElementOfSeq, Zenon
<1> HIDE DEF t
<1>3. /\ d \in Seq(S) /\ Len(d) = Len(s) - n /\ \A i \in 1 .. Len(s) - n : d[i] = s[n + i]
  BY <1>1, <1>2, SubSeqProperties DEF Joins
<1>4. /\ e \in Seq(S) /\ Len(e) = Len(a) - n /\ \A i \in 1 .. Len(a) - n : e[i] = a[n + i]
  BY <1>1, <1>2, SubSeqProperties DEF Joins
<1> HIDE DEF d, e
<1>5. d \o y \in Seq(S) /\ Joins(d \o y, d, y)
  BY <1>3, ConcatJoins, Zenon
<1>6. e \o b \in Seq(S) /\ Joins(e \o b, e, b)
  BY <1>4, ConcatJoins, Zenon
<1>7. \A i \in 1 .. Len(d) + Len(y) : (d \o y)[i] = t[n + i]
  <2> SUFFICES ASSUME NEW i \in 1 .. Len(d) + Len(y) PROVE (d \o y)[i] = t[n + i]
    BY Zenon
  <2>1. CASE i \in 1 .. Len(d)
    <3>1. n + i \in 1 .. Len(s)
      BY <1>1, <1>3, <2>1, SMTT(30) DEF Joins
    <3> QED BY <1>1, <1>3, <1>5, <2>1, <3>1, Zenon DEF Joins
  <2>2. CASE i \notin 1 .. Len(d)
    <3> DEFINE k == i - Len(d)
    <3>1. k \in 1 .. Len(y) /\ i = Len(d) + k /\ n + i = Len(s) + k
      BY <1>1, <1>3, <1>5, <2>2 DEF Joins
    <3> HIDE DEF k
    <3> QED BY <1>1, <1>5, <3>1, Zenon DEF Joins
  <2> QED BY <2>1, <2>2
<1>8. \A i \in 1 .. Len(e) + Len(b) : (e \o b)[i] = t[n + i]
  <2> SUFFICES ASSUME NEW i \in 1 .. Len(e) + Len(b) PROVE (e \o b)[i] = t[n + i]
    BY Zenon
  <2>1. CASE i \in 1 .. Len(e)
    <3>1. n + i \in 1 .. Len(a)
      BY <1>1, <1>4, <2>1 DEF Joins
    <3> QED BY <1>1, <1>4, <1>6, <2>1, <3>1, Zenon DEF Joins
  <2>2. CASE i \notin 1 .. Len(e)
    <3> DEFINE k == i - Len(e)
    <3>1. k \in 1 .. Len(b) /\ i = Len(e) + k /\ n + i = Len(a) + k
      BY <1>1, <1>4, <1>6, <2>2 DEF Joins
    <3> HIDE DEF k
    <3> QED BY <1>1, <1>6, <3>1, Zenon DEF Joins
  <2> QED BY <2>1, <2>2
<1>9. d \o y = e \o b
  <2> DEFINE u == d \o y
             v == e \o b
  <2>0. Len(d) + Len(y) = Len(e) + Len(b)
    BY <1>1, <1>3, <1>4 DEF Joins
  <2>1. /\ u \in Seq(S) /\ v \in Seq(S) /\ Len(u) = Len(v)
        /\ \A i \in 1 .. Len(u) : u[i] = v[i]
    BY <1>5, <1>6, <1>7, <1>8, <2>0, Zenon DEF Joins
  <2> HIDE DEF u, v
  <2>2. u = v
    BY <2>1, SeqEqual, Zenon
  <2> QED BY <2>2, Zenon DEF u, v
<1>10. SubSeq(s, 1, n) = SubSeq(a, 1, n)
  <2> DEFINE u == SubSeq(s, 1, n)
             v == SubSeq(a, 1, n)
  <2>1. \A i \in 1 .. n : i \in 1 .. Len(s) /\ i \in 1 .. Len(a) /\ s[i] \in S /\ s[i] = a[i]
    BY <1>1, <1>2 DEF Joins
  <2>2. u \in Seq(S) /\ Len(u) = n /\ \A i \in 1 .. n : u[i] = s[i]
    BY <2>1, SubSeqProperties
  <2>3. v \in Seq(S) /\ Len(v) = n /\ \A i \in 1 .. n : v[i] = a[i]
    BY <2>1, SubSeqProperties
  <2> HIDE DEF u, v
  <2>4. u = v
    BY <2>1, <2>2, <2>3, SeqEqual, Zenon
  <2> QED BY <2>4 DEF u, v
<1> QED BY <1>3, <1>4, <1>9, <1>10, Zenon DEF d, e, FrontDropped

LEMMA SkipStepIs ==
    ASSUME NEW n \in Nat \ {0}
    PROVE  SkipStep(n) \in 1 .. n /\ SkipStep(n) <= MaxMessageSize
<1> DEFINE S == {MaxMessageSize, n}
<1>1. \E x \in S : \A y \in S : x <= y
  BY MaxMessageSizeAssumption
<1>2. SkipStep(n) \in S /\ \A y \in S : SkipStep(n) <= y
  <2> HIDE DEF S
  <2>1. Min(S) \in S /\ \A y \in S : Min(S) <= y
    BY <1>1 DEF Min
  <2> QED BY <2>1 DEF SkipStep, S
<1> QED BY <1>2, MaxMessageSizeAssumption

\* The bytes that the reader has still to meet are x, the unread part of the message it
\* is at, and the frames of `rest'; those on their way, s, are all of them but y, which
\* a peer that closes takes away.
Ahead(s, whole, x, rest) ==
    \E y \in Seq(Bytes) : s \o y = x \o Frames(rest) /\ (whole => y = <<>>)

\* The inductive invariant of the framing layer: what is on its way in each phase of
\* read_message.
InSync ==
    /\ phase = "length" => Ahead(stream, open, <<>>, due)
    /\ phase = "body" =>
           /\ due # <<>> /\ Ahead(stream, open, Head(due), Tail(due))
           /\ left = Len(Head(due)) /\ buf = left /\ left <= MaxMessageSize
    /\ phase = "skip" =>
           /\ due # <<>>
           /\ \E x \in Seq(Bytes) : Len(x) = left /\ Ahead(stream, open, x, Tail(due))
           /\ Len(Head(due)) > MaxMessageSize
           /\ left \in Nat \ {0} /\ buf = SkipStep(left)
    /\ phase = "returned" =>
           /\ due # <<>> /\ Ahead(stream, open, <<>>, Tail(due))
           /\ frame = Received(Head(due))

WireType ==
    /\ open \in BOOLEAN
    /\ stream \in Seq(Bytes)
    /\ due \in Seq(Message)
    /\ buf \in 0 .. MaxMessageSize

WireInv == WireType /\ InSync

LEMMA InitWire == WireInit => WireInv
<1> SUFFICES ASSUME WireInit PROVE WireInv
  OBVIOUS
<1>1. WireType
  BY MaxMessageSizeAssumption DEF WireInit, WireType
<1>2. Ahead(<<>>, TRUE, <<>>, <<>>)
  <2>1. <<>> \in Seq(Bytes) /\ <<>> \o <<>> = <<>>
    OBVIOUS
  <2> QED BY <2>1, FewFrames, Zenon DEF Ahead
<1> QED BY <1>1, <1>2, Zenon DEF WireInit, WireInv, InSync

\* n bytes of the unread part x have been read.
LEMMA AheadDrops ==
    ASSUME NEW s \in Seq(Bytes), NEW whole \in BOOLEAN,
           NEW x \in Seq(Bytes), NEW rest \in Seq(Message), Ahead(s, whole, x, rest),
           NEW n \in Nat, n <= Len(x), n <= Len(s)
    PROVE  /\ SubSeq(s, 1, n) = SubSeq(x, 1, n)
           /\ SubSeq(x, n + 1, Len(x)) \in Seq(Bytes)
           /\ Len(SubSeq(x, n + 1, Len(x))) = Len(x) - n
           /\ SubSeq(s, n + 1, Len(s)) \in Seq(Bytes)
           /\ Ahead(SubSeq(s, n + 1, Len(s)), whole, SubSeq(x, n + 1, Len(x)), rest)
<1> DEFINE b == Frames(rest)
           S == Bytes
<1>1. PICK y \in Seq(S) : s \o y = x \o b /\ (whole => y = <<>>)
  BY Zenon DEF Ahead
<1>2. b \in Seq(S) /\ s \in Seq(S) /\ x \in Seq(S)
  BY FramesAre
<1> HIDE DEF b, S
<1>4. FrontDropped(S, s, y, x, b, n)
  BY <1>1, <1>2, DropFront, Zenon
<1>5. Ahead(SubSeq(s, n + 1, Len(s)), whole, SubSeq(x, n + 1, Len(x)), rest)
  BY <1>1, <1>4, Zenon DEF Ahead, FrontDropped, b, S
<1> QED BY <1>4, <1>5, Zenon DEF FrontDropped, S

\* All of x has been read.
LEMMA AheadEnds ==
    ASSUME NEW s \in Seq(Bytes), NEW whole \in BOOLEAN,
           NEW x \in Seq(Bytes), NEW rest \in Seq(Message), Ahead(s, whole, x, rest),
           Len(x) <= Len(s)
    PROVE  /\ SubSeq(s, 1, Len(x)) = x
           /\ SubSeq(s, Len(x) + 1, Len(s)) \in Seq(Bytes)
           /\ Ahead(SubSeq(s, Len(x) + 1, Len(s)), whole, <<>>, rest)
<1>0. Len(x) \in Nat
  OBVIOUS
<1>1. /\ SubSeq(s, 1, Len(x)) = SubSeq(x, 1, Len(x))
      /\ SubSeq(s, Len(x) + 1, Len(s)) \in Seq(Bytes)
      /\ Ahead(SubSeq(s, Len(x) + 1, Len(s)), whole, SubSeq(x, Len(x) + 1, Len(x)), rest)
  BY <1>0, AheadDrops
<1>2. SubSeq(x, 1, Len(x)) = x /\ SubSeq(x, Len(x) + 1, Len(x)) = <<>>
  BY <1>0, SubSeqFull, SubSeqEmpty
<1> QED BY <1>1, <1>2, Zenon

LEMMA BytesAssociate == \A x, y, z \in Seq(Bytes) : (x \o y) \o z = x \o (y \o z)
<1> DEFINE S == Bytes
<1> HIDE DEF S
<1>1. \A x, y, z \in Seq(S) : (x \o y) \o z = x \o (y \o z)
  BY Associates
<1> QED BY <1>1, Zenon DEF S

\* The peer writes.
LEMMA AheadGrows ==
    ASSUME NEW s \in Seq(Bytes), NEW x \in Seq(Bytes), NEW rest \in Seq(Message),
           Ahead(s, TRUE, x, rest), NEW messages \in Seq(Message)
    PROVE  Ahead(s \o Frames(messages), TRUE, x, rest \o messages)
<1> DEFINE f == Frames(rest)
           g == Frames(messages)
           S == Bytes
<1>1. s \o <<>> = x \o f
  BY Zenon DEF Ahead
<1>2. /\ s \in Seq(S) /\ x \in Seq(S) /\ f \in Seq(S) /\ g \in Seq(S)
      /\ Frames(rest \o messages) = f \o g
  BY FramesAre, Zenon
<1> HIDE DEF f, g, S
<1>3. s = x \o f
  BY <1>1, <1>2
<1>4. (x \o f) \o g = x \o (f \o g)
  <2> DEFINE Q == Seq(Bytes)
  <2>1. x \in Q /\ f \in Q /\ g \in Q
    BY <1>2 DEF S
  <2>2. \A u, v, w \in Q : (u \o v) \o w = u \o (v \o w)
    BY BytesAssociate, Zenon
  <2> HIDE DEF Q
  <2> QED BY <2>1, <2>2, Zenon
<1>5. s \o g \in Seq(S)
  BY <1>2, ConcatJoins, Zenon
<1>6. (s \o g) \o <<>> = x \o Frames(rest \o messages)
  BY <1>2, <1>3, <1>4, <1>5
<1>7. <<>> \in Seq(Bytes)
  OBVIOUS
<1> QED BY <1>6, <1>7, Zenon DEF Ahead, g

\* The peer closes, and the last bytes are lost.
LEMMA AheadShrinks ==
    ASSUME NEW s \in Seq(Bytes), NEW x \in Seq(Bytes), NEW rest \in Seq(Message),
           Ahead(s, TRUE, x, rest), NEW n \in 0 .. Len(s)
    PROVE  SubSeq(s, 1, n) \in Seq(Bytes) /\ Ahead(SubSeq(s, 1, n), FALSE, x, rest)
<1> DEFINE y == SubSeq(s, n + 1, Len(s))
<1>1. s \o <<>> = x \o Frames(rest)
  BY Zenon DEF Ahead
<1>2. s \o <<>> = s
  OBVIOUS
<1>3. SubSeq(s, 1, n) \in Seq(Bytes) /\ y \in Seq(Bytes)
  OBVIOUS
<1>4. SubSeq(s, 1, n) \o y = s
  <2>1. 1 \in 1 .. Len(s) + 1 /\ n \in 1 - 1 .. Len(s) /\ Len(s) \in n .. Len(s)
    OBVIOUS
  <2>2. SubSeq(s, 1, n) \o SubSeq(s, n + 1, Len(s)) = SubSeq(s, 1, Len(s))
    BY <2>1, ConcatAdjacentSubSeq, Zenon
  <2>3. SubSeq(s, 1, Len(s)) = s
    BY SubSeqFull
  <2> QED BY <2>2, <2>3, Zenon
<1> QED BY <1>1, <1>2, <1>3, <1>4, Zenon DEF Ahead

-----------------------------------------------------------------------------
(* Each step of the framing layer keeps it in step with the peer.          *)

\* The message at the head of the queue.
LEMMA FirstDue ==
    ASSUME WireInv, due # <<>>
    PROVE  Head(due) \in Message /\ Head(due) \in Seq(Bytes) /\ Tail(due) \in Seq(Message)
           /\ Len(Head(due)) \in Nat
<1>1. due \in Seq(Message)
  BY DEF WireInv, WireType
<1>2. Head(due) \in Message /\ Tail(due) \in Seq(Message)
  BY <1>1
<1>3. Head(due) \in Seq(Bytes)
  BY <1>2 DEF Message
<1> QED BY <1>2, <1>3

LEMMA WriteInSync ==
    ASSUME WireInv, NEW messages \in Seq(Message), Write(messages)
    PROVE  WireInv'
<1>1. /\ open /\ UNCHANGED <<open, phase, left, buf, frame>>
      /\ stream' = stream \o Frames(messages) /\ due' = due \o messages
  BY DEF Write
<1>2. stream \in Seq(Bytes) /\ due \in Seq(Message) /\ Frames(messages) \in Seq(Bytes)
  BY FramesAre DEF WireInv, WireType
<1>3. WireType'
  <2>1. stream' \in Seq(Bytes)
    BY <1>1, <1>2, ConcatJoins, Zenon
  <2>2. due' \in Seq(Message)
    BY <1>1, <1>2, ConcatJoins, Zenon
  <2> QED BY <1>1, <2>1, <2>2, Zenon DEF WireInv, WireType
<1>4. ASSUME NEW x \in Seq(Bytes), NEW rest \in Seq(Message), Ahead(stream, open, x, rest)
      PROVE  Ahead(stream', open', x, rest \o messages)
  <2>1. open = TRUE /\ open' = TRUE
    BY <1>1, Zenon DEF WireInv, WireType
  <2> QED BY <1>1, <1>2, <1>4, <2>1, AheadGrows, Zenon
<1>5. ASSUME due # <<>>
      PROVE  due' # <<>> /\ Head(due') = Head(due) /\ Tail(due') = Tail(due) \o messages
  BY <1>1, <1>2, <1>5
<1>6. InSync'
  <2>1. CASE phase = "length"
    <3>1. <<>> \in Seq(Bytes) /\ Ahead(stream, open, <<>>, due)
      BY <2>1 DEF WireInv, InSync
    <3>2. Ahead(stream', open', <<>>, due')
      BY <1>1, <1>2, <1>4, <3>1, Zenon
    <3> QED BY <1>1, <2>1, <3>2, Zenon DEF InSync
  <2>2. ASSUME NEW x \in Seq(Bytes), due # <<>>, Ahead(stream, open, x, Tail(due))
        PROVE  Ahead(stream', open', x, Tail(due'))
    BY <1>4, <1>5, <2>2, FirstDue, Zenon
  <2>3. CASE phase = "body"
    <3>1. due # <<>> /\ Ahead(stream, open, Head(due), Tail(due))
      BY <2>3 DEF WireInv, InSync
    <3>2. Ahead(stream', open', Head(due'), Tail(due'))
      BY <1>5, <2>2, <3>1, FirstDue, Zenon
    <3> QED BY <1>1, <1>5, <2>3, <3>1, <3>2, Zenon DEF WireInv, InSync
  <2>4. CASE phase = "skip"
    <3>1. PICK x \in Seq(Bytes) : Len(x) = left /\ Ahead(stream, open, x, Tail(due))
      BY <2>4, Zenon DEF WireInv, InSync
    <3>2. due # <<>>
      BY <2>4, Zenon DEF WireInv, InSync
    <3>3. Ahead(stream', open', x, Tail(due'))
      BY <2>2, <3>1, <3>2, Zenon
    <3> QED BY <1>1, <1>5, <2>4, <3>1, <3>2, <3>3, Zenon DEF WireInv, InSync
  <2>5. CASE phase = "returned"
    <3>1. <<>> \in Seq(Bytes) /\ due # <<>> /\ Ahead(stream, open, <<>>, Tail(due))
      BY <2>5 DEF WireInv, InSync
    <3>2. Ahead(stream', open', <<>>, Tail(due'))
      BY <2>2, <3>1, Zenon
    <3> QED BY <1>1, <1>5, <2>5, <3>1, <3>2, Zenon DEF WireInv, InSync
  <2> QED BY <1>1, <2>1, <2>3, <2>4, <2>5, Zenon DEF InSync
<1> QED BY <1>3, <1>6, Zenon DEF WireInv

LEMMA SkipInSync ==
    ASSUME WireInv, Skip
    PROVE  WireInv'
<1>1. /\ phase = "skip" /\ Len(stream) >= buf /\ UNCHANGED <<open, due>>
      /\ stream' = SubSeq(stream, buf + 1, Len(stream))
      /\ IF left > buf
         THEN left' = left - buf /\ buf' = SkipStep(left') /\ UNCHANGED <<phase, frame>>
         ELSE phase' = "returned" /\ left' = 0 /\ buf' = 0 /\ frame' = Null
  BY DEF Skip, Return
<1>2. /\ due # <<>> /\ Len(Head(due)) > MaxMessageSize
      /\ left \in Nat \ {0} /\ buf = SkipStep(left)
  BY <1>1, Zenon DEF WireInv, InSync
<1>3. PICK x \in Seq(Bytes) : Len(x) = left /\ Ahead(stream, open, x, Tail(due))
  BY <1>1 DEF WireInv, InSync
<1>4. stream \in Seq(Bytes) /\ open \in BOOLEAN /\ Tail(due) \in Seq(Message)
  BY <1>2, FirstDue, Zenon DEF WireInv, WireType
<1>5. buf \in 1 .. left /\ buf <= MaxMessageSize
  BY <1>2, SkipStepIs, Zenon
<1> DEFINE z == SubSeq(x, buf + 1, Len(x))
<1>6. /\ z \in Seq(Bytes) /\ Len(z) = left - buf /\ stream' \in Seq(Bytes)
      /\ Ahead(stream', open', z, Tail(due'))
  <2>1. buf \in Nat /\ buf <= Len(x) /\ buf <= Len(stream) /\ Len(stream) \in Nat
    BY <1>1, <1>3, <1>4, <1>5
  <2>2. /\ z \in Seq(Bytes) /\ Len(z) = Len(x) - buf
        /\ SubSeq(stream, buf + 1, Len(stream)) \in Seq(Bytes)
        /\ Ahead(SubSeq(stream, buf + 1, Len(stream)), open, z, Tail(due))
    <3> DEFINE rest == Tail(due)
    <3>1. rest \in Seq(Message) /\ Ahead(stream, open, x, rest)
      BY <1>3, <1>4, Zenon
    <3> HIDE DEF rest
    <3>2. /\ SubSeq(x, buf + 1, Len(x)) \in Seq(Bytes)
          /\ Len(SubSeq(x, buf + 1, Len(x))) = Len(x) - buf
          /\ SubSeq(stream, buf + 1, Len(stream)) \in Seq(Bytes)
          /\ Ahead(SubSeq(stream, buf + 1, Len(stream)), open, SubSeq(x, buf + 1, Len(x)), rest)
      BY <1>4, <2>1, <3>1, AheadDrops
    <3> QED BY <3>2 DEF rest
  <2> HIDE DEF z
  <2> QED BY <1>1, <1>3, <2>2, Zenon
<1> HIDE DEF z
<1>7. CASE left > buf
  <2>1. left' \in Nat \ {0} /\ left' = Len(z) /\ buf' = SkipStep(left') /\ phase' = "skip"
    BY <1>1, <1>2, <1>5, <1>6, <1>7
  <2>2. buf' \in 0 .. MaxMessageSize
    BY <2>1, SkipStepIs, MaxMessageSizeAssumption
  <2>3. WireType'
    BY <1>1, <1>6, <2>2 DEF WireInv, WireType
  <2> QED BY <1>1, <1>2, <1>6, <2>1, <2>3, Zenon DEF WireInv, InSync
<1>8. CASE ~(left > buf)
  <2>1. phase' = "returned" /\ buf' = 0 /\ frame' = Null /\ Len(z) = 0
    BY <1>1, <1>2, <1>5, <1>6, <1>8
  <2>2. z = <<>>
    BY <1>6, <2>1, EmptySeq, Zenon
  <2>3. WireType'
    BY <1>1, <1>6, <2>1, MaxMessageSizeAssumption DEF WireInv, WireType
  <2>4. frame' = Received(Head(due'))
    BY <1>1, <1>2, <2>1, Zenon DEF Received
  <2> QED BY <1>1, <1>2, <1>6, <2>1, <2>2, <2>3, <2>4, Zenon DEF WireInv, InSync
<1> QED BY <1>7, <1>8, Zenon

\* read_exact of four bytes succeeds only if there are four.
LEMMA PrefixArrived ==
    ASSUME NEW s \in Seq(Bytes), ReadInt(s, 0, 4).pos = 4
    PROVE  Len(s) >= 4
<1> SUFFICES ASSUME Len(s) < 4 PROVE FALSE
  OBVIOUS
<1>1. ReadExact(s, 0, 4) = Fail(Eof)
  BY DEF ReadExact
<1>2. ReadInt(s, 0, 4) = Fail(Eof)
  BY <1>1 DEF ReadInt, Then, Fail, Eof
<1> QED BY <1>2 DEF Fail, Eof

\* The length of the first message is what is read, and its bytes are next.
LEMMA PrefixRead ==
    ASSUME NEW s \in Seq(Bytes), NEW whole \in BOOLEAN, NEW ms \in Seq(Message),
           Ahead(s, whole, <<>>, ms), Len(s) >= 4
    PROVE  /\ ms # <<>>
           /\ ReadInt(s, 0, 4) = Done(Len(Head(ms)), 4)
           /\ SubSeq(s, 5, Len(s)) \in Seq(Bytes)
           /\ Ahead(SubSeq(s, 5, Len(s)), whole, Head(ms), Tail(ms))
<1>1. PICK y \in Seq(Bytes) : s \o y = <<>> \o Frames(ms) /\ (whole => y = <<>>)
  BY Zenon DEF Ahead
<1>2. Frames(ms) \in Seq(Bytes)
  BY FramesAre
<1>3. s \o y = Frames(ms)
  BY <1>1, <1>2
<1>4. Len(Frames(ms)) >= 4
  <2>1. Len(s \o y) = Len(s) + Len(y) /\ Len(s) \in Nat /\ Len(y) \in Nat
    BY ConcatJoins DEF Joins
  <2> QED BY <1>3, <2>1
<1>5. ms # <<>>
  BY <1>4, FewFrames
<1> DEFINE h == Head(ms)
           w == WriteInt(Len(h), 4)
           f == Frames(Tail(ms))
<1>6. h \in Message /\ Tail(ms) \in Seq(Message) /\ Frames(ms) = Frame(h) \o f
  BY <1>5, FirstFrame, Zenon
<1>7. w \in Seq(Bytes) /\ Len(w) = 4 /\ h \in Seq(Bytes) /\ Len(h) \in Nat /\ FitsInt(Len(h), 4)
  BY <1>6, FrameIs, Zenon
<1>8. f \in Seq(Bytes)
  BY <1>6, FramesAre, Zenon
<1>9. s \o y = w \o (h \o f)
  <2>1. Frame(h) = w \o h
    BY DEF Frame
  <2> HIDE DEF h, w, f
  <2>2. (w \o h) \o f = w \o (h \o f)
    <3> DEFINE Q == Seq(Bytes)
    <3>1. w \in Q /\ h \in Q /\ f \in Q
      BY <1>7, <1>8
    <3>2. \A u, v, r \in Q : (u \o v) \o r = u \o (v \o r)
      BY BytesAssociate, Zenon
    <3> HIDE DEF Q
    <3> QED BY <3>1, <3>2, Zenon
  <2> QED BY <1>3, <1>6, <2>1, <2>2
<1> DEFINE t == h \o f
           S == Bytes
           n == 4
<1>10. /\ t \in Seq(S) /\ s \in Seq(S) /\ y \in Seq(S) /\ w \in Seq(S)
       /\ n \in Nat /\ n <= Len(s) /\ n <= Len(w) /\ s \o y = w \o t
  <2>1. t \in Seq(S)
    BY <1>7, <1>8, ConcatJoins, Zenon
  <2> HIDE DEF t, w
  <2>2. s \in Seq(S) /\ y \in Seq(S) /\ w \in Seq(S) /\ n \in Nat /\ n <= Len(s) /\ n <= Len(w)
    BY <1>7
  <2> QED BY <1>9, <2>1, <2>2, Zenon DEF t
<1>11. FrontDropped(S, s, y, w, t, n)
  <2> HIDE DEF S, t, w, n
  <2> QED BY <1>10, DropFront, Zenon
<1>12. /\ SubSeq(s, 1, 4) = SubSeq(w, 1, 4)
       /\ SubSeq(s, 5, Len(s)) \in Seq(Bytes)
       /\ SubSeq(s, 5, Len(s)) \o y = SubSeq(w, 5, Len(w)) \o t
  <2> HIDE DEF t, w, n
  <2>1. /\ SubSeq(s, 1, n) = SubSeq(w, 1, n)
        /\ SubSeq(s, n + 1, Len(s)) \in Seq(Bytes)
        /\ SubSeq(s, n + 1, Len(s)) \o y = SubSeq(w, n + 1, Len(w)) \o t
    BY <1>11, Zenon DEF FrontDropped, S
  <2>2. n = 4 /\ n + 1 = 5
    BY DEF n
  <2> QED BY <2>1, <2>2, Zenon
<1>13. SubSeq(w, 1, 4) = w /\ SubSeq(w, 5, Len(w)) = <<>>
  <2> HIDE DEF w
  <2>1. SubSeq(w, 1, Len(w)) = w
    BY <1>7, SubSeqFull, Zenon
  <2>2. SubSeq(w, 5, 4) = <<>>
    BY SubSeqEmpty
  <2> QED BY <1>7, <2>1, <2>2, Zenon
<1>14. Ahead(SubSeq(s, 5, Len(s)), whole, h, Tail(ms))
  <2>1. SubSeq(s, 5, Len(s)) \o y = h \o f
    <3> HIDE DEF w, h, f
    <3>1. t \in Seq(Bytes)
      BY <1>10 DEF S
    <3>2. <<>> \o t = t
      BY <3>1
    <3> QED BY <1>12, <1>13, <3>2, Zenon
  <2> HIDE DEF h
  <2> QED BY <1>1, <2>1, Zenon DEF Ahead
<1>15. ReadInt(s, 0, 4) = Done(Len(h), 4)
  <2> DEFINE k == Len(h)
             size == 4
  <2>1. k \in Int /\ size \in Nat \ {0} /\ FitsInt(k, size) /\ 0 + size <= Len(s)
    BY <1>7
  <2>2. SubSeq(s, 0 + 1, 0 + size) = WriteInt(k, size)
    BY <1>12, <1>13
  <2> HIDE DEF k, size
  <2>3. ReadInt(s, 0, size) = Done(k, 0 + size)
    BY <2>1, <2>2, ReadsIntAt, Zenon
  <2> QED BY <2>3 DEF k, size
<1> QED BY <1>5, <1>12, <1>14, <1>15, Zenon

LEMMA ReadPrefixInSync ==
    ASSUME WireInv, ReadPrefix
    PROVE  WireInv'
<1> DEFINE n == Len(Head(due))
<1>1. phase = "length" /\ ReadInt(stream, 0, 4).pos = 4 /\ UNCHANGED <<open, due>>
      /\ stream' = SubSeq(stream, 5, Len(stream))
  BY DEF ReadPrefix
<1>2. stream \in Seq(Bytes) /\ open \in BOOLEAN /\ due \in Seq(Message)
      /\ Ahead(stream, open, <<>>, due)
  BY <1>1, Zenon DEF WireInv, WireType, InSync
<1>3. /\ due # <<>> /\ ReadInt(stream, 0, 4) = Done(n, 4)
      /\ SubSeq(stream, 5, Len(stream)) \in Seq(Bytes)
      /\ Ahead(SubSeq(stream, 5, Len(stream)), open, Head(due), Tail(due))
  <2>1. Len(stream) >= 4
    BY <1>1, <1>2, PrefixArrived, Zenon
  <2> QED BY <1>2, <2>1, PrefixRead, Zenon
<1>4. n \in Nat /\ Head(due) \in Seq(Bytes)
  BY <1>3, FirstDue, Zenon
<1> HIDE DEF n
<1>5. /\ stream' \in Seq(Bytes) /\ due' # <<>>
      /\ Ahead(stream', open', Head(due'), Tail(due'))
  BY <1>1, <1>3, Zenon
<1>6. /\ left' = n
      /\ IF n > MaxMessageSize THEN phase' = "skip" /\ buf' = SkipStep(n)
         ELSE phase' = "body" /\ buf' = n
  <2>1. ReadInt(stream, 0, 4).val = n
    BY <1>3 DEF Done
  <2>2. ~(n < 0)
    BY <1>4
  <2> QED BY <2>1, <2>2, Zenon DEF ReadPrefix
<1>7. CASE n > MaxMessageSize
  <2>1. n \in Nat \ {0}
    BY <1>4, <1>7, MaxMessageSizeAssumption
  <2>2. buf' \in 0 .. MaxMessageSize
    BY <1>6, <1>7, <2>1, SkipStepIs, MaxMessageSizeAssumption
  <2>3. WireType'
    BY <1>1, <1>5, <2>2 DEF WireInv, WireType
  <2>4. \E x \in Seq(Bytes) : Len(x) = left' /\ Ahead(stream', open', x, Tail(due'))
    BY <1>1, <1>4, <1>5, <1>6, Zenon DEF n
  <2> QED BY <1>1, <1>5, <1>6, <1>7, <2>1, <2>3, <2>4, Zenon DEF WireInv, InSync, n
<1>8. CASE ~(n > MaxMessageSize)
  <2>1. n <= MaxMessageSize
    BY <1>4, <1>8, MaxMessageSizeAssumption
  <2>2. buf' \in 0 .. MaxMessageSize
    BY <1>4, <1>6, <1>8, <2>1, MaxMessageSizeAssumption
  <2>3. WireType'
    BY <1>1, <1>5, <2>2 DEF WireInv, WireType
  <2> QED BY <1>1, <1>5, <1>6, <1>8, <2>1, <2>3 DEF WireInv, InSync, n
<1> QED BY <1>7, <1>8, Zenon

LEMMA ReadMessageInSync ==
    ASSUME WireInv, ReadMessage
    PROVE  WireInv'
<1> DEFINE m == Head(due)
           rest == Tail(due)
<1>1. /\ phase = "body" /\ Len(stream) >= left /\ UNCHANGED <<open, due>>
      /\ stream' = SubSeq(stream, left + 1, Len(stream))
      /\ phase' = "returned" /\ buf' = 0 /\ frame' = SubSeq(stream, 1, left)
  BY DEF ReadMessage, Return
<1>2. due # <<>> /\ left = Len(m) /\ left <= MaxMessageSize /\ Ahead(stream, open, m, rest)
  BY <1>1 DEF WireInv, InSync
<1>3. /\ stream \in Seq(Bytes) /\ open \in BOOLEAN
      /\ m \in Seq(Bytes) /\ rest \in Seq(Message) /\ Len(m) \in Nat
  BY <1>2, FirstDue, Zenon DEF WireInv, WireType
<1> HIDE DEF m, rest
<1>4. Len(m) <= Len(stream)
  BY <1>1, <1>2, <1>3
<1>5. /\ SubSeq(stream, 1, Len(m)) = m
      /\ SubSeq(stream, Len(m) + 1, Len(stream)) \in Seq(Bytes)
      /\ Ahead(SubSeq(stream, Len(m) + 1, Len(stream)), open, <<>>, rest)
  BY <1>2, <1>3, <1>4, AheadEnds, Zenon
<1>6. frame' = m /\ stream' \in Seq(Bytes) /\ Ahead(stream', open', <<>>, rest)
  BY <1>1, <1>2, <1>5
<1>7. frame' = Received(Head(due'))
  <2>1. ~(Len(m) > MaxMessageSize)
    BY <1>2, <1>3, MaxMessageSizeAssumption
  <2> QED BY <1>1, <1>6, <2>1, Zenon DEF Received, m
<1>8. WireType'
  BY <1>1, <1>6, MaxMessageSizeAssumption DEF WireInv, WireType
<1> QED BY <1>1, <1>2, <1>6, <1>7, <1>8, Zenon DEF WireInv, InSync, rest

LEMMA CloseInSync ==
    ASSUME WireInv, Close
    PROVE  WireInv'
<1>1. PICK n \in 0 .. Len(stream) : stream' = SubSeq(stream, 1, n)
  BY DEF Close
<1>2. open = TRUE /\ open' = FALSE /\ UNCHANGED <<phase, left, buf, frame, due>>
  BY DEF Close, WireInv, WireType
<1>3. stream \in Seq(Bytes) /\ stream' \in Seq(Bytes)
  BY <1>1 DEF WireInv, WireType
<1>4. WireType'
  BY <1>2, <1>3, Zenon DEF WireInv, WireType
<1>5. ASSUME NEW x \in Seq(Bytes), NEW rest \in Seq(Message), Ahead(stream, open, x, rest)
      PROVE  Ahead(stream', open', x, rest)
  BY <1>1, <1>2, <1>3, <1>5, AheadShrinks, Zenon
<1>6. <<>> \in Seq(Bytes) /\ due \in Seq(Message)
  BY DEF WireInv, WireType
<1>7. CASE phase = "length"
  BY <1>2, <1>4, <1>5, <1>6, <1>7, Zenon DEF WireInv, InSync
<1>8. CASE phase = "body"
  <2>1. due # <<>>
    BY <1>8 DEF WireInv, InSync
  <2>2. Ahead(stream', open', Head(due), Tail(due))
    BY <1>5, <1>8, <2>1, FirstDue, Zenon DEF WireInv, InSync
  <2> QED BY <1>2, <1>4, <1>8, <2>1, <2>2, Zenon DEF WireInv, InSync
<1>9. CASE phase = "skip"
  <2>1. due # <<>>
    BY <1>9, Zenon DEF WireInv, InSync
  <2>2. PICK x \in Seq(Bytes) : Len(x) = left /\ Ahead(stream, open, x, Tail(due))
    BY <1>9 DEF WireInv, InSync
  <2>3. Ahead(stream', open', x, Tail(due))
    BY <1>5, <2>1, <2>2, FirstDue, Zenon
  <2> QED BY <1>2, <1>4, <1>9, <2>1, <2>2, <2>3, Zenon DEF WireInv, InSync
<1>10. CASE phase = "returned"
  <2>1. due # <<>>
    BY <1>10 DEF WireInv, InSync
  <2>2. Ahead(stream', open', <<>>, Tail(due))
    BY <1>5, <1>6, <1>10, <2>1, FirstDue, Zenon DEF WireInv, InSync
  <2> QED BY <1>2, <1>4, <1>10, <2>1, <2>2, Zenon DEF WireInv, InSync
<1>11. CASE phase \notin {"length", "body", "skip", "returned"}
  BY <1>2, <1>4, <1>11 DEF WireInv, InSync
<1> QED BY <1>7, <1>8, <1>9, <1>10, <1>11

LEMMA WireStep ==
    ASSUME WireInv, [WireNext]_wire_vars
    PROVE  WireInv'
<1>1. ASSUME NEW messages \in Seq(Seq(0 .. Byte - 1)),
             \A i \in DOMAIN messages : Writable(messages[i]), Write(messages)
      PROVE  WireInv'
  <2>1. messages \in Seq(Message)
    <3>1. messages \in [1 .. Len(messages) -> Seq(Bytes)] /\ Len(messages) \in Nat
      BY <1>1 DEF Bytes
    <3>2. \A i \in 1 .. Len(messages) : messages[i] \in Message
      BY <1>1, <3>1, Zenon DEF Message
    <3>3. messages \in [1 .. Len(messages) -> Message]
      BY <3>1, <3>2, Zenon
    <3> DEFINE k == Len(messages)
               M == Message
    <3>4. k \in Nat /\ messages \in [1 .. k -> M]
      BY <3>1, <3>3, Zenon
    <3> HIDE DEF k, M
    <3>5. messages \in Seq(M)
      BY <3>4
    <3> QED BY <3>5 DEF M
  <2> QED BY <1>1, <2>1, WriteInSync, Zenon
<1>2. CASE ReadFails
  <2>1. phase' = "dead" /\ buf' = 0 /\ UNCHANGED <<open, stream, due>>
    BY <1>2, Zenon DEF ReadFails
  <2> QED BY <2>1, MaxMessageSizeAssumption DEF WireInv, WireType, InSync
<1>3. ASSUME NEW next \in {"length", "dead"}, Take(next)
      PROVE  WireInv'
  <2>1. /\ phase = "returned" /\ phase' = next /\ due' = Tail(due)
        /\ UNCHANGED <<open, stream, left, buf>>
    BY <1>3, Zenon DEF Take
  <2>2. due # <<>> /\ Ahead(stream, open, <<>>, Tail(due))
    BY <2>1, Zenon DEF WireInv, InSync
  <2>3. WireType'
    BY <2>1, <2>2, FirstDue, Zenon DEF WireInv, WireType
  <2> QED BY <2>1, <2>2, <2>3, Zenon DEF WireInv, InSync
<1>4. CASE UNCHANGED wire_vars
  BY <1>4 DEF wire_vars, WireInv, WireType, InSync
<1> QED
  BY <1>1, <1>2, <1>3, <1>4, ReadPrefixInSync, SkipInSync, ReadMessageInSync, CloseInSync, Zenon
  DEF WireNext

\* The invariant of the framing layer is inductive: the stream is what is left of the
\* message that read_message is in, followed by the frames of those behind it.
THEOREM WireInvariance == WireSpec => []WireInv
BY InitWire, WireStep, PTL DEF WireSpec

\* read_message returns the messages that the peer wrote, byte for byte and in their
\* order, whatever portions they arrive in and wherever the peer closes; one that is too
\* large is skipped to its last byte, so that the next one is found.
THEOREM ReaderStaysInSync == WireSpec => []StaysInSync
<1>1. WireInv => StaysInSync
  <2> SUFFICES ASSUME WireInv, phase = "returned"
               PROVE  /\ due # <<>> /\ frame = Received(Head(due))
                      /\ open => stream = Frames(Tail(due))
    BY DEF StaysInSync
  <2>1. due # <<>> /\ frame = Received(Head(due)) /\ Ahead(stream, open, <<>>, Tail(due))
    BY DEF WireInv, InSync
  <2>2. ASSUME open PROVE stream = Frames(Tail(due))
    <3>1. stream \o <<>> = <<>> \o Frames(Tail(due))
      BY <2>1, <2>2, Zenon DEF Ahead
    <3>2. stream \in Seq(Bytes) /\ Frames(Tail(due)) \in Seq(Bytes)
      BY <2>1, FirstDue, FramesAre, Zenon DEF WireInv, WireType
    <3> QED BY <3>1, <3>2
  <2> QED BY <2>1, <2>2, Zenon
<1> QED BY <1>1, WireInvariance, PTL

\* read_message allocates at most max_message_size bytes at a time, for a message it
\* reads and for one it skips ("check max message size to not blow up memory").
THEOREM BufferIsBounded == WireSpec => [](buf <= MaxMessageSize)
<1>1. WireInv => buf <= MaxMessageSize
  BY MaxMessageSizeAssumption DEF WireInv, WireType
<1> QED BY <1>1, WireInvariance, PTL
=============================================================================
