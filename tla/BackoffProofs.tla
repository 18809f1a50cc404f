---------------------------- MODULE BackoffProofs ----------------------------
(***************************************************************************)
(* Proofs about Backoff for every set of configurations, sound or not.     *)
(***************************************************************************)
EXTENDS Backoff, TLAPS

Running == pc \in {"try", "sleep", "done"}

\* total runs ahead of slept by the pause that is chosen but not yet taken, less
\* the first one, which was never charged.  Giving up breaks this equation, and
\* what is left of it then is GivesUpLate.
Ledger ==
    /\ Running => slept = init_backoff + total - next_backoff
    /\ Running /\ deadline # NoDeadline => errors = 0 \/ total < deadline
    /\ Running => errors * Shortest <= total
    /\ errors = 0 => total = 0 /\ next_backoff = init_backoff
    /\ Running /\ errors > 0 => next_backoff < pause * base

\* A loop with an unsound configuration has seen one error at most, and then its
\* next pause is max_backoff, from which it cannot grow.
Stuck ==
    /\ pc = "panicked" => Unsound
    /\ pc # "panicked" /\ Unsound =>
          \/ errors = 0
          \/ errors = 1 /\ next_backoff = max_backoff /\ max_backoff * base <= init_backoff

IInv == TypeOK /\ Ledger /\ Stuck /\ SleepsWithinDeadline /\ GivesUpLate

-----------------------------------------------------------------------------
(* Arithmetic                                                              *)

\* The larger of two numbers has the larger multiple.
LEMMA Monotone ==
    ASSUME NEW a \in Nat, NEW b \in Nat, NEW k \in Nat, a <= b
    PROVE  a * k \in Nat /\ b * k \in Nat /\ a * k <= b * k
<1>1. PICK d \in Nat : b = a + d
  <2>1. b - a \in Nat /\ b = a + (b - a)
    OBVIOUS
  <2> QED BY <2>1
<1>2. b * k = a * k + d * k
  BY <1>1, SMT
<1>3. a * k \in Nat /\ d * k \in Nat
  BY SMT
<1> QED BY <1>2, <1>3

\* The fields of a configuration and the bounds of its pauses.
LEMMA ConfigLemma ==
    ASSUME config \in Configs
    PROVE  /\ init_backoff \in Nat /\ max_backoff \in Nat /\ base \in Nat
           /\ deadline \in Nat \cup {NoDeadline}
           /\ Shortest \in Nat /\ Longest \in Nat
           /\ Shortest <= init_backoff /\ init_backoff <= Longest
           /\ Shortest <= max_backoff /\ max_backoff <= Longest
           /\ Shortest \in {init_backoff, max_backoff}
<1>1. config \in BackoffConfig
  BY BackoffAssumption
<1>2. /\ init_backoff \in Nat /\ max_backoff \in Nat /\ base \in Nat
      /\ deadline \in Nat \cup {NoDeadline}
  BY <1>1 DEF BackoffConfig, init_backoff, max_backoff, base, deadline
<1> QED BY <1>2 DEF Shortest, Longest

\* What next() makes of a jitter: a pause within the bounds, below base times the
\* pause before.
LEMMA CapLemma ==
    ASSUME config \in Configs, next_backoff \in Shortest .. Longest, NEW r \in Jitter
    PROVE  /\ next_backoff * base \in Nat
           /\ Cap(r) \in Shortest .. max_backoff
           /\ Cap(r) < next_backoff * base
<1>1. /\ init_backoff \in Nat /\ max_backoff \in Nat /\ base \in Nat
      /\ Shortest \in Nat /\ Longest \in Nat
      /\ Shortest <= init_backoff /\ Shortest <= max_backoff
  BY ConfigLemma
<1>2. next_backoff * base \in Nat
  BY <1>1, Monotone
<1>3. r \in Nat /\ init_backoff <= r /\ r < next_backoff * base
  BY <1>1, <1>2 DEF Jitter
<1> QED BY <1>1, <1>2, <1>3 DEF Cap

\* With a sound configuration every pause within the bounds leaves room to grow.
LEMMA SoundLemma ==
    ASSUME config \in Configs, next_backoff \in Shortest .. Longest, ~Unsound
    PROVE  Jitter # {}
<1>1. /\ init_backoff \in Nat /\ max_backoff \in Nat /\ base \in Nat
      /\ Shortest \in Nat /\ Longest \in Nat /\ Shortest \in {init_backoff, max_backoff}
  BY ConfigLemma
<1>2. next_backoff \in Nat /\ Shortest <= next_backoff
  BY <1>1
<1>3. /\ Shortest * base \in Nat /\ next_backoff * base \in Nat
      /\ Shortest * base <= next_backoff * base
  BY <1>1, <1>2, Monotone
<1>4. init_backoff * base \in Nat /\ max_backoff * base \in Nat
  BY <1>1, Monotone
<1>5. init_backoff < init_backoff * base /\ init_backoff < max_backoff * base
  BY <1>1, <1>4 DEF Unsound
<1>6. init_backoff < Shortest * base
  BY <1>1, <1>5
<1>7. init_backoff \in Jitter
  BY <1>1, <1>3, <1>6 DEF Jitter
<1> QED BY <1>7

\* With an unsound one, either the first range is empty, or every jitter of it is
\* cut to max_backoff.
LEMMA UnsoundLemma ==
    ASSUME config \in Configs, Unsound, next_backoff = init_backoff, NEW r \in Jitter
    PROVE  Cap(r) = max_backoff /\ max_backoff * base <= init_backoff
<1>1. init_backoff \in Nat /\ max_backoff \in Nat /\ base \in Nat
  BY ConfigLemma
<1>2. init_backoff * base \in Nat /\ max_backoff * base \in Nat
  BY <1>1, Monotone
<1>3. r \in Nat /\ init_backoff <= r /\ init_backoff < init_backoff * base
  BY <1>1, <1>2 DEF Jitter
<1>4. max_backoff * base <= init_backoff
  BY <1>1, <1>2, <1>3 DEF Unsound
<1>5. max_backoff < init_backoff
  <2> SUFFICES ASSUME init_backoff <= max_backoff PROVE FALSE
    BY <1>1
  <2>1. init_backoff * base <= max_backoff * base
    BY <1>1, Monotone
  <2> QED BY <1>1, <1>2, <1>3, <1>4, <2>1
<1> QED BY <1>1, <1>3, <1>4, <1>5 DEF Cap

-----------------------------------------------------------------------------
(* The inductive invariant                                                 *)

\* The configuration's operators do not change with a step that keeps it.
LEMMA SameConfig ==
    ASSUME config' = config
    PROVE  /\ init_backoff' = init_backoff /\ max_backoff' = max_backoff
           /\ base' = base /\ deadline' = deadline
           /\ Shortest' = Shortest /\ Longest' = Longest
           /\ Unsound' = Unsound
BY DEF init_backoff, max_backoff, base, deadline, Shortest, Longest, Unsound

\* One call of next() that returns preserves the invariant.
LEMMA NextOfLemma ==
    ASSUME IInv, pc = "try", errors < MaxErrors, errors' = errors + 1,
           NEW r \in Jitter, NextOf(r), UNCHANGED <<config, throttles>>
    PROVE  IInv'
<1> DEFINE n == next_backoff
<1>1. /\ init_backoff \in Nat /\ max_backoff \in Nat /\ base \in Nat
      /\ deadline \in Nat \cup {NoDeadline}
      /\ Shortest \in Nat /\ Longest \in Nat
      /\ Shortest <= init_backoff /\ Shortest <= max_backoff /\ max_backoff <= Longest
  BY ConfigLemma DEF IInv, TypeOK
<1>2. /\ n \in Shortest .. Longest /\ n \in Nat
      /\ total \in Nat /\ slept \in Nat /\ pause \in Nat /\ errors \in Nat
      /\ errors + 1 \in 0 .. MaxErrors
      /\ slept = init_backoff + total - n
      /\ errors * Shortest <= total
  BY <1>1, BackoffAssumption DEF IInv, TypeOK, Ledger, Running
<1>3. Cap(r) \in Shortest .. max_backoff /\ Cap(r) < n * base /\ n * base \in Nat
  BY <1>2, CapLemma DEF IInv, TypeOK
<1>4. total' = total + Cap(r) /\ next_backoff' = Cap(r)
  BY DEF NextOf
<1>5. \/ /\ pc' = "exceeded" /\ pause' = pause /\ slept' = slept
         /\ deadline # NoDeadline /\ total + Cap(r) >= deadline
      \/ /\ pc' = "sleep" /\ pause' = n /\ slept' = slept + n
         /\ deadline # NoDeadline => total + Cap(r) < deadline
  BY <1>1, <1>2, <1>3, SameConfig DEF NextOf, Answer, Exhausted, NoDeadline
<1>6. /\ init_backoff' = init_backoff /\ max_backoff' = max_backoff
      /\ base' = base /\ deadline' = deadline
      /\ Shortest' = Shortest /\ Longest' = Longest /\ Unsound' = Unsound
  BY SameConfig
<1>7. TypeOK'
  BY <1>1, <1>2, <1>3, <1>4, <1>5, <1>6 DEF TypeOK, IInv
<1>8. (errors + 1) * Shortest = errors * Shortest + Shortest
  BY <1>1, <1>2, SMT
<1>9. errors * Shortest \in Nat
  BY <1>1, <1>2, Monotone
<1>10. Ledger'
  <2>1. errors' * Shortest' <= total'
    BY <1>1, <1>2, <1>3, <1>4, <1>6, <1>8, <1>9
  <2>2. (Running => slept = init_backoff + total - next_backoff)'
    BY <1>1, <1>2, <1>3, <1>4, <1>5, <1>6 DEF Running
  <2>3. (Running /\ deadline # NoDeadline => errors = 0 \/ total < deadline)'
    BY <1>4, <1>5, <1>6 DEF Running
  <2>4. (Running /\ errors > 0 => next_backoff < pause * base)'
    BY <1>3, <1>4, <1>5, <1>6 DEF Running
  <2> QED BY <1>2, <2>1, <2>2, <2>3, <2>4 DEF Ledger
<1>11. Stuck'
  <2>1. ASSUME Unsound
        PROVE  errors = 0 /\ Cap(r) = max_backoff /\ max_backoff * base <= init_backoff
    <3>1. ~(n = max_backoff /\ max_backoff * base <= init_backoff)
      <4> SUFFICES ASSUME n = max_backoff, max_backoff * base <= init_backoff PROVE FALSE
        OBVIOUS
      <4> QED BY <1>1, <1>3 DEF Jitter
    <3>2. errors = 0 /\ n = init_backoff
      BY <2>1, <3>1 DEF IInv, Stuck, Ledger
    <3> QED BY <2>1, <3>2, UnsoundLemma DEF IInv, TypeOK
  <2> QED BY <1>2, <1>4, <1>5, <1>6, <2>1 DEF Stuck
<1>12. SleepsWithinDeadline'
  BY <1>1, <1>2, <1>3, <1>5, <1>6 DEF IInv, SleepsWithinDeadline, NoDeadline
<1>13. GivesUpLate'
  BY <1>1, <1>2, <1>3, <1>5, <1>6 DEF GivesUpLate, NoDeadline
<1> QED BY <1>7, <1>10, <1>11, <1>12, <1>13 DEF IInv

\* An error at which next() panics.
LEMMA PanicLemma ==
    ASSUME IInv, pc = "try", errors < MaxErrors, errors' = errors + 1, Jitter = {},
           pc' = "panicked",
           UNCHANGED <<config, next_backoff, total, pause, slept, throttles>>
    PROVE  IInv'
<1>1. /\ init_backoff' = init_backoff /\ max_backoff' = max_backoff
      /\ base' = base /\ deadline' = deadline
      /\ Shortest' = Shortest /\ Longest' = Longest /\ Unsound' = Unsound
  BY SameConfig
<1>2. Unsound
  BY SoundLemma DEF IInv, TypeOK
<1>3. errors \in Nat /\ errors' \in 0 .. MaxErrors
  BY BackoffAssumption DEF IInv, TypeOK
<1>4. TypeOK'
  BY <1>1, <1>3 DEF IInv, TypeOK
<1>5. Ledger' /\ Stuck'
  BY <1>1, <1>2, <1>3 DEF Ledger, Stuck, Running
<1> QED
  BY <1>1, <1>4, <1>5 DEF IInv, SleepsWithinDeadline, GivesUpLate

\* The other steps move neither the pauses nor the totals of a loop.
LEMMA QuietLemma ==
    ASSUME IInv, pc' \in {"try", "sleep", "done"}, Running,
           throttles' \in 0 .. MaxThrottles,
           UNCHANGED <<config, next_backoff, total, pause, slept, errors>>
    PROVE  IInv'
<1>1. /\ init_backoff' = init_backoff /\ max_backoff' = max_backoff
      /\ base' = base /\ deadline' = deadline
      /\ Shortest' = Shortest /\ Longest' = Longest /\ Unsound' = Unsound
  BY SameConfig
<1>2. TypeOK'
  BY <1>1 DEF IInv, TypeOK
<1>3. Ledger'
  BY <1>1 DEF IInv, Ledger, Running
<1>4. Stuck'
  BY <1>1 DEF IInv, Stuck, Running
<1> QED BY <1>1, <1>2, <1>3, <1>4 DEF IInv, SleepsWithinDeadline, GivesUpLate

\* The invariant is inductive.
THEOREM Invariance == Spec => []IInv
<1>1. Init => IInv
  <2> SUFFICES ASSUME Init PROVE IInv
    OBVIOUS
  <2>1. /\ init_backoff \in Nat /\ Shortest \in Nat /\ Longest \in Nat
        /\ Shortest <= init_backoff /\ init_backoff <= Longest
    BY ConfigLemma DEF Init
  <2>2. TypeOK
    BY <2>1, BackoffAssumption DEF Init, TypeOK
  <2>3. 0 * Shortest = 0
    BY <2>1, SMT
  <2>4. Ledger
    BY <2>1, <2>3 DEF Init, Ledger
  <2> QED
    BY <2>2, <2>4 DEF Init, IInv, Stuck, SleepsWithinDeadline, GivesUpLate
<1>2. IInv /\ [Next]_vars => IInv'
  <2> SUFFICES ASSUME IInv, [Next]_vars PROVE IInv'
    OBVIOUS
  <2>1. CASE Fail
    <3>1. CASE Jitter = {}
      BY <2>1, <3>1, PanicLemma DEF Fail
    <3>2. CASE Jitter # {}
      <4>1. PICK r \in Jitter : NextOf(r)
        BY <2>1, <3>2 DEF Fail
      <4> QED BY <2>1, <4>1, NextOfLemma DEF Fail
    <3> QED BY <3>1, <3>2
  <2>2. CASE Throttle
    <3>1. throttles' \in 0 .. MaxThrottles
      BY <2>2, BackoffAssumption DEF Throttle, IInv, TypeOK
    <3> QED BY <2>2, <3>1, QuietLemma DEF Throttle, Running
  <2>3. CASE Finish
    BY <2>3, QuietLemma DEF Finish, Running, IInv, TypeOK
  <2>4. CASE Wake
    BY <2>4, QuietLemma DEF Wake, Running, IInv, TypeOK
  <2>5. CASE UNCHANGED vars
    <3>1. /\ init_backoff' = init_backoff /\ max_backoff' = max_backoff
          /\ base' = base /\ deadline' = deadline
          /\ Shortest' = Shortest /\ Longest' = Longest /\ Unsound' = Unsound
      BY <2>5, SameConfig DEF vars
    <3> QED
      BY <2>5, <3>1
      DEF vars, IInv, TypeOK, Ledger, Stuck, Running, SleepsWithinDeadline, GivesUpLate
  <2> QED BY <2>1, <2>2, <2>3, <2>4, <2>5 DEF Next, Ended
<1> QED BY <1>1, <1>2, PTL DEF Spec

-----------------------------------------------------------------------------
(* Theorems                                                                *)

\* Whatever the configuration, next() panics exactly if it is unsound: never
\* otherwise, and then by the second error.
THEOREM PanicsAreExact == Spec => []PanicsIffUnsound
<1>1. IInv => PanicsIffUnsound
  BY DEF IInv, Stuck, PanicsIffUnsound
<1> QED BY <1>1, Invariance, PTL

\* The backoffs stay below the deadline.
THEOREM DeadlineKept == Spec => []SleepsWithinDeadline
<1>1. IInv => SleepsWithinDeadline
  BY DEF IInv
<1> QED BY <1>1, Invariance, PTL

\* The deadline is not given up on early.
THEOREM DeadlineUsed == Spec => []GivesUpLate
<1>1. IInv => GivesUpLate
  BY DEF IInv
<1> QED BY <1>1, Invariance, PTL

\* With a deadline the number of retries is bounded.
THEOREM RetriesBounded == Spec => []GivesUp
<1>1. IInv => GivesUp
  <2> SUFFICES ASSUME IInv, deadline # NoDeadline, errors > 0,
                      pc \in {"try", "sleep", "done"}
               PROVE  errors * Shortest < deadline
    BY DEF GivesUp
  <2>1. errors * Shortest <= total /\ total < deadline
    BY DEF IInv, Ledger, Running
  <2>2. errors * Shortest \in Nat /\ total \in Nat /\ deadline \in Nat
    BY ConfigLemma, Monotone, BackoffAssumption DEF IInv, TypeOK
  <2> QED BY <2>1, <2>2
<1> QED BY <1>1, Invariance, PTL

\* Every pause is within the configured bounds and less than base times the
\* pause before it.
THEOREM PausesGrow == Spec => PausesGrowWithinBounds
<1>1. IInv /\ [Next]_vars =>
        [errors' # errors /\ pc' = "sleep" =>
            /\ pause' \in Shortest .. Longest
            /\ IF errors = 0 THEN pause' = init_backoff ELSE pause' < pause * base]_vars
  <2> SUFFICES ASSUME IInv, [Next]_vars, errors' # errors, pc' = "sleep"
               PROVE  /\ pause' \in Shortest .. Longest
                      /\ IF errors = 0 THEN pause' = init_backoff
                                       ELSE pause' < pause * base
    OBVIOUS
  <2>1. Fail
    BY DEF Next, Throttle, Finish, Wake, Ended, vars
  <2>2. pc = "try" /\ pause' = next_backoff
    BY <2>1 DEF Fail, NextOf, Answer
  <2>3. errors # 0 => errors > 0
    BY BackoffAssumption DEF IInv, TypeOK
  <2> QED BY <2>2, <2>3 DEF IInv, TypeOK, Ledger, Running
<1> QED BY <1>1, Invariance, PTL DEF Spec, PausesGrowWithinBounds
=============================================================================
