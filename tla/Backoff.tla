------------------------------- MODULE Backoff -------------------------------
(***************************************************************************)
(* retry_with_backoff (src/backoff.rs): an operation is repeated with      *)
(* growing, jittered pauses until it succeeds or fails for good, or until  *)
(* the configured deadline is used up.  A pause a broker asks for          *)
(* (src/throttle.rs) is taken as asked and charged to nothing.             *)
(*                                                                         *)
(* The code's seconds are f64; here they are whole units of time, and the  *)
(* jitter ranges over the whole units of the same half-open interval.      *)
(***************************************************************************)
EXTENDS Integers

CONSTANTS
    Configs,        \* the BackoffConfigs a loop may be given
    MaxErrors,      \* how often the operation fails (bound)
    MaxThrottles    \* how often the broker asks for a pause (bound)

NoDeadline == -1

\* BackoffConfig has public fields and is not validated: every value is a legal one.
BackoffConfig ==
    [init_backoff : Nat, max_backoff : Nat, base : Nat, deadline : Nat \cup {NoDeadline}]

ASSUME BackoffAssumption ==
    Configs \subseteq BackoffConfig /\ MaxErrors \in Nat /\ MaxThrottles \in Nat

VARIABLES
    config,
    pc,             \* "try", "sleep", or how the loop ended
    next_backoff,   \* next_backoff_secs
    total,
    pause,          \* the last backoff returned by next(), 0 before
    slept,          \* all backoffs returned by next()
    errors,         \* calls of next()
    throttles

vars == <<config, pc, next_backoff, total, pause, slept, errors, throttles>>

init_backoff == config.init_backoff
max_backoff == config.max_backoff
base == config.base
deadline == config.deadline

\* The bounds of a pause; max_backoff need not be the larger one.
Shortest == IF init_backoff < max_backoff THEN init_backoff ELSE max_backoff
Longest == IF init_backoff < max_backoff THEN max_backoff ELSE init_backoff

TypeOK ==
    /\ config \in Configs
    /\ pc \in {"try", "sleep", "done", "exceeded", "panicked"}
    /\ next_backoff \in Shortest .. Longest
    /\ total \in Nat /\ pause \in Nat /\ slept \in Nat
    /\ errors \in 0 .. MaxErrors /\ throttles \in 0 .. MaxThrottles

Init ==
    /\ config \in Configs
    /\ pc = "try"
    /\ next_backoff = init_backoff
    /\ total = 0
    /\ pause = 0
    /\ slept = 0
    /\ errors = 0
    /\ throttles = 0

-----------------------------------------------------------------------------

\* Variant: the jitter reaches from the grown pause to the longest one.
JitterToMax == next_backoff * base .. max_backoff

\* The range the jitter is drawn from: init_backoff .. next_backoff_secs * base.
Jitter == init_backoff .. next_backoff * base - 1

\* max_backoff_secs.min(rand_backoff)
Cap(r) == IF r < max_backoff THEN r ELSE max_backoff

\* Variant: off by one.
Exhausted1(t) == deadline # NoDeadline /\ t > deadline

\* total >= deadline
Exhausted(t) == deadline # NoDeadline /\ t >= deadline

\* Variant: after the deadline the operation is retried without pauses.
AnswerNoPause ==
    IF Exhausted(total')
    THEN pc' = "try" /\ UNCHANGED <<pause, slept>>
    ELSE pc' = "sleep" /\ pause' = next_backoff /\ slept' = slept + next_backoff

\* What next() returns: the pause chosen before, or None, which ends the loop.
Answer ==
    IF Exhausted(total')
    THEN pc' = "exceeded" /\ UNCHANGED <<pause, slept>>
    ELSE pc' = "sleep" /\ pause' = next_backoff /\ slept' = slept + next_backoff

\* Variant: the uncapped jitter is added to the total.
NextOfRaw(r) ==
    /\ total' = total + r
    /\ next_backoff' = Cap(r)
    /\ Answer

\* Backoff::next with jitter r: the new pause is charged to the deadline already.
NextOf(r) ==
    /\ total' = total + Cap(r)
    /\ next_backoff' = Cap(r)
    /\ Answer

\* The operation fails with an error that is retried.  gen_range panics on an
\* empty range.
Fail ==
    /\ pc = "try" /\ errors < MaxErrors
    /\ errors' = errors + 1
    /\ IF Jitter = {}
       THEN pc' = "panicked" /\ UNCHANGED <<next_backoff, total, pause, slept>>
       ELSE \E r \in Jitter : NextOf(r)
    /\ UNCHANGED <<config, throttles>>

\* The broker asks for a pause.
Throttle ==
    /\ pc = "try" /\ throttles < MaxThrottles
    /\ throttles' = throttles + 1
    /\ pc' = "sleep"
    /\ UNCHANGED <<config, next_backoff, total, pause, slept, errors>>

\* The operation breaks the loop with its result.
Finish ==
    /\ pc = "try"
    /\ pc' = "done"
    /\ UNCHANGED <<config, next_backoff, total, pause, slept, errors, throttles>>

Wake ==
    /\ pc = "sleep"
    /\ pc' = "try"
    /\ UNCHANGED <<config, next_backoff, total, pause, slept, errors, throttles>>

Ended == pc \in {"done", "exceeded", "panicked"} /\ UNCHANGED vars

Next == Fail \/ Throttle \/ Finish \/ Wake \/ Ended

Spec == Init /\ [][Next]_vars

-----------------------------------------------------------------------------
(* Properties                                                              *)

\* A configuration whose pauses do not grow, at init_backoff or at max_backoff.
Unsound == init_backoff * base <= init_backoff \/ max_backoff * base <= init_backoff

\* next() draws from an empty range only if the configuration is unsound, however
\* the pauses were cut off; and then it does at the second error at the latest.
PanicsIffUnsound ==
    /\ pc = "panicked" => Unsound
    /\ Unsound /\ errors >= 2 => pc = "panicked"

\* Every pause lies between init_backoff and max_backoff, and is less than base
\* times the pause before it (the first is init_backoff).
PausesGrowWithinBounds ==
    [][errors' # errors /\ pc' = "sleep" =>
          /\ pause' \in Shortest .. Longest
          /\ IF errors = 0 THEN pause' = init_backoff ELSE pause' < pause * base]_vars

\* The backoffs together stay below the deadline, although next() charges the
\* deadline with the pause after the one it returns.  A first pause longer than
\* max_backoff is charged max_backoff only.
SleepsWithinDeadline ==
    deadline # NoDeadline => slept = 0 \/ slept < deadline + (init_backoff - Shortest)

\* The loop does not give up early: when the deadline is exceeded, at most two
\* longest pauses of it were left.
GivesUpLate ==
    pc = "exceeded" => slept + Longest + max_backoff >= deadline + init_backoff

\* An operation that keeps failing is given up: as long as it is retried, the
\* number of failures is below the deadline divided by the shortest pause.
GivesUp ==
    deadline # NoDeadline /\ errors > 0 /\ pc \in {"try", "sleep", "done"} =>
        errors * Shortest < deadline
=============================================================================
