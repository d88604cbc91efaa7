----------------------------- MODULE BackoffLoop -----------------------------
(***************************************************************************)
(* The loop of backoff.delay, internal/runner/backoff.go, step by step on  *)
(* machine integers: durations are signed, of a fixed width, and doubling  *)
(* one may wrap.                                                           *)
(***************************************************************************)
EXTENDS Backoff

CONSTANTS
    MaxInt,       \* largest time.Duration
    FixedMax,     \* maxBackoff
    FailureBound  \* bound: delays after up to this many failures

ASSUME LoopAssumption ==
    /\ MaxInt \in Nat \ {0}
    /\ FixedMax \in 1..MaxInt
    /\ FailureBound \in Nat \ {0}

VARIABLES pc, base, limit, failures, i, ceil, delay
vars == <<pc, base, limit, failures, i, ceil, delay>>

\* The sum of a machine integer in range with itself wraps at most once.
Twice(x) == IF 2 * x > MaxInt THEN 2 * x - 2 * (MaxInt + 1) ELSE 2 * x

\* newBackoff for any interval, and a call of delay after any failure count.
Init ==
    /\ pc = "loop"
    /\ base \in 1..MaxInt
    /\ limit = DelayLimit(base, FixedMax)
    /\ failures \in 1..FailureBound
    /\ i = 1
    /\ ceil = base
    /\ delay = 0

LoopingOnceMore ==                      \* variant: one round too many
    pc = "loop" /\ i <= failures /\ ceil < limit
Looping == pc = "loop" /\ i < failures /\ ceil < limit

\* variant: without the check that doubling does not overshoot.
DoubleAlways ==
    /\ Looping
    /\ ceil' = Twice(ceil)
    /\ i' = i + 1
    /\ UNCHANGED <<pc, base, limit, failures, delay>>

Double ==
    /\ Looping /\ ceil <= limit \div 2
    /\ ceil' = Twice(ceil)
    /\ i' = i + 1
    /\ UNCHANGED <<pc, base, limit, failures, delay>>

\* Doubling would overshoot the limit: break.
Jump ==
    /\ Looping /\ ceil > limit \div 2
    /\ ceil' = limit
    /\ pc' = "min"
    /\ UNCHANGED <<base, limit, failures, i, delay>>

Leave ==
    /\ pc = "loop" /\ ~Looping
    /\ pc' = "min"
    /\ UNCHANGED <<base, limit, failures, i, ceil, delay>>

Cap ==
    /\ pc = "min"
    /\ ceil' = Smaller(ceil, limit)
    /\ pc' = "draw"
    /\ UNCHANGED <<base, limit, failures, i, delay>>

\* variant: a share of the whole ceiling on top of its half.
DrawFromAll ==
    /\ pc = "draw"
    /\ \E share \in 0..ceil : delay' = ceil \div 2 + share
    /\ pc' = "returned"
    /\ UNCHANGED <<base, limit, failures, i, ceil>>

\* Half of the ceiling, and rnd(n) of the rest: a value in [0, n).
Draw ==
    /\ pc = "draw"
    /\ \E share \in 0..(ceil - ceil \div 2) : delay' = ceil \div 2 + share
    /\ pc' = "returned"
    /\ UNCHANGED <<base, limit, failures, i, ceil>>

Returned == pc = "returned" /\ UNCHANGED vars

Next == Double \/ Jump \/ Leave \/ Cap \/ Draw \/ Returned

Spec == Init /\ [][Next]_vars

-----------------------------------------------------------------------------

\* Every duration of the computation is one the machine can hold.
TypeOK ==
    /\ pc \in {"loop", "min", "draw", "returned"}
    /\ base \in 1..MaxInt
    /\ limit \in 1..MaxInt
    /\ failures \in Nat \ {0}
    /\ i \in Nat \ {0}
    /\ ceil \in 1..MaxInt
    /\ delay \in 0..MaxInt

\* No doubling wraps or overshoots: the ceiling stays between the interval and
\* the limit, in every step of the loop and for every interval that fits.
CeilingInRange == base <= ceil /\ ceil <= limit

\* backoff.delay computes what the model of an instance uses: the loop leaves
\* the ceiling of the closed form, and every delay is one of Delays, never more
\* than the limit. behaviour.md: the first delay is at most the interval and
\* at least half of it.
DelayIsClosedForm ==
    /\ pc = "draw" => ceil = Ceiling(base, limit, failures)
    /\ pc = "returned" =>
          /\ delay \in Delays(base, limit, failures)
          /\ failures = 1 => delay <= base /\ base <= 2 * delay + 1

=============================================================================
