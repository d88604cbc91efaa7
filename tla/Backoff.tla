------------------------------- MODULE Backoff -------------------------------
(***************************************************************************)
(* The retry delay of a failing provider, internal/runner/backoff.go: its  *)
(* ceiling doubles with every consecutive failure up to a maximum, and the *)
(* delay is half of the ceiling plus a random share of the other half.     *)
(* BackoffLoop models the loop that computes the ceiling and checks that   *)
(* it computes the closed form given here.                                 *)
(***************************************************************************)
EXTENDS Integers

Larger(a, b)  == IF a > b THEN a ELSE b
Smaller(a, b) == IF a < b THEN a ELSE b

\* newBackoff: the delay starts at the polling interval, and the maximum is
\* raised to the interval when that is longer than the fixed maximum.
DelayLimit(interval, maxBackoff) == Larger(maxBackoff, interval)

\* The ceiling of the delay after n >= 1 consecutive failures.
Ceiling(base, limit, n) == Smaller(base * 2^(n - 1), limit)

\* variant: the random share is added to all of the ceiling, not to its half.
JitteredOnTop(ceil, limit) ==
    {d \in 0..(2 * limit) : ceil <= d /\ d <= 2 * ceil}

\* The delays the random share allows for one value of the ceiling.
Jittered(ceil, limit) ==
    {d \in 0..limit : ceil \div 2 <= d /\ d <= ceil}

Delays(base, limit, n) == Jittered(Ceiling(base, limit, n), limit)

=============================================================================
