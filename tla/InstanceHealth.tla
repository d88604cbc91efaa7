--------------------------- MODULE InstanceHealth ---------------------------
(***************************************************************************)
(* The status file of one instance beside the instance itself: how old it  *)
(* is while the tick loop runs. The threshold is the one of                *)
(* internal/health/health.go.                                              *)
(***************************************************************************)
EXTENDS Instance

CONSTANT AgeCap         \* bound: the age of the file is counted up to here

ASSUME HealthAssumption == AgeCap \in Nat

VARIABLE fileAge        \* time since this process touched the file, or
                        \* Untouched

Untouched == -1

healthVars == <<vars, fileAge>>

\* The floor is one attempt timeout: both are constants of 30 seconds, the one
\* in health.go and DefaultAttemptTimeout in runner.go, which app.go leaves as
\* it is.
MinStaleness == AttemptTimeout

\* variant: a cycle may take an interval, and no more.
ThresholdOnce == Larger(Interval, MinStaleness)

Threshold == Larger(Interval * 2, MinStaleness)

HealthInit == Init /\ fileAge = Untouched

TimePasses ==
    UNCHANGED <<pc, idx, cancelled, ip, calm, restarts>> /\ pc # "stopped"

\* Recorder.AfterCycle runs for every cycle that is reported. A new process has
\* not touched the file yet.
HealthNext ==
    /\ Next
    /\ fileAge' = CASE restarts' # restarts -> Untouched
                    [] pc = "hooks" /\ pc' = "waiting" /\ ~cancelled -> 0
                    [] TimePasses /\ fileAge # Untouched ->
                           Smaller(fileAge + 1, AgeCap)
                    [] OTHER -> fileAge

HealthSpec == HealthInit /\ [][HealthNext]_healthVars
HealthFairSpec == HealthSpec /\ Fairness

\* health.go: a file older than the threshold means that the tick loop itself
\* stopped. So while it runs, the file never gets older than that, however
\* slow or failing its retrievers and providers are: provided that the attempts
\* and hooks of a cycle take no longer than the interval.
RunningIsFresh ==
    ~cancelled /\ fileAge # Untouched => fileAge <= Threshold

=============================================================================
