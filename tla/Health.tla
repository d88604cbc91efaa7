------------------------------- MODULE Health -------------------------------
(***************************************************************************)
(* The health check, internal/health/health.go: the daemon touches one     *)
(* status file per instance after every completed cycle, and the           *)
(* healthcheck subcommand, another process, finds the instances whose file *)
(* is missing or too old. Files survive the daemon. An instance is seen    *)
(* here from outside: it completes a cycle now and then, or hangs.         *)
(***************************************************************************)
EXTENDS Integers, Sequences

CONSTANTS
    Name,         \* the configured names of the instances, by position
    Interval,     \* their polling intervals
    MinStaleness, \* the floor of the threshold
    Old           \* bound: times are counted up to here

ASSUME HealthAssumption ==
    /\ Interval \in [DOMAIN Name -> Nat \ {0}]
    /\ MinStaleness \in Nat
    \* config rejects a name that is used twice
    /\ \A i, j \in DOMAIN Name : Name[i] = Name[j] => i = j

Instances == DOMAIN Name

\* fileName, for names that PathEscape leaves as they are. The names "." and
\* "_." are different and have one file.
FileName(name) == IF name \in {"", ".", ".."} THEN "_" \o name ELSE name

File(i) == FileName(Name[i])
Files   == {File(i) : i \in Instances}

StalenessFactor == 2

Threshold(i) ==
    IF Interval[i] * StalenessFactor < MinStaleness
    THEN MinStaleness
    ELSE Interval[i] * StalenessFactor

ASSUME OldAssumption == Old \in Nat /\ \A i \in Instances : Threshold(i) < Old

Absent == -1

VARIABLES
    up,         \* the daemon runs
    recording,  \* its Recorder could be set up, so instances have the hook
    writable,   \* a write to the status directory works at this moment
    hung,       \* instances of this daemon that never complete a cycle again
    age,        \* time since a status file was touched, or Absent
    quiet,      \* time since an instance last completed a cycle, ever
    kept        \* instances whose last completed cycle reached its file

vars == <<up, recording, writable, hung, age, quiet, kept>>

Init ==
    /\ up = FALSE /\ recording = FALSE /\ writable = TRUE
    /\ hung = {} /\ kept = {}
    /\ age = [f \in Files |-> Absent]
    /\ quiet = [i \in Instances |-> Old]

\* app.Run: a directory that cannot be prepared only disables the hook. One
\* that exists counts as prepared, even if nothing can be written to it now.
StartDaemon ==
    /\ ~up
    /\ up' = TRUE
    /\ recording' \in {TRUE, writable}
    /\ hung' = {}
    /\ UNCHANGED <<writable, age, quiet, kept>>

StopDaemon ==
    /\ up
    /\ up' = FALSE
    /\ UNCHANGED <<recording, writable, hung, age, quiet, kept>>

Hang(i) ==
    /\ up /\ i \notin hung
    /\ hung' = hung \cup {i}
    /\ UNCHANGED <<up, recording, writable, age, quiet, kept>>

\* A completed cycle and, with it, Recorder.AfterCycle; a failed write is
\* logged only.
AfterCycle(i) ==
    /\ up /\ i \notin hung
    /\ quiet' = [quiet EXCEPT ![i] = 0]
    /\ IF recording /\ writable
       THEN /\ age' = [age EXCEPT ![File(i)] = 0]
            /\ kept' = kept \cup {i}
       ELSE /\ kept' = kept \ {i}
            /\ UNCHANGED age
    /\ UNCHANGED <<up, recording, writable, hung>>

Remount ==
    /\ writable' = ~writable
    /\ UNCHANGED <<up, recording, hung, age, quiet, kept>>

Older(n) == IF n < Old THEN n + 1 ELSE n

TimePasses ==
    /\ age' = [f \in Files |->
                 IF age[f] = Absent THEN Absent ELSE Older(age[f])]
    /\ quiet' = [i \in Instances |-> Older(quiet[i])]
    /\ UNCHANGED <<up, recording, writable, hung, kept>>

Next ==
    \/ StartDaemon \/ StopDaemon \/ Remount \/ TimePasses
    \/ \E i \in Instances : Hang(i) \/ AfterCycle(i)

Spec == Init /\ [][Next]_vars

-----------------------------------------------------------------------------

\* variant: a file that was never written raises no alarm.
ProblemIfOld(i) == age[File(i)] > Threshold(i)

\* variant: the threshold itself is too old already.
ProblemAtThreshold(i) == age[File(i)] = Absent \/ age[File(i)] >= Threshold(i)

\* check, for one instance, and what CheckAll reports at this moment.
Problem(i) == age[File(i)] = Absent \/ age[File(i)] > Threshold(i)

Reported == {i \in Instances : Problem(i)}

\* An instance that has not completed a cycle for longer than its threshold,
\* because it hangs, because the daemon is down or was restarted and hangs, is
\* reported by the health check, whatever became of the others' files.
StuckIsReported ==
    \A i \in Instances : quiet[i] > Threshold(i) => i \in Reported

\* The health check does not report an instance whose last cycle was recorded
\* within its threshold, even if the daemon was restarted since.
RecentIsHealthy ==
    \A i \in kept : quiet[i] <= Threshold(i) => i \notin Reported

=============================================================================
