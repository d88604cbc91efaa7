---------------------------- MODULE HealthProofs ----------------------------
(***************************************************************************)
(* The health check tells a hung instance from one that works: proofs for  *)
(* every list of names and intervals, and every number of restarts.        *)
(***************************************************************************)
EXTENDS Health, TLAPS

\* Every time is counted up to the bound.
TimesOK ==
    /\ age \in [Files -> 0..Old \cup {Absent}]
    /\ quiet \in [Instances -> 0..Old]
    /\ kept \subseteq Instances

\* A file that was kept is there and at most as old as the cycle it records.
KeptIsYoung ==
    \A i \in kept : age[File(i)] # Absent /\ age[File(i)] <= quiet[i]

\* No file is younger than the last cycle of its instance.
NoFalseSign ==
    \A i \in Instances : age[File(i)] = Absent \/ age[File(i)] >= quiet[i]

\* Instances do not share a file. The configuration does not guarantee it (see
\* fileName and MCHealth).
FilesDiffer == \A i, j \in Instances : File(i) = File(j) => i = j

LEMMA OlderGrows ==
  /\ \A n \in 0..Old : Older(n) \in 0..Old /\ Older(n) # Absent
  /\ \A m, n \in 0..Old : m <= n => Older(m) <= Older(n)
  BY OldAssumption DEF Older, Absent

LEMMA FileIsAFile == \A i \in Instances : File(i) \in Files
  BY DEF Files

LEMMA TimesStep == TimesOK /\ [Next]_vars => TimesOK'
<1> SUFFICES ASSUME TimesOK, [Next]_vars PROVE TimesOK'
  OBVIOUS
<1> USE DEF TimesOK
<1>1. CASE StartDaemon \/ StopDaemon \/ Remount \/ UNCHANGED vars
           \/ \E i \in Instances : Hang(i)
  BY <1>1 DEF StartDaemon, StopDaemon, Remount, Hang, vars
<1>2. CASE TimePasses
  <2>1. ASSUME NEW f \in Files
        PROVE  (IF age[f] = Absent THEN Absent ELSE Older(age[f]))
                   \in 0..Old \cup {Absent}
    BY OlderGrows
  <2> QED
    BY <1>2, <2>1, OlderGrows DEF TimePasses
<1>3. ASSUME NEW i \in Instances, AfterCycle(i)
      PROVE  TimesOK'
  BY <1>3, OldAssumption, FileIsAFile DEF AfterCycle
<1> QED
  BY <1>1, <1>2, <1>3 DEF Next

LEMMA TimesAreBounded == Spec => []TimesOK
<1>1. Init => TimesOK
  BY OldAssumption DEF Init, TimesOK
<1> QED
  BY <1>1, TimesStep, PTL DEF Spec

-----------------------------------------------------------------------------
(* No false alarm.                                                         *)

LEMMA KeptStep == TimesOK /\ KeptIsYoung /\ [Next]_vars => KeptIsYoung'
<1> SUFFICES ASSUME TimesOK, KeptIsYoung, [Next]_vars,
                    NEW k \in kept'
             PROVE  age'[File(k)] # Absent /\ age'[File(k)] <= quiet'[k]
  BY DEF KeptIsYoung
<1>1. CASE StartDaemon \/ StopDaemon \/ Remount \/ UNCHANGED vars
           \/ \E i \in Instances : Hang(i)
  BY <1>1 DEF StartDaemon, StopDaemon, Remount, Hang, vars, KeptIsYoung
<1>2. CASE TimePasses
  <2>1. k \in kept /\ k \in Instances /\ File(k) \in Files
    BY <1>2, FileIsAFile DEF TimePasses, TimesOK
  <2>2. age[File(k)] # Absent /\ age[File(k)] <= quiet[k]
        /\ age[File(k)] \in 0..Old /\ quiet[k] \in 0..Old
    BY <2>1 DEF KeptIsYoung, TimesOK
  <2>3. age'[File(k)] = Older(age[File(k)]) /\ quiet'[k] = Older(quiet[k])
    BY <1>2, <2>1, <2>2 DEF TimePasses
  <2> QED
    BY <2>2, <2>3, OlderGrows
<1>3. ASSUME NEW i \in Instances, AfterCycle(i)
      PROVE  age'[File(k)] # Absent /\ age'[File(k)] <= quiet'[k]
  <2>1. k \in Instances /\ File(k) \in Files /\ File(i) \in Files
    BY <1>3, FileIsAFile DEF AfterCycle, TimesOK
  <2>2. k # i => k \in kept /\ quiet'[k] = quiet[k] /\ quiet[k] \in 0..Old
                 /\ age[File(k)] # Absent /\ age[File(k)] <= quiet[k]
    BY <1>3, <2>1 DEF AfterCycle, KeptIsYoung, TimesOK
  <2>3. CASE recording /\ writable
    <3>1. age' = [age EXCEPT ![File(i)] = 0]
      BY <1>3, <2>3 DEF AfterCycle
    <3>2. CASE File(k) = File(i)
      <4>1. age'[File(k)] = 0
        BY <2>1, <3>1, <3>2 DEF TimesOK
      <4>2. quiet'[k] \in 0..Old
        BY <1>3, <2>1, <2>2, OldAssumption DEF AfterCycle, TimesOK
      <4> QED
        BY <4>1, <4>2 DEF Absent
    <3>3. CASE File(k) # File(i)
      BY <2>1, <2>2, <3>1, <3>3 DEF TimesOK
    <3> QED
      BY <3>2, <3>3
  <2>4. CASE ~(recording /\ writable)
    <3>1. k # i /\ UNCHANGED age
      BY <1>3, <2>4 DEF AfterCycle
    <3> QED
      BY <2>2, <3>1
  <2> QED
    BY <2>3, <2>4
<1> QED
  BY <1>1, <1>2, <1>3 DEF Next

\* The health check reports no instance whose last cycle was recorded within
\* its threshold, across restarts of the daemon, and whatever files are shared.
THEOREM RecentIsNotReported == Spec => []RecentIsHealthy
<1>1. Init => KeptIsYoung
  BY DEF Init, KeptIsYoung
<1>2. TimesOK /\ KeptIsYoung => RecentIsHealthy
  <2> SUFFICES ASSUME TimesOK, KeptIsYoung, NEW i \in kept,
                      quiet[i] <= Threshold(i)
               PROVE  ~Problem(i)
    BY DEF RecentIsHealthy, Reported
  <2>1. i \in Instances /\ File(i) \in Files
    BY FileIsAFile DEF TimesOK
  <2>2. age[File(i)] \in 0..Old /\ age[File(i)] <= quiet[i]
        /\ quiet[i] \in 0..Old /\ age[File(i)] # Absent
    BY <2>1 DEF KeptIsYoung, TimesOK
  <2>3. Threshold(i) \in Nat
    BY <2>1, HealthAssumption DEF Threshold, StalenessFactor, Instances
  <2> QED
    BY <2>2, <2>3 DEF Problem
<1> QED
  BY <1>1, <1>2, KeptStep, TimesAreBounded, PTL DEF Spec

-----------------------------------------------------------------------------
(* No hung instance is overlooked.                                         *)

LEMMA SignStep ==
  FilesDiffer =>
      (TimesOK /\ NoFalseSign /\ [Next]_vars => NoFalseSign')
<1> SUFFICES ASSUME FilesDiffer, TimesOK, NoFalseSign, [Next]_vars,
                    NEW k \in Instances
             PROVE  age'[File(k)] = Absent \/ age'[File(k)] >= quiet'[k]
  BY DEF NoFalseSign
<1>0. File(k) \in Files /\ quiet[k] \in 0..Old
      /\ (age[File(k)] = Absent
            \/ (age[File(k)] \in 0..Old /\ quiet[k] <= age[File(k)]))
  BY FileIsAFile DEF NoFalseSign, TimesOK
<1>1. CASE StartDaemon \/ StopDaemon \/ Remount \/ UNCHANGED vars
           \/ \E i \in Instances : Hang(i)
  BY <1>0, <1>1 DEF StartDaemon, StopDaemon, Remount, Hang, vars, NoFalseSign
<1>2. CASE TimePasses
  <2>1. quiet'[k] = Older(quiet[k])
        /\ age'[File(k)] = IF age[File(k)] = Absent THEN Absent
                           ELSE Older(age[File(k)])
    BY <1>0, <1>2 DEF TimePasses
  <2>2. CASE age[File(k)] = Absent
    BY <2>1, <2>2
  <2>3. CASE age[File(k)] # Absent
    <3>1. Older(quiet[k]) <= Older(age[File(k)])
          /\ Older(quiet[k]) \in 0..Old /\ Older(age[File(k)]) \in 0..Old
      BY <1>0, <2>3, OlderGrows
    <3> QED
      BY <2>1, <2>3, <3>1
  <2> QED
    BY <2>2, <2>3
<1>3. ASSUME NEW i \in Instances, AfterCycle(i)
      PROVE  age'[File(k)] = Absent \/ age'[File(k)] >= quiet'[k]
  <2>1. CASE k = i
    <3>1. quiet'[k] = 0
      BY <1>3, <2>1 DEF AfterCycle, TimesOK
    <3>2. age'[File(k)] \in {0, age[File(k)]}
      BY <1>0, <1>3, <2>1 DEF AfterCycle, TimesOK
    <3> QED
      BY <1>0, <3>1, <3>2
  <2>2. CASE k # i
    <3>1. File(k) # File(i)
      BY <2>2 DEF FilesDiffer
    <3>2. age'[File(k)] = age[File(k)] /\ quiet'[k] = quiet[k]
      BY <1>0, <1>3, <2>2, <3>1 DEF AfterCycle, TimesOK
    <3> QED
      BY <1>0, <3>2
  <2> QED
    BY <2>1, <2>2
<1> QED
  BY <1>1, <1>2, <1>3 DEF Next

\* An instance that has completed no cycle for longer than its threshold is
\* reported, however the daemon stopped, hangs or was restarted, provided that
\* no other instance writes to its file.
THEOREM StuckIsNotOverlooked == ASSUME FilesDiffer
                                PROVE  Spec => []StuckIsReported
<1>1. Init => NoFalseSign
  BY FileIsAFile DEF Init, NoFalseSign
<1>2. TimesOK /\ NoFalseSign /\ [Next]_vars => NoFalseSign'
  BY SignStep
<1>3. TimesOK /\ NoFalseSign => StuckIsReported
  <2> SUFFICES ASSUME TimesOK, NoFalseSign, NEW i \in Instances,
                      quiet[i] > Threshold(i)
               PROVE  Problem(i)
    BY DEF StuckIsReported, Reported
  <2>1. quiet[i] \in 0..Old
        /\ (age[File(i)] = Absent
              \/ (age[File(i)] \in 0..Old /\ age[File(i)] >= quiet[i]))
    BY FileIsAFile DEF NoFalseSign, TimesOK
  <2>2. Threshold(i) \in Nat
    BY HealthAssumption DEF Threshold, StalenessFactor, Instances
  <2> QED
    BY <2>1, <2>2 DEF Problem
<1> QED
  BY <1>1, <1>2, <1>3, TimesAreBounded, PTL DEF Spec

=============================================================================
