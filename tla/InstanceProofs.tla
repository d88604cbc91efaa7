--------------------------- MODULE InstanceProofs ---------------------------
(***************************************************************************)
(* Theorems about Instance, for every number of retrievers and providers,  *)
(* every set of addresses and every choice of times.                       *)
(***************************************************************************)
EXTENDS InstanceKeeps, TLAPS

-----------------------------------------------------------------------------
(* Facts about the constants.                                              *)

\* The limit of the retry delay is a natural number (newBackoff).
LEMMA MaxDelayIsNat == MaxDelay \in Nat
  BY TimeAssumption DEF MaxDelay, DelayLimit, Larger

\* A drawn delay never exceeds the limit.
LEMMA DelaysAreBounded ==
  ASSUME NEW n \in Int, NEW d \in Delays(Interval, MaxDelay, n)
  PROVE  d \in 0..MaxDelay
  BY DEF Delays, Jittered

\* Every subject of a status event is one of the three kinds.
LEMMA SubjectsAreKinds ==
  /\ \A r \in Retrievers : RetrieverOf(r) \in Subjects
  /\ \A p \in Providers : ProviderOf(p) \in Subjects
  /\ TheInstance \in Subjects
  BY DEF Subjects

\* Retrievers name existing families only.
LEMMA SuppliesFamilies == \A r \in Retrievers : Supplies(r) \subseteq Families
  BY DEF Supplies, Families

\* Knowing no address is a well-typed answer.
LEMMA NothingIsMaybe == Nothing \in [Families -> Maybe]
  BY DEF Nothing, Maybe

-----------------------------------------------------------------------------
(* Type correctness.                                                       *)

LEMMA InitTypeOK == Init => TypeOK
<1> SUFFICES ASSUME Init
             PROVE  TypeOK
  OBVIOUS
<1> USE CountAssumption, TimeAssumption, MaxDelayIsNat, NothingIsMaybe
<1>1. /\ due \in [Providers -> 0..MaxDelay]
      /\ failures \in [Providers -> 0..FailureCap]
  BY DEF Init
<1>2. last \in [Providers -> [Families -> Maybe]]
      /\ announced \in [Providers -> [Families -> Maybe]]
  BY DEF Init
<1>3. /\ phase \in 1..Interval /\ since \in 0..MaxDelay
      /\ restarts \in 0..MaxRestarts
  BY DEF Init
<1>4. errs \in BOOLEAN
  BY DEF Init
<1>5. lastErr \in [Providers -> BOOLEAN]
  BY DEF Init
<1>6. told \in [Subjects -> BOOLEAN]
  BY DEF Init
<1>7. cancelled \in BOOLEAN /\ tickPending \in BOOLEAN /\ calm \in BOOLEAN
  BY DEF Init
<1> QED
  BY <1>1, <1>2, <1>3, <1>4, <1>5, <1>6, <1>7 DEF Init, TypeOK

\* observe keeps its two maps well typed.
LEMMA ObserveTypeOK ==
  ASSUME TypeOK, NEW s \in Subjects, NEW failed \in BOOLEAN, Observe(s, failed)
  PROVE  /\ status' \in [Subjects -> {"unseen", "ok", "failed"}]
         /\ told' \in [Subjects -> BOOLEAN]
  BY DEF TypeOK, Observe

\* A write leaves every record well typed.
LEMMA ApplyTypeOK ==
  ASSUME TypeOK, NEW sent, Apply(sent)
  PROVE  record' \in [Providers -> [Families -> Maybe]]
  BY DEF TypeOK, Apply

\* Every step of the goroutine keeps the types.
LEMMA ProgramTypeOK ==
  ASSUME TypeOK, Program
  PROVE  TypeOK'
<1> USE CountAssumption, TimeAssumption, MaxDelayIsNat
    DEF tick, provider, ticker, view, outside
<1>0. age' = 0 /\ UNCHANGED outside
  BY DEF Program
<1>1. CASE Start
  BY <1>0, <1>1 DEF Start, TypeOK
<1>2. CASE BeginTick
  <2>1. due' \in [Providers -> 0..MaxDelay]
    BY <1>0, <1>2 DEF BeginTick, TypeOK, Larger
  <2>2. errs' \in BOOLEAN
    BY <1>0, <1>2 DEF BeginTick
  <2>3. idx' \in Nat \ {0} /\ since' \in 0..MaxDelay /\ age' \in Nat
    BY <1>0, <1>2 DEF BeginTick
  <2> QED
    BY <1>0, <1>2, <2>1, <2>2, <2>3, NothingIsMaybe DEF BeginTick, TypeOK
<1>3. CASE Stop
  BY <1>0, <1>3 DEF Stop, TypeOK
<1>4. CASE TakeTick
  BY <1>0, <1>4 DEF TakeTick, TypeOK
<1>5. CASE WakeCancelled
  BY <1>0, <1>5 DEF WakeCancelled, TypeOK
<1>6. CASE Fetch
  BY <1>0, <1>6 DEF Fetch, MoreRetrievers, TypeOK
<1>7. CASE SkipRetriever
  BY <1>0, <1>7 DEF SkipRetriever, TypeOK
<1>8. CASE EndRetrieve
  BY <1>0, <1>8 DEF EndRetrieve, TypeOK
<1>9. ASSUME NEW got \in SUBSET Families, FetchOK(got)
      PROVE  TypeOK'
  <2>1. addrs' \in [Families -> Maybe]
    BY <1>0, <1>9 DEF FetchOK, TypeOK, Maybe
  <2>2. /\ status' \in [Subjects -> {"unseen", "ok", "failed"}]
        /\ told' \in [Subjects -> BOOLEAN]
    BY <1>0, <1>9, ObserveTypeOK, SubjectsAreKinds DEF FetchOK, TypeOK
  <2> QED
    BY <1>0, <1>9, <2>1, <2>2 DEF FetchOK, TypeOK
<1>10. CASE FetchFailed
  <2>1. /\ status' \in [Subjects -> {"unseen", "ok", "failed"}]
        /\ told' \in [Subjects -> BOOLEAN]
    BY <1>0, <1>10, ObserveTypeOK, SubjectsAreKinds DEF FetchFailed, TypeOK
  <2> QED
    BY <1>0, <1>10, <2>1 DEF FetchFailed, AfterFailedFetch, TypeOK
<1>11. CASE FetchInterrupted
  BY <1>0, <1>11 DEF FetchInterrupted, TypeOK
<1>12. CASE UpToDate
  BY <1>0, <1>12 DEF UpToDate, TypeOK
<1>13. CASE BackingOff
  BY <1>0, <1>13 DEF BackingOff, TypeOK
<1>14. CASE Write
  BY <1>0, <1>14 DEF Write, MoreProviders, TypeOK
<1>15. CASE WriteOK
  <2>1. record' \in [Providers -> [Families -> Maybe]]
    BY <1>0, <1>15, ApplyTypeOK DEF WriteOK
  <2>2. last' \in [Providers -> [Families -> Maybe]]
    BY <1>0, <1>15 DEF WriteOK, TypeOK
  <2>3. changes' \subseteq
          [provider : Providers, family : Families, old : Maybe]
    BY <1>0, <1>15 DEF WriteOK, ChangesOf, TypeOK, Changed, Found
  <2>4. /\ status' \in [Subjects -> {"unseen", "ok", "failed"}]
        /\ told' \in [Subjects -> BOOLEAN]
    BY <1>0, <1>15, ObserveTypeOK, SubjectsAreKinds DEF WriteOK, TypeOK
  <2> QED
    BY <1>0, <1>15, <2>1, <2>2, <2>3, <2>4 DEF WriteOK, TypeOK
<1>16. ASSUME NEW sent \in SUBSET Families, WriteFailed(sent)
       PROVE  TypeOK'
  <2>1. record' \in [Providers -> [Families -> Maybe]]
    BY <1>0, <1>16, ApplyTypeOK DEF WriteFailed
  <2>2. last' \in [Providers -> [Families -> Maybe]]
    BY <1>0, <1>16 DEF WriteFailed, AfterFailure, TypeOK, Nothing, Maybe
  <2>3. failures' \in [Providers -> 0..FailureCap]
    BY <1>0, <1>16 DEF WriteFailed, TypeOK, Smaller
  <2>4. due' \in [Providers -> 0..MaxDelay]
    <3>1. PICK d \in Delays(Interval, MaxDelay, failures'[idx]) :
            due' = [due EXCEPT ![idx] = d]
      BY <1>0, <1>16 DEF WriteFailed
    <3>2. d \in 0..MaxDelay
      BY <3>1 DEF Delays, Jittered
    <3> QED
      BY <3>1, <3>2 DEF TypeOK
  <2>5. /\ status' \in [Subjects -> {"unseen", "ok", "failed"}]
        /\ told' \in [Subjects -> BOOLEAN]
    BY <1>0, <1>16, ObserveTypeOK, SubjectsAreKinds DEF WriteFailed, TypeOK
  <2> QED
    BY <1>0, <1>16, <2>1, <2>2, <2>3, <2>4, <2>5
       DEF WriteFailed, AfterFailedWrite, TypeOK
<1>17. ASSUME NEW sent \in SUBSET Families, WriteInterrupted(sent)
       PROVE  TypeOK'
  <2>1. record' \in [Providers -> [Families -> Maybe]]
    BY <1>0, <1>17, ApplyTypeOK DEF WriteInterrupted
  <2> QED
    BY <1>0, <1>17, <2>1 DEF WriteInterrupted, TypeOK
<1>18. CASE EndUpdate
  <2>1. announced' \in [Providers -> [Families -> Maybe]]
    BY <1>0, <1>18 DEF EndUpdate, EmitChanges, Announce, TypeOK
  <2> QED
    BY <1>0, <1>18, <2>1 DEF EndUpdate, TypeOK
<1>19. CASE RunHooks
  <2>1. /\ status' \in [Subjects -> {"unseen", "ok", "failed"}]
        /\ told' \in [Subjects -> BOOLEAN]
    BY <1>0, <1>19, ObserveTypeOK, SubjectsAreKinds DEF RunHooks, TypeOK
  <2> QED
    BY <1>0, <1>19, <2>1 DEF RunHooks, TypeOK
<1>20. CASE SkipHooks
  BY <1>0, <1>20 DEF SkipHooks, TypeOK
<1> QED
  BY <1>1, <1>2, <1>3, <1>4, <1>5, <1>6, <1>7, <1>8, <1>9, <1>10, <1>11,
     <1>12, <1>13, <1>14, <1>15, <1>16, <1>17, <1>18, <1>19, <1>20
     DEF Program, Run, Retrieve, Update, Hooks

\* So does everything that happens around it.
LEMMA EnvironmentTypeOK ==
  ASSUME TypeOK, Environment
  PROVE  TypeOK'
<1> USE CountAssumption, TimeAssumption, MaxDelayIsNat
    DEF tick, provider, ticker, view
<1>1. CASE Elapse
  <2>1. since' \in 0..MaxDelay
    BY <1>1 DEF Elapse, TypeOK, Smaller
  <2>2. age' \in Nat /\ phase' \in 1..Interval /\ tickPending' \in BOOLEAN
    BY <1>1 DEF Elapse, TypeOK
  <2> QED
    BY <1>1, <2>1, <2>2 DEF Elapse, TypeOK
<1>2. CASE Cancel
  BY <1>2 DEF Cancel, TypeOK
<1>3. CASE CalmDown
  BY <1>3 DEF CalmDown, TypeOK
<1>4. ASSUME NEW f \in Families, NEW a \in Addr, ChangeAddress(f, a)
       PROVE  TypeOK'
  BY <1>4 DEF ChangeAddress, TypeOK, Maybe
<1>5. ASSUME NEW sent \in SUBSET Families, Restart(sent)
       PROVE  TypeOK'
  <2>1. record' \in [Providers -> [Families -> Maybe]]
    BY <1>5, ApplyTypeOK DEF Restart, TypeOK
  <2>2. /\ due' \in [Providers -> 0..MaxDelay]
        /\ failures' \in [Providers -> 0..FailureCap]
        /\ last' \in [Providers -> [Families -> Maybe]]
    BY <1>5, NothingIsMaybe DEF Restart
  <2>3. /\ phase' \in 1..Interval /\ since' \in 0..MaxDelay
        /\ restarts' \in 0..MaxRestarts
    BY <1>5 DEF Restart, TypeOK
  <2>4. errs' \in BOOLEAN
    BY <1>5 DEF Restart
  <2>5. lastErr' \in [Providers -> BOOLEAN]
    BY <1>5 DEF Restart
  <2>6. cancelled' \in BOOLEAN /\ tickPending' \in BOOLEAN
    BY <1>5 DEF Restart
  <2>7. status' \in [Subjects -> {"unseen", "ok", "failed"}]
    BY <1>5 DEF Restart
  <2> QED
    BY <1>5, <2>1, <2>2, <2>3, <2>4, <2>5, <2>6, <2>7, NothingIsMaybe
       DEF Restart, TypeOK
<1> QED
  BY <1>1, <1>2, <1>3, <1>4, <1>5 DEF Environment

\* The variables of an instance, and those of the world around it, stay in
\* their types: idx never leaves its list while an attempt runs, and a delay
\* never exceeds the limit of the backoff.
THEOREM TypeCorrect == Spec => []TypeOK
<1>1. TypeOK /\ [Next]_vars => TypeOK'
  <2>1. ASSUME TypeOK, UNCHANGED vars
        PROVE  TypeOK'
    BY <2>1 DEF TypeOK, vars, tick, provider, ticker, view, outside
  <2> QED
    BY <2>1, ProgramTypeOK, EnvironmentTypeOK DEF Next, Terminated
<1> QED
  BY <1>1, InitTypeOK, PTL DEF Spec

-----------------------------------------------------------------------------
(* Beliefs about records are true.                                         *)

\* The steps that neither write, nor forget, nor hear of the cancellation.
IdleProgram ==
    Run \/ Retrieve \/ Hooks \/ UpToDate \/ BackingOff \/ Write \/ EndUpdate
Idle ==
    \/ IdleProgram /\ UNCHANGED outside
    \/ Elapse \/ CalmDown
    \/ \E f \in Families, a \in Addr : ChangeAddress(f, a)

\* They leave records, beliefs and the counts of failures alone.
LEMMA IdleKeepsMemory ==
  ASSUME Idle
  PROVE  UNCHANGED <<last, failures, lastErr, cancelled, record>>
<1> USE DEF tick, provider, ticker, view, outside
<1>1. CASE Run /\ UNCHANGED outside
  BY <1>1 DEF Run, Start, BeginTick, Stop, TakeTick, WakeCancelled
<1>2. CASE Retrieve /\ UNCHANGED outside
  BY <1>2 DEF Retrieve, Fetch, SkipRetriever, EndRetrieve, FetchOK, FetchFailed,
              FetchInterrupted
<1>3. CASE (UpToDate \/ BackingOff \/ Write \/ EndUpdate) /\ UNCHANGED outside
  BY <1>3 DEF UpToDate, BackingOff, Write, EndUpdate
<1>6. CASE Hooks /\ UNCHANGED outside
  BY <1>6 DEF Hooks, RunHooks, SkipHooks
<1>4. CASE Elapse \/ CalmDown
  BY <1>4 DEF Elapse, CalmDown
<1>5. CASE \E f \in Families, a \in Addr : ChangeAddress(f, a)
  BY <1>5 DEF ChangeAddress
<1> QED
  BY <1>1, <1>2, <1>3, <1>4, <1>5, <1>6 DEF Idle, IdleProgram

\* Every step is one of those, a write that ends, the cancellation or a
\* restart.
LEMMA StepCases ==
  ASSUME [Next]_vars
  PROVE  \/ Idle
         \/ WriteOK /\ UNCHANGED outside
         \/ \E sent \in SUBSET Families : WriteFailed(sent) /\ UNCHANGED outside
         \/ \E sent \in SUBSET Families :
              WriteInterrupted(sent) /\ UNCHANGED outside
         \/ Cancel
         \/ \E sent \in SUBSET Families : Restart(sent)
         \/ UNCHANGED vars
  BY DEF Next, Program, Update, Environment, Terminated, Idle, IdleProgram

LEMMA BeliefStep == TypeOK /\ BeliefIsTrue /\ [Next]_vars => BeliefIsTrue'
<1> SUFFICES ASSUME TypeOK, BeliefIsTrue, [Next]_vars,
                    ~cancelled',
                    NEW p \in Providers, NEW f \in Families,
                    last'[p][f] # Unknown
             PROVE  record'[p][f] = last'[p][f]
  BY DEF BeliefIsTrue
<1>1. CASE Idle
  BY <1>1, IdleKeepsMemory DEF BeliefIsTrue
<1>2. CASE WriteOK /\ UNCHANGED outside
  <2>1. ~cancelled
    BY <1>2 DEF outside
  <2>2. CASE p = idx /\ f \in Changed(idx)
    BY <1>2, <2>2 DEF WriteOK, Apply, TypeOK
  <2>3. CASE ~(p = idx /\ f \in Changed(idx))
    <3>1. last'[p][f] = last[p][f] /\ record'[p][f] = record[p][f]
      BY <1>2, <2>3 DEF WriteOK, Apply, TypeOK
    <3> QED
      BY <2>1, <3>1 DEF BeliefIsTrue
  <2> QED
    BY <2>2, <2>3
<1>3. ASSUME NEW sent \in SUBSET Families, WriteFailed(sent), UNCHANGED outside
      PROVE  record'[p][f] = last'[p][f]
  <2>1. p # idx
    BY <1>3 DEF WriteFailed, AfterFailure, TypeOK, Nothing
  <2>2. last'[p] = last[p] /\ record'[p] = record[p]
    BY <1>3, <2>1 DEF WriteFailed, Apply, TypeOK
  <2> QED
    BY <1>3, <2>2 DEF WriteFailed, BeliefIsTrue
<1>4. ASSUME NEW sent \in SUBSET Families,
             WriteInterrupted(sent), UNCHANGED outside
      PROVE  FALSE
  BY <1>4 DEF WriteInterrupted, outside
<1>5. CASE Cancel
  BY <1>5 DEF Cancel
<1>6. ASSUME NEW sent \in SUBSET Families, Restart(sent)
      PROVE  FALSE
  BY <1>6 DEF Restart, Nothing
<1>7. CASE UNCHANGED vars
  BY <1>7 DEF vars, provider, outside, BeliefIsTrue
<1> QED
  BY <1>1, <1>2, <1>3, <1>4, <1>5, <1>6, <1>7, StepCases

\* While an instance runs, an address it remembers as written, and therefore
\* does not write again, is the one its provider's record holds.
THEOREM BeliefsAreTrue == Spec => []BeliefIsTrue
<1>1. Init => BeliefIsTrue
  BY DEF Init, BeliefIsTrue, Nothing
<1> QED
  BY <1>1, BeliefStep, TypeCorrect, PTL DEF Spec

-----------------------------------------------------------------------------
(* What is remembered of a failing provider agrees.                        *)

\* A step that observes another subject leaves a provider's status alone.
LEMMA ObserveOthers ==
  ASSUME TypeOK, NEW s \in Subjects, NEW failed, Observe(s, failed),
         NEW p \in Providers, s # ProviderOf(p)
  PROVE  status'[ProviderOf(p)] = status[ProviderOf(p)]
  BY DEF Observe, TypeOK

\* The three kinds of subjects are distinct.
LEMMA SubjectsDiffer ==
  /\ \A r \in Retrievers, p \in Providers : RetrieverOf(r) # ProviderOf(p)
  /\ \A p \in Providers : TheInstance # ProviderOf(p)
  /\ \A p, q \in Providers : ProviderOf(p) = ProviderOf(q) => p = q
  BY DEF RetrieverOf, ProviderOf, TheInstance

\* An idle step keeps every provider's status, and no backoff grows.
LEMMA IdleKeepsProviders ==
  ASSUME TypeOK, Idle, NEW p \in Providers
  PROVE  /\ status'[ProviderOf(p)] = status[ProviderOf(p)]
         /\ due'[p] > 0 => due[p] > 0
<1> USE DEF tick, provider, ticker, view, outside
<1>1. CASE BeginTick
  <2>1. due[p] \in Nat /\ since \in Nat
    BY MaxDelayIsNat DEF TypeOK
  <2> QED
    BY <1>1, <2>1 DEF BeginTick, Larger
<1>2. CASE Start \/ Stop \/ TakeTick \/ WakeCancelled
  BY <1>2 DEF Start, Stop, TakeTick, WakeCancelled
<1>3. CASE Fetch \/ SkipRetriever \/ EndRetrieve \/ FetchInterrupted
  BY <1>3 DEF Fetch, SkipRetriever, EndRetrieve, FetchInterrupted
<1>4. CASE FetchFailed
  BY <1>4, ObserveOthers, SubjectsDiffer, SubjectsAreKinds
     DEF FetchFailed, TypeOK
<1>5. ASSUME NEW got \in SUBSET Families, FetchOK(got)
      PROVE  /\ status'[ProviderOf(p)] = status[ProviderOf(p)]
             /\ due'[p] > 0 => due[p] > 0
  <2>1. idx \in Retrievers /\ Observe(RetrieverOf(idx), FALSE) /\ due' = due
    BY <1>5 DEF FetchOK, TypeOK
  <2> QED
    BY <2>1, ObserveOthers, SubjectsDiffer, SubjectsAreKinds
<1>6. CASE UpToDate \/ BackingOff \/ Write \/ EndUpdate \/ SkipHooks
  BY <1>6 DEF UpToDate, BackingOff, Write, EndUpdate, SkipHooks
<1>7. CASE RunHooks
  BY <1>7, ObserveOthers, SubjectsDiffer, SubjectsAreKinds DEF RunHooks
<1>8. CASE Elapse \/ CalmDown
  BY <1>8 DEF Elapse, CalmDown
<1>9. CASE \E f \in Families, a \in Addr : ChangeAddress(f, a)
  BY <1>9 DEF ChangeAddress
<1> QED
  BY <1>1, <1>2, <1>3, <1>4, <1>5, <1>6, <1>7, <1>8, <1>9
     DEF Idle, IdleProgram, Run, Retrieve, Hooks

\* FailureIsConsistent, for one provider.
Agrees(p) ==
    /\ lastErr[p] <=> failures[p] > 0
    /\ lastErr[p] <=> status[ProviderOf(p)] = "failed"
    /\ lastErr[p] => last[p] = Nothing
    /\ due[p] > 0 => lastErr[p]

LEMMA AgreesStep ==
  ASSUME TypeOK, [Next]_vars, NEW p \in Providers, Agrees(p)
  PROVE  Agrees(p)'
<1>1. CASE Idle
  BY <1>1, IdleKeepsMemory, IdleKeepsProviders DEF Agrees
<1>2. CASE WriteOK /\ UNCHANGED outside
  <2>1. CASE p = idx
    <3>1. failures'[p] = 0 /\ due'[p] = 0 /\ ~lastErr'[p]
      BY <1>2, <2>1 DEF WriteOK, TypeOK
    <3>2. status'[ProviderOf(p)] = "ok"
      BY <1>2, <2>1, SubjectsAreKinds DEF WriteOK, Observe, TypeOK
    <3> QED
      BY <3>1, <3>2 DEF Agrees
  <2>2. CASE p # idx
    <3>1. UNCHANGED <<failures[p], due[p], lastErr[p], last[p]>>
      BY <1>2, <2>2 DEF WriteOK, TypeOK
    <3>2. status'[ProviderOf(p)] = status[ProviderOf(p)]
      <4>1. idx \in Providers /\ Observe(ProviderOf(idx), FALSE)
        BY <1>2 DEF WriteOK, TypeOK
      <4>2. ProviderOf(idx) \in Subjects /\ ProviderOf(idx) # ProviderOf(p)
        BY <2>2, <4>1, SubjectsDiffer, SubjectsAreKinds
      <4> QED
        BY <4>1, <4>2, ObserveOthers
    <3> QED
      BY <3>1, <3>2 DEF Agrees
  <2> QED
    BY <2>1, <2>2
<1>3. ASSUME NEW sent \in SUBSET Families, WriteFailed(sent), UNCHANGED outside
      PROVE  Agrees(p)'
  <2>1. CASE p = idx
    <3>1. failures'[p] > 0
      BY <1>3, <2>1, TimeAssumption DEF WriteFailed, TypeOK, Smaller
    <3>2. lastErr'[p] /\ last'[p] = Nothing
      BY <1>3, <2>1 DEF WriteFailed, AfterFailure, TypeOK
    <3>3. status'[ProviderOf(p)] = "failed"
      BY <1>3, <2>1, SubjectsAreKinds DEF WriteFailed, Observe, TypeOK
    <3> QED
      BY <3>1, <3>2, <3>3 DEF Agrees
  <2>2. CASE p # idx
    <3>1. UNCHANGED <<failures[p], due[p], lastErr[p], last[p]>>
      BY <1>3, <2>2 DEF WriteFailed, TypeOK
    <3>2. status'[ProviderOf(p)] = status[ProviderOf(p)]
      <4>1. idx \in Providers /\ Observe(ProviderOf(idx), TRUE)
        BY <1>3 DEF WriteFailed, TypeOK
      <4>2. ProviderOf(idx) \in Subjects /\ ProviderOf(idx) # ProviderOf(p)
        BY <2>2, <4>1, SubjectsDiffer, SubjectsAreKinds
      <4> QED
        BY <4>1, <4>2, ObserveOthers
    <3> QED
      BY <3>1, <3>2 DEF Agrees
  <2> QED
    BY <2>1, <2>2
<1>4. ASSUME NEW sent \in SUBSET Families,
             WriteInterrupted(sent), UNCHANGED outside
      PROVE  Agrees(p)'
  BY <1>4 DEF WriteInterrupted, provider, Agrees
<1>5. CASE Cancel
  BY <1>5 DEF Cancel, provider, Agrees
<1>6. ASSUME NEW sent \in SUBSET Families, Restart(sent)
      PROVE  Agrees(p)'
  <2>1. failures'[p] = 0 /\ due'[p] = 0 /\ ~lastErr'[p]
    BY <1>6 DEF Restart
  <2>2. status'[ProviderOf(p)] = "unseen"
    BY <1>6, SubjectsAreKinds DEF Restart
  <2> QED
    BY <2>1, <2>2 DEF Agrees
<1>7. CASE UNCHANGED vars
  BY <1>7 DEF vars, provider, Agrees
<1> QED
  BY <1>1, <1>2, <1>3, <1>4, <1>5, <1>6, <1>7, StepCases

\* The count of failures, the error to repeat, the reported status, the
\* forgotten addresses and the backoff of a provider never disagree.
THEOREM FailuresAgree == Spec => []FailureIsConsistent
<1>1. Init => FailureIsConsistent
  <2> SUFFICES ASSUME Init, NEW p \in Providers
               PROVE  Agrees(p)
    BY DEF FailureIsConsistent, Agrees
  <2>1. failures[p] = 0 /\ due[p] = 0 /\ ~lastErr[p]
    BY DEF Init
  <2>2. status[ProviderOf(p)] = "unseen"
    BY SubjectsAreKinds DEF Init
  <2> QED
    BY <2>1, <2>2 DEF Agrees
<1>2. TypeOK /\ FailureIsConsistent /\ [Next]_vars => FailureIsConsistent'
  BY AgreesStep DEF FailureIsConsistent, Agrees
<1> QED
  BY <1>1, <1>2, TypeCorrect, PTL DEF Spec

-----------------------------------------------------------------------------
(* An instance implements RecordKeeper.                                    *)

LEMMA BeliefIsTyped == TypeOK => Belief \in [Providers -> [Families -> Maybe]]
  BY NothingIsMaybe DEF Belief, TypeOK

\* Whatever counts as the belief, update sends no family that a keeper with
\* that belief would not send.
LEMMA ChangedIsMissing ==
  ASSUME TypeOK, NEW p \in Providers
  PROVE  /\ Changed(p) \subseteq Keeper!Missing(p, addrs)
         /\ ~cancelled => Changed(p) = Keeper!Missing(p, addrs)
<1>1. CASE cancelled
  <2>1. Belief[p] = Nothing
    BY <1>1 DEF Belief
  <2> QED
    BY <1>1, <2>1 DEF Changed, Found, Keeper!Missing, Nothing
<1>2. CASE ~cancelled
  <2>1. Belief[p] = last[p]
    BY <1>2 DEF Belief
  <2> QED
    BY <1>2, <2>1 DEF Changed, Found, Keeper!Missing
<1> QED
  BY <1>1, <1>2 DEF TypeOK

\* What a write does to the records is what the keeper's Overwrite does.
LEMMA ApplyIsOverwrite ==
  ASSUME NEW sent, Apply(sent)
  PROVE  record' = [record EXCEPT ![idx] = Keeper!Overwrite(@, addrs, sent)]
  BY DEF Apply, Keeper!Overwrite

LEMMA IgnoranceIsNothing == Keeper!Ignorance = Nothing
  BY DEF Keeper!Ignorance, Nothing

\* A step that forgets everything, with what of a write reached the record.
LEMMA ForgetStep ==
  ASSUME TypeOK, idx \in Providers,
         NEW sent \in SUBSET Families, sent \subseteq Changed(idx), Apply(sent),
         Belief' = [p \in Providers |-> Nothing]
  PROVE  Keeper!Next
<1>1. addrs \in [Families -> Keeper!Maybe]
  BY DEF TypeOK, Maybe, Keeper!Maybe
<1>2. Keeper!Forget(idx, addrs, sent)
  BY ChangedIsMissing, ApplyIsOverwrite, IgnoranceIsNothing DEF Keeper!Forget
<1> QED
  BY <1>1, <1>2 DEF Keeper!Next

\* The same when nothing reached a record.
LEMMA ForgetOnly ==
  ASSUME TypeOK, UNCHANGED record, Belief' = [p \in Providers |-> Nothing]
  PROVE  Keeper!Next
<1>1. 1 \in Providers
  BY CountAssumption DEF Providers
<1>2. Nothing \in [Families -> Keeper!Maybe]
  BY NothingIsMaybe DEF Maybe, Keeper!Maybe
<1>3. Keeper!Overwrite(record[1], Nothing, {}) = record[1]
  BY <1>1 DEF Keeper!Overwrite, TypeOK
<1>4. record' = [record EXCEPT ![1] = Keeper!Overwrite(@, Nothing, {})]
  BY <1>1, <1>3 DEF TypeOK
<1>5. Keeper!Forget(1, Nothing, {})
  BY <1>4, IgnoranceIsNothing DEF Keeper!Forget
<1> QED
  BY <1>1, <1>2, <1>5 DEF Keeper!Next

LEMMA KeeperInit == Init => Keeper!Init
  BY DEF Init, Belief, Keeper!Init, Keeper!Ignorance, Keeper!Maybe, Maybe,
         Nothing

LEMMA KeeperStep == TypeOK /\ [Next]_vars => [Keeper!Next]_<<Belief, record>>
<1> SUFFICES ASSUME TypeOK, [Next]_vars
             PROVE  Keeper!Next \/ UNCHANGED <<Belief, record>>
  BY DEF Keeper!keeperVars
<1>0. addrs \in [Families -> Keeper!Maybe]
  BY DEF TypeOK, Maybe, Keeper!Maybe
<1>1. CASE Idle
  BY <1>1, IdleKeepsMemory DEF Belief
<1>2. CASE WriteOK /\ UNCHANGED outside
  <2>1. idx \in Providers /\ Apply(Changed(idx)) /\ cancelled' = cancelled
    BY <1>2 DEF WriteOK, TypeOK, outside
  <2>2. CASE cancelled
    <3>1. Belief' = [p \in Providers |-> Nothing]
      BY <2>1, <2>2 DEF Belief
    <3>2. Changed(idx) \in SUBSET Families
      BY DEF Changed, Found
    <3> QED
      BY <2>1, <3>1, <3>2, ForgetStep
  <2>3. CASE ~cancelled
    <3>1. Belief = last /\ Belief' = last'
      BY <2>1, <2>3 DEF Belief
    <3>2. Changed(idx) = Keeper!Missing(idx, addrs)
      BY <2>1, <2>3, ChangedIsMissing
    <3>3. last' = [last EXCEPT ![idx] =
                      Keeper!Overwrite(@, addrs, Changed(idx))]
      BY <1>2 DEF WriteOK, Keeper!Overwrite
    <3>4. Keeper!Accept(idx, addrs)
      BY <2>1, <3>1, <3>2, <3>3, ApplyIsOverwrite DEF Keeper!Accept
    <3> QED
      BY <1>0, <2>1, <3>4 DEF Keeper!Next
  <2> QED
    BY <2>2, <2>3
<1>3. ASSUME NEW sent \in SUBSET Families, WriteFailed(sent), UNCHANGED outside
      PROVE  Keeper!Next
  <2>1. idx \in Providers /\ Apply(sent) /\ sent \subseteq Changed(idx)
    BY <1>3 DEF WriteFailed, TypeOK
  <2>2. Belief = last /\ Belief' = last'
    BY <1>3 DEF WriteFailed, outside, Belief
  <2>3. last' = [last EXCEPT ![idx] = Keeper!Ignorance]
    BY <1>3, IgnoranceIsNothing DEF WriteFailed, AfterFailure
  <2>4. Keeper!Fail(idx, addrs, sent)
    BY <2>1, <2>2, <2>3, ApplyIsOverwrite, ChangedIsMissing DEF Keeper!Fail
  <2> QED
    BY <1>0, <2>1, <2>4 DEF Keeper!Next
<1>4. ASSUME NEW sent \in SUBSET Families,
             WriteInterrupted(sent), UNCHANGED outside
      PROVE  Keeper!Next
  <2>1. idx \in Providers /\ Apply(sent) /\ sent \subseteq Changed(idx)
    BY <1>4 DEF WriteInterrupted, TypeOK
  <2>2. Belief' = [p \in Providers |-> Nothing]
    BY <1>4 DEF WriteInterrupted, outside, Belief
  <2> QED
    BY <2>1, <2>2, ForgetStep
<1>5. CASE Cancel
  <2>1. UNCHANGED record /\ Belief' = [p \in Providers |-> Nothing]
    BY <1>5 DEF Cancel, Belief
  <2> QED
    BY <2>1, ForgetOnly
<1>6. ASSUME NEW sent \in SUBSET Families, Restart(sent)
      PROVE  Keeper!Next
  <2>1. Belief' = [p \in Providers |-> Nothing]
    BY <1>6 DEF Restart, Belief
  <2>2. CASE sent = {}
    BY <1>6, <2>1, <2>2, ForgetOnly DEF Restart
  <2>3. CASE sent # {}
    <3>1. pc = "writing" /\ sent \subseteq Changed(idx) /\ Apply(sent)
      BY <1>6, <2>3 DEF Restart
    <3>2. idx \in Providers
      BY <3>1 DEF TypeOK
    <3> QED
      BY <2>1, <3>1, <3>2, ForgetStep
  <2> QED
    BY <2>2, <2>3
<1>7. CASE UNCHANGED vars
  BY <1>7 DEF vars, provider, outside, Belief
<1> QED
  BY <1>1, <1>2, <1>3, <1>4, <1>5, <1>6, <1>7, StepCases

\* Every instance keeps its records as RecordKeeper promises: it writes only
\* what it does not believe to be there, believes only what was accepted, and
\* believes nothing after a failed write, a shutdown or a restart.
THEOREM KeeperRefinement == Spec => KeepsRecords
<1>1. Keeper!Spec <=> (Keeper!Init /\ [][Keeper!Next]_<<Belief, record>>)
  BY DEF Keeper!Spec, Keeper!keeperVars
<1> QED
  BY <1>1, KeeperInit, KeeperStep, TypeCorrect, PTL DEF Spec, KeepsRecords

-----------------------------------------------------------------------------
(* What RecordKeeper promises, and so every instance keeps.                *)

KeeperTypes ==
    /\ Belief \in [Providers -> [Families -> Keeper!Maybe]]
    /\ record \in [Providers -> [Families -> Keeper!Maybe]]

KeeperInv == KeeperTypes /\ Keeper!BeliefsHold

LEMMA OverwriteTyped ==
  ASSUME NEW old \in [Families -> Keeper!Maybe],
         NEW new \in [Families -> Keeper!Maybe], NEW sent
  PROVE  Keeper!Overwrite(old, new, sent) \in [Families -> Keeper!Maybe]
  BY DEF Keeper!Overwrite

LEMMA IgnoranceTyped == Keeper!Ignorance \in [Families -> Keeper!Maybe]
  BY DEF Keeper!Ignorance, Keeper!Maybe

LEMMA KeeperInitInv == Keeper!Init => KeeperInv
  BY IgnoranceTyped DEF Keeper!Init, KeeperInv, KeeperTypes,
     Keeper!BeliefsHold, Keeper!Ignorance

LEMMA KeeperStepInv ==
  KeeperInv /\ [Keeper!Next]_Keeper!keeperVars => KeeperInv'
<1> SUFFICES ASSUME KeeperTypes, Keeper!BeliefsHold,
                    [Keeper!Next]_Keeper!keeperVars
             PROVE  KeeperInv'
  BY DEF KeeperInv
<1>1. CASE UNCHANGED Keeper!keeperVars
  BY <1>1 DEF Keeper!keeperVars, KeeperInv, KeeperTypes, Keeper!BeliefsHold
<1> SUFFICES ASSUME NEW p \in Providers, NEW new \in [Families -> Keeper!Maybe],
                    \/ Keeper!Accept(p, new)
                    \/ \E sent \in SUBSET Families :
                          \/ Keeper!Fail(p, new, sent)
                          \/ Keeper!Forget(p, new, sent)
             PROVE  KeeperInv'
  BY <1>1 DEF Keeper!Next
<1> USE DEF KeeperTypes
<1>2. CASE Keeper!Accept(p, new)
  <2>1. KeeperTypes'
    BY <1>2, OverwriteTyped DEF Keeper!Accept
  <2>2. ASSUME NEW q \in Providers, NEW f \in Families
        PROVE  Belief'[q][f] \in {Unknown, record'[q][f]}
    <3>1. CASE q = p
      BY <1>2, <3>1 DEF Keeper!Accept, Keeper!Overwrite, Keeper!BeliefsHold
    <3>2. CASE q # p
      BY <1>2, <3>2 DEF Keeper!Accept, Keeper!BeliefsHold
    <3> QED
      BY <3>1, <3>2
  <2> QED
    BY <2>1, <2>2 DEF KeeperInv, Keeper!BeliefsHold
<1>3. ASSUME NEW sent \in SUBSET Families, Keeper!Fail(p, new, sent)
      PROVE  KeeperInv'
  <2>1. KeeperTypes'
    BY <1>3, OverwriteTyped, IgnoranceTyped DEF Keeper!Fail
  <2>2. ASSUME NEW q \in Providers, NEW f \in Families
        PROVE  Belief'[q][f] \in {Unknown, record'[q][f]}
    <3>1. CASE q = p
      BY <1>3, <3>1 DEF Keeper!Fail, Keeper!Ignorance
    <3>2. CASE q # p
      BY <1>3, <3>2 DEF Keeper!Fail, Keeper!BeliefsHold
    <3> QED
      BY <3>1, <3>2
  <2> QED
    BY <2>1, <2>2 DEF KeeperInv, Keeper!BeliefsHold
<1>4. ASSUME NEW sent \in SUBSET Families, Keeper!Forget(p, new, sent)
      PROVE  KeeperInv'
  <2>1. KeeperTypes'
    BY <1>4, OverwriteTyped, IgnoranceTyped DEF Keeper!Forget
  <2> QED
    BY <1>4, <2>1 DEF KeeperInv, Keeper!BeliefsHold, Keeper!Forget,
       Keeper!Ignorance
<1> QED
  BY <1>2, <1>3, <1>4

\* RecordKeeper: an address that is believed to be published is the one in the
\* record, after any accepted, failed or interrupted writes.
THEOREM KeeperKnows == Keeper!Spec => []Keeper!BeliefsHold
<1>1. KeeperInv => Keeper!BeliefsHold
  BY DEF KeeperInv
<1> QED
  BY KeeperInitInv, KeeperStepInv, <1>1, PTL DEF Keeper!Spec

=============================================================================
