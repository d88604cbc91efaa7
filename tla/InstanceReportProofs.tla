------------------------ MODULE InstanceReportProofs ------------------------
(***************************************************************************)
(* What an instance reports, through its events and through its status     *)
(* file, is true: proofs for every number of retrievers and providers,     *)
(* every set of addresses and every choice of times.                       *)
(***************************************************************************)
EXTENDS InstanceProofs, InstanceHealth

\* Every step, one disjunct for each action of Instance.
LEMMA NextCases ==
  ASSUME [Next]_vars
  PROVE  \/ /\ UNCHANGED outside /\ age' = 0
            /\ \/ Start \/ BeginTick \/ Stop \/ TakeTick \/ WakeCancelled
               \/ Fetch \/ SkipRetriever \/ EndRetrieve
               \/ \E got \in SUBSET Families : FetchOK(got)
               \/ FetchFailed \/ FetchInterrupted
               \/ UpToDate \/ BackingOff \/ Write \/ WriteOK \/ EndUpdate
               \/ \E sent \in SUBSET Families :
                     WriteFailed(sent) \/ WriteInterrupted(sent)
               \/ RunHooks \/ SkipHooks
         \/ Elapse \/ Cancel \/ CalmDown
         \/ \E f \in Families, a \in Addr : ChangeAddress(f, a)
         \/ \E sent \in SUBSET Families : Restart(sent)
         \/ UNCHANGED vars
  BY DEF Next, Program, Run, Retrieve, Update, Hooks, Environment, Terminated

-----------------------------------------------------------------------------
(* Shutdown.                                                               *)

\* Only Fetch and Write begin an attempt, and neither does when cancelled.
LEMMA NoAttemptStep ==
  [Next]_vars =>
      (cancelled /\ cancelled' /\ pc' \in {"fetching", "writing"} => pc' = pc)
<1> SUFFICES ASSUME [Next]_vars, cancelled, cancelled',
                    pc' \in {"fetching", "writing"}
             PROVE  pc' = pc
  OBVIOUS
<1>1. CASE Start \/ BeginTick \/ Stop \/ TakeTick \/ WakeCancelled
  BY <1>1 DEF Start, BeginTick, Stop, TakeTick, WakeCancelled
<1>2. CASE Fetch \/ SkipRetriever \/ EndRetrieve \/ FetchFailed
           \/ FetchInterrupted \/ \E got \in SUBSET Families : FetchOK(got)
  BY <1>2 DEF Fetch, MoreRetrievers, SkipRetriever, EndRetrieve, FetchFailed,
              FetchInterrupted, FetchOK
<1>3. CASE UpToDate \/ BackingOff \/ Write \/ WriteOK \/ EndUpdate
           \/ \E sent \in SUBSET Families :
                 WriteFailed(sent) \/ WriteInterrupted(sent)
  BY <1>3 DEF UpToDate, BackingOff, Write, MoreProviders, WriteOK, EndUpdate,
              WriteFailed, WriteInterrupted
<1>4. CASE RunHooks \/ SkipHooks
  BY <1>4 DEF RunHooks, SkipHooks
<1>5. CASE Elapse \/ Cancel \/ CalmDown
           \/ \E f \in Families, a \in Addr : ChangeAddress(f, a)
  BY <1>5 DEF Elapse, Cancel, CalmDown, ChangeAddress
<1>6. CASE \E sent \in SUBSET Families : Restart(sent)
  BY <1>6 DEF Restart
<1>7. CASE UNCHANGED vars
  BY <1>7 DEF vars
<1> QED
  BY <1>1, <1>2, <1>3, <1>4, <1>5, <1>6, <1>7, NextCases

\* retrieve and update look at the context before every attempt: once it is
\* cancelled no retrieval and no write begins.
THEOREM NothingBeginsAfterCancel == Spec => NoAttemptAfterCancel
  BY NoAttemptStep, PTL DEF Spec, NoAttemptAfterCancel

\* observe keeps what subscribers believe once the context is cancelled.
LEMMA ObserveIsQuiet ==
  ASSUME cancelled, NEW s, NEW failed, Observe(s, failed)
  PROVE  UNCHANGED told
  BY DEF Observe, Emits

LEMMA QuietStep ==
  TypeOK /\ [Next]_vars => (cancelled /\ cancelled' => UNCHANGED view)
<1> SUFFICES ASSUME TypeOK, [Next]_vars, cancelled, cancelled'
             PROVE  UNCHANGED view
  OBVIOUS
<1> USE DEF view
<1>1. CASE Start
  BY <1>1 DEF Start, Emits
<1>2. CASE BeginTick \/ Stop \/ TakeTick \/ WakeCancelled
           \/ Fetch \/ SkipRetriever \/ EndRetrieve \/ FetchInterrupted
  BY <1>2 DEF BeginTick, Stop, TakeTick, WakeCancelled, Fetch, SkipRetriever,
              EndRetrieve, FetchInterrupted
<1>3. CASE FetchFailed \/ \E got \in SUBSET Families : FetchOK(got)
  BY <1>3, ObserveIsQuiet DEF FetchFailed, FetchOK
<1>4. CASE UpToDate \/ BackingOff \/ Write
           \/ \E sent \in SUBSET Families : WriteInterrupted(sent)
  BY <1>4 DEF UpToDate, BackingOff, Write, WriteInterrupted
<1>5. CASE WriteOK \/ \E sent \in SUBSET Families : WriteFailed(sent)
  BY <1>5, ObserveIsQuiet DEF WriteOK, WriteFailed
<1>6. CASE EndUpdate
  <2>1. announced' = [p \in Providers |-> [f \in Families |-> announced[p][f]]]
    BY <1>6 DEF EndUpdate, EmitChanges, Announce, Emits
  <2>2. announced' = announced
    BY <2>1 DEF TypeOK
  <2> QED
    BY <1>6, <2>2 DEF EndUpdate
<1>7. CASE RunHooks \/ SkipHooks
  BY <1>7 DEF RunHooks, SkipHooks
<1>8. CASE Elapse \/ Cancel \/ CalmDown
           \/ \E f \in Families, a \in Addr : ChangeAddress(f, a)
  BY <1>8 DEF Elapse, Cancel, CalmDown, ChangeAddress
<1>9. CASE \E sent \in SUBSET Families : Restart(sent)
  BY <1>9 DEF Restart
<1>10. CASE UNCHANGED vars
  BY <1>10 DEF vars
<1> QED
  BY <1>1, <1>2, <1>3, <1>4, <1>5, <1>6, <1>7, <1>8, <1>9, <1>10, NextCases

\* emit drops every event once the context is cancelled: what the shutdown
\* interrupts changes no subscriber's view.
THEOREM ShutdownIsQuiet == Spec => QuietShutdown
  BY QuietStep, TypeCorrect, PTL DEF Spec, QuietShutdown

-----------------------------------------------------------------------------
(* Status events.                                                          *)

\* SubscriberKnows is not inductive: run empties what its subscribers believe,
\* which is right only because a starting instance has observed nothing yet.
SilentStart == pc = "starting" => status = [s \in Subjects |-> "unseen"]
KnowledgeInv == SilentStart /\ SubscriberKnows

\* A transition that is reported, or none, keeps the two maps in agreement.
LEMMA ObserveKeepsKnowledge ==
  ASSUME TypeOK, ~cancelled,
         \A s \in Subjects : told[s] = (status[s] = "failed"),
         NEW t \in Subjects, NEW failed \in BOOLEAN, Observe(t, failed)
  PROVE  \A s \in Subjects : told'[s] = (status'[s] = "failed")
<1> SUFFICES ASSUME NEW s \in Subjects
             PROVE  told'[s] = (status'[s] = "failed")
  OBVIOUS
<1>1. CASE s # t
  BY <1>1 DEF Observe, TypeOK
<1>2. CASE s = t
  <2>1. status'[s] = IF failed THEN "failed" ELSE "ok"
    BY <1>2 DEF Observe, TypeOK
  <2>2. CASE IsNews(status[s], failed)
    <3>1. told'[s] = failed
      BY <1>2, <2>2 DEF Observe, Emits, TypeOK
    <3> QED
      BY <2>1, <3>1
  <2>3. CASE ~IsNews(status[s], failed)
    <3>1. told'[s] = told[s] /\ told[s] = (status[s] = "failed")
      BY <1>2, <2>3 DEF Observe, Emits, TypeOK
    <3>2. failed = (status[s] = "failed")
      BY <2>3 DEF IsNews
    <3> QED
      BY <2>1, <3>1, <3>2
  <2> QED
    BY <2>2, <2>3
<1> QED
  BY <1>1, <1>2

LEMMA KnowledgeStep == TypeOK /\ KnowledgeInv /\ [Next]_vars => KnowledgeInv'
<1> SUFFICES ASSUME TypeOK, KnowledgeInv, [Next]_vars
             PROVE  KnowledgeInv'
  OBVIOUS
<1> USE DEF KnowledgeInv, SilentStart, SubscriberKnows
<1>1. CASE Start /\ UNCHANGED outside
  <2>1. ASSUME ~cancelled', NEW s \in Subjects
        PROVE  told'[s] = (status'[s] = "failed")
    <3>1. ~cancelled /\ told' = [t \in Subjects |-> FALSE]
      BY <1>1, <2>1 DEF Start, Emits, outside
    <3>2. status' = [t \in Subjects |-> "unseen"]
      BY <1>1 DEF Start
    <3> QED
      BY <3>1, <3>2
  <2> QED
    BY <1>1, <2>1 DEF Start
<1>2. CASE /\ UNCHANGED outside
           /\ BeginTick \/ Stop \/ TakeTick \/ WakeCancelled
              \/ Fetch \/ SkipRetriever \/ EndRetrieve \/ FetchInterrupted
  BY <1>2 DEF BeginTick, Stop, TakeTick, WakeCancelled, Fetch, SkipRetriever,
              EndRetrieve, FetchInterrupted, view, outside
<1>3. CASE /\ UNCHANGED outside
           /\ UpToDate \/ BackingOff \/ Write \/ EndUpdate \/ SkipHooks
              \/ \E sent \in SUBSET Families : WriteInterrupted(sent)
  BY <1>3 DEF UpToDate, BackingOff, Write, EndUpdate, SkipHooks,
              WriteInterrupted, view, outside
<1>4. ASSUME UNCHANGED outside, NEW t \in Subjects, NEW failed \in BOOLEAN,
             Observe(t, failed), pc # "starting", pc' # "starting"
      PROVE  KnowledgeInv'
  BY <1>4, ObserveKeepsKnowledge DEF outside
<1>5. CASE /\ UNCHANGED outside
           /\ FetchFailed \/ \E got \in SUBSET Families : FetchOK(got)
  <2>1. RetrieverOf(idx) \in Subjects
    BY <1>5, SubjectsAreKinds DEF FetchFailed, FetchOK, TypeOK
  <2> QED
    BY <1>4, <1>5, <2>1 DEF FetchFailed, FetchOK
<1>6. CASE /\ UNCHANGED outside
           /\ WriteOK \/ \E sent \in SUBSET Families : WriteFailed(sent)
  <2>1. ProviderOf(idx) \in Subjects
    BY <1>6, SubjectsAreKinds DEF WriteOK, WriteFailed, TypeOK
  <2> QED
    BY <1>4, <1>6, <2>1 DEF WriteOK, WriteFailed
<1>7. CASE RunHooks /\ UNCHANGED outside
  BY <1>4, <1>7, SubjectsAreKinds DEF RunHooks, TypeOK
<1>8. CASE Elapse \/ Cancel \/ CalmDown
           \/ \E f \in Families, a \in Addr : ChangeAddress(f, a)
  BY <1>8 DEF Elapse, Cancel, CalmDown, ChangeAddress, view
<1>9. CASE \E sent \in SUBSET Families : Restart(sent)
  BY <1>9 DEF Restart
<1>10. CASE UNCHANGED vars
  BY <1>10 DEF vars, view, outside
<1> QED
  BY <1>1, <1>2, <1>3, <1>5, <1>6, <1>7, <1>8, <1>9, <1>10, NextCases

\* observe reports transitions only, and says nothing of a first success; yet
\* a subscriber that gets every event since the instance started knows of each
\* retriever, each provider and the instance whether it is failing now.
THEOREM SubscribersKnow == Spec => []SubscriberKnows
<1>1. Init => KnowledgeInv
  BY DEF Init, KnowledgeInv, SilentStart, SubscriberKnows
<1>2. KnowledgeInv => SubscriberKnows
  BY DEF KnowledgeInv
<1> QED
  BY <1>1, <1>2, KnowledgeStep, TypeCorrect, PTL DEF Spec

-----------------------------------------------------------------------------
(* Address changes.                                                        *)

\* ChangesAreAnnounced and OldIsTrue need each other, and more: a starting
\* instance believes nothing; changes are only collected by update, for the
\* providers it has passed; and a write under way when the context is
\* cancelled still ends, so what is known before it has to hold then too.
Collected(p, f) == \E c \in changes : c.provider = p /\ c.family = f
Reported(p, f)  == last[p][f] \in {Unknown, announced[p][f]} \/ Collected(p, f)
FreshStart == pc = "starting" => last = [p \in Providers |-> Nothing]
OnlyInUpdate == pc \notin {"update", "writing"} => changes = {}
PassedOnly == \A c \in changes : c.provider < idx
AllReported ==
    pc # "starting" /\ (~cancelled \/ pc = "writing") =>
        \A p \in Providers, f \in Families : Reported(p, f)

AnnouncementInv ==
    FreshStart /\ OnlyInUpdate /\ PassedOnly /\ AllReported /\ OldIsTrue

\* A step that leaves beliefs, announcements and the collected changes alone.
LEMMA NothingCollected ==
  ASSUME AnnouncementInv, UNCHANGED <<last, announced, changes>>,
         changes # {} => idx' >= idx /\ idx' \in Nat,
         TypeOK,
         pc' = "starting" => pc = "starting",
         pc \in {"update", "writing"} => pc' \in {"update", "writing"},
         pc = "starting" => pc' = "starting",
         cancelled => cancelled',
         pc' = "writing" => ~cancelled \/ pc = "writing"
  PROVE  AnnouncementInv'
<1> USE DEF AnnouncementInv
<1>1. FreshStart' /\ OnlyInUpdate'
  BY DEF FreshStart, OnlyInUpdate
<1>2. PassedOnly'
  <2> SUFFICES ASSUME NEW c \in changes
               PROVE  c.provider < idx'
    BY DEF PassedOnly
  <2>1. c.provider \in Nat /\ c.provider < idx /\ idx \in Nat
    BY CountAssumption DEF PassedOnly, TypeOK, Providers
  <2> QED
    BY <2>1
<1>3. AllReported'
  BY DEF AllReported, Reported, Collected
<1>4. OldIsTrue'
  BY DEF OldIsTrue
<1> QED
  BY <1>1, <1>2, <1>3, <1>4

\* A write that is accepted: its changes start from what was announced.
LEMMA WriteOKAnnounces ==
  ASSUME TypeOK, AnnouncementInv, WriteOK, UNCHANGED outside
  PROVE  AnnouncementInv'
<1> USE DEF AnnouncementInv
<1>1. /\ pc = "writing" /\ pc' = "update" /\ idx \in Providers
      /\ idx' = idx + 1 /\ announced' = announced
      /\ changes' = changes \cup ChangesOf(idx)
      /\ idx \in Nat
  BY CountAssumption DEF WriteOK, TypeOK, Providers
<1>2. \A p \in Providers, f \in Families :
         last'[p][f] = IF p = idx /\ f \in Changed(idx) THEN addrs[f]
                                                       ELSE last[p][f]
  BY <1>1 DEF WriteOK, TypeOK
<1>3. \A c \in changes : c.provider \in Providers /\ c.family \in Families
                         /\ c.provider \in Nat /\ c.provider < idx
  BY CountAssumption DEF TypeOK, Providers, PassedOnly
<1>4. \A c \in ChangesOf(idx) :
         /\ c.provider = idx /\ c.family \in Changed(idx)
         /\ c.family \in Families /\ c.old = last[idx][c.family]
  BY DEF ChangesOf, Changed, Found
<1>5. FreshStart' /\ OnlyInUpdate'
  BY <1>1 DEF FreshStart, OnlyInUpdate
<1>6. PassedOnly'
  BY <1>1, <1>3, <1>4 DEF PassedOnly
<1>7. AllReported'
  <2> SUFFICES ASSUME NEW p \in Providers, NEW f \in Families
               PROVE  Reported(p, f)'
    BY DEF AllReported
  <2>1. Reported(p, f)
    BY <1>1 DEF AllReported
  <2>2. CASE p = idx /\ f \in Changed(idx)
    <3>1. [provider |-> p, family |-> f, old |-> last[p][f]] \in changes'
      BY <1>1, <2>2 DEF ChangesOf
    <3> QED
      BY <3>1 DEF Reported, Collected
  <2>3. CASE ~(p = idx /\ f \in Changed(idx))
    <3>1. last'[p][f] = last[p][f]
      BY <1>2, <2>3
    <3> QED
      BY <1>1, <2>1, <3>1 DEF Reported, Collected
  <2> QED
    BY <2>2, <2>3
<1>8. OldIsTrue'
  <2> SUFFICES ASSUME NEW c \in changes'
               PROVE  /\ c.old \in {Unknown, announced[c.provider][c.family]}
                      /\ last'[c.provider][c.family] \notin {Unknown, c.old}
    BY <1>1 DEF OldIsTrue
  <2>1. CASE c \in changes
    <3>1. last'[c.provider][c.family] = last[c.provider][c.family]
      BY <1>1, <1>2, <1>3, <2>1
    <3> QED
      BY <2>1, <3>1 DEF OldIsTrue
  <2>2. CASE c \in ChangesOf(idx)
    <3>1. Reported(idx, c.family) /\ ~Collected(idx, c.family)
      <4>1. Reported(idx, c.family)
        BY <1>1, <1>4, <2>2 DEF AllReported
      <4>2. ~Collected(idx, c.family)
        BY <1>1, <1>3 DEF Collected
      <4> QED
        BY <4>1, <4>2
    <3>2. last'[idx][c.family] = addrs[c.family]
      BY <1>1, <1>2, <1>4, <2>2
    <3>3. addrs[c.family] # Unknown /\ addrs[c.family] # last[idx][c.family]
      BY <1>4, <2>2 DEF Changed, Found
    <3> QED
      BY <1>4, <2>2, <3>1, <3>2, <3>3 DEF Reported
  <2> QED
    BY <1>1, <2>1, <2>2
<1> QED
  BY <1>5, <1>6, <1>7, <1>8

\* A write that fails leaves nothing to announce of its provider.
LEMMA WriteFailedAnnounces ==
  ASSUME TypeOK, AnnouncementInv, UNCHANGED outside,
         NEW sent \in SUBSET Families, WriteFailed(sent)
  PROVE  AnnouncementInv'
<1> USE DEF AnnouncementInv
<1>1. /\ pc = "writing" /\ pc' = "update" /\ idx \in Providers /\ idx \in Nat
      /\ idx' = idx + 1 /\ UNCHANGED <<announced, changes, cancelled>>
  BY CountAssumption
     DEF WriteFailed, AfterFailedWrite, TypeOK, Providers, outside
<1>2. \A p \in Providers, f \in Families :
         last'[p][f] = IF p = idx THEN Unknown ELSE last[p][f]
  BY <1>1 DEF WriteFailed, AfterFailure, Nothing, TypeOK
<1>3. \A c \in changes : c.provider \in Providers /\ c.family \in Families
                         /\ c.provider \in Nat /\ c.provider < idx
  BY CountAssumption DEF TypeOK, Providers, PassedOnly
<1>4. FreshStart' /\ OnlyInUpdate' /\ PassedOnly'
  BY <1>1, <1>3 DEF FreshStart, OnlyInUpdate, PassedOnly
<1>5. AllReported'
  BY <1>1, <1>2 DEF AllReported, Reported, Collected
<1>6. OldIsTrue'
  BY <1>1, <1>2, <1>3 DEF OldIsTrue
<1> QED
  BY <1>4, <1>5, <1>6

\* The end of update: what was collected is announced, unless it is dropped
\* because the context is cancelled.
LEMMA EndUpdateAnnounces ==
  ASSUME TypeOK, AnnouncementInv, EndUpdate, UNCHANGED outside
  PROVE  AnnouncementInv'
<1> USE DEF AnnouncementInv
<1>1. /\ pc = "update" /\ pc' = "hooks" /\ changes' = {}
      /\ UNCHANGED <<last, cancelled>>
  BY DEF EndUpdate, provider, outside
<1>2. ASSUME ~cancelled, NEW p \in Providers, NEW f \in Families
      PROVE  last[p][f] \in {Unknown, announced'[p][f]}
  <2>1. announced'[p][f] = IF Collected(p, f) THEN last[p][f]
                                              ELSE announced[p][f]
    BY <1>2 DEF EndUpdate, EmitChanges, Announce, Emits, Collected
  <2>2. Reported(p, f)
    BY <1>1, <1>2 DEF AllReported
  <2> QED
    BY <2>1, <2>2 DEF Reported
<1>3. AllReported'
  BY <1>1, <1>2 DEF AllReported, Reported
<1> QED
  BY <1>1, <1>3 DEF FreshStart, OnlyInUpdate, PassedOnly, OldIsTrue

LEMMA AnnouncementStep ==
  TypeOK /\ AnnouncementInv /\ [Next]_vars => AnnouncementInv'
<1> SUFFICES ASSUME TypeOK, AnnouncementInv, [Next]_vars
             PROVE  AnnouncementInv'
  OBVIOUS
<1>1. CASE Start /\ UNCHANGED outside
  <2>1. /\ changes' = {} /\ pc' = "loop"
        /\ last' = [p \in Providers |-> Nothing]
    BY <1>1 DEF Start, tick, provider, AnnouncementInv, FreshStart,
                OnlyInUpdate
  <2> QED
    BY <2>1 DEF AnnouncementInv, FreshStart, OnlyInUpdate, PassedOnly,
                AllReported, Reported, OldIsTrue, Nothing
<1>2. CASE BeginTick /\ UNCHANGED outside
  <2>1. pc = "loop" /\ pc' = "retrieve" /\ changes' = {}
        /\ UNCHANGED <<last, announced, cancelled>>
    BY <1>2 DEF BeginTick, view, outside
  <2>2. changes = {}
    BY <2>1 DEF AnnouncementInv, OnlyInUpdate
  <2> QED
    BY <2>1, <2>2 DEF AnnouncementInv, FreshStart, OnlyInUpdate, PassedOnly,
                      AllReported, Reported, Collected, OldIsTrue
<1>3. CASE /\ UNCHANGED outside
           /\ Stop \/ TakeTick \/ WakeCancelled \/ RunHooks \/ SkipHooks
  BY <1>3, NothingCollected
     DEF Stop, TakeTick, WakeCancelled, RunHooks, SkipHooks, tick, provider,
         view, outside, TypeOK
<1>4. CASE /\ UNCHANGED outside
           /\ Fetch \/ SkipRetriever \/ EndRetrieve \/ FetchFailed
              \/ FetchInterrupted \/ \E got \in SUBSET Families : FetchOK(got)
  <2>1. changes = {}
    BY <1>4 DEF Fetch, SkipRetriever, EndRetrieve, FetchFailed,
                FetchInterrupted, FetchOK, AnnouncementInv, OnlyInUpdate
  <2> QED
    BY <1>4, <2>1, NothingCollected
       DEF Fetch, SkipRetriever, EndRetrieve, FetchFailed, FetchInterrupted,
           FetchOK, provider, view, outside
<1>5. CASE /\ UNCHANGED outside
           /\ UpToDate \/ BackingOff \/ Write
              \/ \E sent \in SUBSET Families : WriteInterrupted(sent)
  BY <1>5, NothingCollected
     DEF UpToDate, BackingOff, Write, MoreProviders, WriteInterrupted, tick,
         provider, view, outside, TypeOK
<1>6. CASE WriteOK /\ UNCHANGED outside
  BY <1>6, WriteOKAnnounces
<1>7. CASE (\E sent \in SUBSET Families : WriteFailed(sent))
           /\ UNCHANGED outside
  BY <1>7, WriteFailedAnnounces
<1>8. CASE EndUpdate /\ UNCHANGED outside
  BY <1>8, EndUpdateAnnounces
<1>9. CASE Elapse \/ Cancel \/ CalmDown
           \/ \E f \in Families, a \in Addr : ChangeAddress(f, a)
  BY <1>9, NothingCollected
     DEF Elapse, Cancel, CalmDown, ChangeAddress, tick, provider, view, TypeOK
<1>10. CASE \E sent \in SUBSET Families : Restart(sent)
  BY <1>10 DEF Restart, AnnouncementInv, FreshStart, OnlyInUpdate, PassedOnly,
               AllReported, OldIsTrue
<1>11. CASE UNCHANGED vars
  BY <1>11, NothingCollected
     DEF vars, tick, provider, view, outside, TypeOK
<1> QED
  BY <1>1, <1>2, <1>3, <1>4, <1>5, <1>6, <1>7, <1>8, <1>9, <1>10, <1>11,
     NextCases

LEMMA AnnouncementInvariant == Spec => []AnnouncementInv
<1>1. Init => AnnouncementInv
  BY DEF Init, AnnouncementInv, FreshStart, OnlyInUpdate, PassedOnly,
         AllReported, OldIsTrue
<1> QED
  BY <1>1, AnnouncementStep, TypeCorrect, PTL DEF Spec

\* Whatever else fails in a tick, an address an instance believes to be
\* published has been announced by ip_change, or is about to be at the end of
\* the update that wrote it.
THEOREM PublishedIsAnnounced == Spec => []ChangesAreAnnounced
<1>1. AnnouncementInv => ChangesAreAnnounced
  BY DEF AnnouncementInv, AllReported, Reported, Collected, ChangesAreAnnounced
<1> QED
  BY <1>1, AnnouncementInvariant, PTL

\* AddressChange.Old never names an address that was not announced before, and
\* no change goes from an address to the same one.
THEOREM OldAddressesAreTrue == Spec => []OldIsTrue
<1>1. AnnouncementInv => OldIsTrue
  BY DEF AnnouncementInv
<1> QED
  BY <1>1, AnnouncementInvariant, PTL

-----------------------------------------------------------------------------
(* Outcomes.                                                               *)

\* FallbackExhausted, followed through the list of retrievers: each one that
\* retrieve has passed was called, or could not add anything.
Polled == \A r \in Retrievers :
             r < idx => r \in called \/ Supplies(r) \cap Need \subseteq Found

FallbackInv ==
    /\ pc \in {"retrieve", "fetching"} => Polled
    /\ pc = "fetching" => idx \in called
    /\ FallbackExhausted

\* Addresses that were found stay found until the next tick begins.
LEMMA FetchOKFinds ==
  ASSUME TypeOK, NEW got \in SUBSET Families, FetchOK(got)
  PROVE  Found \subseteq Found'
  BY DEF FetchOK, Found

LEMMA FallbackStep == TypeOK /\ FallbackInv /\ [Next]_vars => FallbackInv'
<1> SUFFICES ASSUME TypeOK, FallbackInv, [Next]_vars
             PROVE  FallbackInv'
  OBVIOUS
<1> USE DEF FallbackInv
<1>0. idx \in Nat /\ \A r \in Retrievers : r \in Nat
  BY CountAssumption DEF TypeOK, Retrievers
<1>1. CASE Start \/ Stop \/ TakeTick \/ WakeCancelled \/ RunHooks \/ SkipHooks
  BY <1>1 DEF Start, Stop, TakeTick, WakeCancelled, RunHooks, SkipHooks,
              FallbackExhausted
<1>2. CASE BeginTick
  BY <1>0, <1>2, CountAssumption
     DEF BeginTick, Polled, FallbackExhausted, Retrievers
<1>3. CASE Fetch
  BY <1>3 DEF Fetch, Polled, FallbackExhausted, Found
<1>4. CASE SkipRetriever
  <2>1. Polled'
    <3> SUFFICES ASSUME NEW r \in Retrievers, r < idx'
                 PROVE  r \in called \/ Supplies(r) \cap Need \subseteq Found
      BY <1>4 DEF SkipRetriever, Polled, Found
    <3>1. r < idx \/ r = idx
      BY <1>0, <1>4 DEF SkipRetriever
    <3>2. Supplies(idx) \cap Need \subseteq Found
      BY <1>4 DEF SkipRetriever, IsNeeded
    <3> QED
      BY <1>4, <3>1, <3>2 DEF SkipRetriever, Polled
  <2> QED
    BY <1>4, <2>1 DEF SkipRetriever, FallbackExhausted
<1>5. CASE EndRetrieve /\ UNCHANGED outside
  <2>1. ASSUME ~cancelled, NEW f \in Need \ Found, NEW r \in Retrievers,
               f \in Supplies(r)
        PROVE  r \in called
    <3>1. ~(idx \in Retrievers) /\ Polled
      BY <1>5, <2>1 DEF EndRetrieve, MoreRetrievers, Done
    <3>2. r < idx
      BY <1>0, <3>1, CountAssumption DEF Retrievers, TypeOK
    <3> QED
      BY <2>1, <3>1, <3>2 DEF Polled
  <2> QED
    BY <1>5, <2>1 DEF EndRetrieve, outside, FallbackExhausted, Found
<1>6. CASE \E got \in SUBSET Families : FetchOK(got)
  <2>1. PICK got \in SUBSET Families : FetchOK(got)
    BY <1>6
  <2>2. Found \subseteq Found' /\ idx \in called /\ Polled
    BY <2>1, FetchOKFinds DEF FetchOK
  <2>3. pc' = "retrieve" /\ idx' = idx + 1 /\ called' = called
    BY <2>1 DEF FetchOK
  <2>4. Polled'
    BY <1>0, <2>2, <2>3 DEF Polled
  <2> QED
    BY <2>3, <2>4 DEF FallbackExhausted
<1>7. CASE FetchFailed \/ FetchInterrupted
  <2>1. /\ pc = "fetching" /\ pc' = "retrieve" /\ idx' = idx + 1
        /\ UNCHANGED <<addrs, called>>
    BY <1>7 DEF FetchFailed, AfterFailedFetch, FetchInterrupted
  <2>2. Polled'
    BY <1>0, <2>1 DEF Polled, Found
  <2> QED
    BY <2>1, <2>2 DEF FallbackExhausted
<1>8. CASE UNCHANGED outside
           /\ (UpToDate \/ BackingOff \/ Write \/ WriteOK \/ EndUpdate
               \/ \E sent \in SUBSET Families :
                     WriteFailed(sent) \/ WriteInterrupted(sent))
  BY <1>8 DEF UpToDate, BackingOff, Write, WriteOK, EndUpdate, WriteFailed,
              WriteInterrupted, tick, outside, FallbackExhausted, Found
<1>9. CASE Elapse \/ Cancel \/ CalmDown
           \/ \E f \in Families, a \in Addr : ChangeAddress(f, a)
  BY <1>9 DEF Elapse, Cancel, CalmDown, ChangeAddress, tick, Polled, Found,
              FallbackExhausted
<1>10. CASE \E sent \in SUBSET Families : Restart(sent)
  BY <1>10 DEF Restart, FallbackExhausted
<1>11. CASE UNCHANGED vars
  BY <1>11 DEF vars, tick, outside, Polled, Found, FallbackExhausted
<1> QED
  BY <1>1, <1>2, <1>3, <1>4, <1>5, <1>6, <1>7, <1>8, <1>9, <1>10, <1>11,
     NextCases

\* update starts with a family missing only when every retriever that might
\* have supplied it was called in this tick, for all hints and any order.
THEOREM FallbackIsExhausted == Spec => []FallbackExhausted
<1>1. Init => FallbackInv
  BY DEF Init, FallbackInv, FallbackExhausted
<1>2. FallbackInv => FallbackExhausted
  BY DEF FallbackInv
<1> QED
  BY <1>1, <1>2, FallbackStep, TypeCorrect, PTL DEF Spec

-----------------------------------------------------------------------------

\* A success has to be followed through the tick. While no error has been
\* collected: the first retriever was not passed without finding anything, the
\* retrievers called have succeeded, and the providers passed hold what was
\* found. The end of the tick reports no more than that.
HostIsKnown == \A f \in Families : ip[f] = Unknown <=> f \notin Need

FoundOrFirst ==
    pc \in {"retrieve", "fetching"} /\ ~cancelled /\ ~errs =>
        Found # {} \/ idx = 1

UpdateHasFound == pc \in {"update", "writing"} => Found # {}

Fine(r) == status[RetrieverOf(r)] = "ok"
CalledAreFine ==
    /\ pc \in {"retrieve", "update", "writing", "hooks"} /\ ~cancelled /\ ~errs
          => \A r \in called : Fine(r)
    /\ pc = "fetching" /\ ~cancelled /\ ~errs
          => \A r \in called \ {idx} : Fine(r)
    /\ pc = "waiting" /\ ~cancelled /\ outcome = "ok"
          => \A r \in called : Fine(r)

Holds(p) == ~lastErr[p] /\ \A f \in Found : last[p][f] = addrs[f]
PassedHold ==
    /\ pc \in {"update", "writing"} /\ ~cancelled /\ ~errs
          => \A p \in Providers : p < idx => Holds(p)
    /\ pc = "hooks" /\ ~cancelled /\ ~errs => \A p \in Providers : Holds(p)
    /\ pc = "waiting" /\ ~cancelled /\ outcome = "ok"
          => \A p \in Providers : Holds(p)

OutcomeInv ==
    HostIsKnown /\ FoundOrFirst /\ UpdateHasFound /\ CalledAreFine /\ PassedHold

\* Every retriever may supply some family, and each of these is needed.
LEMMA SuppliesNeeded ==
  ASSUME NEW r \in Retrievers
  PROVE  Supplies(r) # {} /\ Supplies(r) \subseteq Need
  BY DEF Supplies, Need, Families

\* The addresses of the host stay those of the families asked for.
LEMMA HostStep == TypeOK /\ HostIsKnown /\ [Next]_vars => HostIsKnown'
<1> SUFFICES ASSUME TypeOK, HostIsKnown, [Next]_vars
             PROVE  HostIsKnown'
  OBVIOUS
<1>1. ASSUME NEW f \in Families, NEW a \in Addr, ChangeAddress(f, a)
      PROVE  HostIsKnown'
  BY <1>1, AddrAssumption DEF ChangeAddress, HostIsKnown, TypeOK
<1>2. ASSUME UNCHANGED ip
      PROVE  HostIsKnown'
  BY <1>2 DEF HostIsKnown
<1> QED
  BY <1>1, <1>2, NextCases DEF Elapse, Cancel, CalmDown, Restart, vars, outside

\* Steps of retrieve that find an address or collect an error.
LEMMA FoundOrFirstStep ==
  TypeOK /\ HostIsKnown /\ FoundOrFirst /\ [Next]_vars => FoundOrFirst'
<1> SUFFICES ASSUME TypeOK, HostIsKnown, FoundOrFirst, [Next]_vars
             PROVE  FoundOrFirst'
  OBVIOUS
<1> USE DEF FoundOrFirst
<1>1. CASE Start \/ Stop \/ TakeTick \/ WakeCancelled \/ RunHooks \/ SkipHooks
           \/ BeginTick \/ EndRetrieve \/ FetchFailed
  BY <1>1 DEF Start, Stop, TakeTick, WakeCancelled, RunHooks, SkipHooks,
              BeginTick, EndRetrieve, FetchFailed
<1>2. CASE UNCHANGED outside /\ (Fetch \/ FetchInterrupted)
  BY <1>2 DEF Fetch, FetchInterrupted, outside, Found
<1>3. CASE SkipRetriever /\ UNCHANGED outside
  <2>1. Supplies(idx) # {} /\ Supplies(idx) \cap Need = Supplies(idx)
    BY <1>3, SuppliesNeeded DEF SkipRetriever, MoreRetrievers
  <2>2. Supplies(idx) \cap Need \subseteq Found
    BY <1>3 DEF SkipRetriever, IsNeeded
  <2> QED
    BY <1>3, <2>1, <2>2 DEF SkipRetriever, Found
<1>4. ASSUME NEW got \in SUBSET Families, FetchOK(got)
      PROVE  FoundOrFirst'
  <2>1. PICK f \in Families : f \in got /\ f \in Need
    BY <1>4, SuppliesNeeded DEF FetchOK, TypeOK
  <2>2. ip[f] # Unknown
    BY <2>1 DEF HostIsKnown
  <2>3. f \in Found'
    BY <1>4, <2>1, <2>2 DEF FetchOK, Found
  <2> QED
    BY <2>3
<1>5. CASE UpToDate \/ BackingOff \/ Write \/ WriteOK \/ EndUpdate
           \/ \E sent \in SUBSET Families :
                 WriteFailed(sent) \/ WriteInterrupted(sent)
  BY <1>5 DEF UpToDate, BackingOff, Write, WriteOK, EndUpdate, WriteFailed,
              WriteInterrupted
<1>6. CASE Elapse \/ Cancel \/ CalmDown
           \/ \E f \in Families, a \in Addr : ChangeAddress(f, a)
  BY <1>6 DEF Elapse, Cancel, CalmDown, ChangeAddress, tick, Found
<1>7. CASE \E sent \in SUBSET Families : Restart(sent)
  BY <1>7 DEF Restart
<1>8. CASE UNCHANGED vars
  BY <1>8 DEF vars, tick, outside, Found
<1> QED
  BY <1>1, <1>2, <1>3, <1>4, <1>5, <1>6, <1>7, <1>8, NextCases

\* update is only entered with an address, and keeps those it has.
LEMMA UpdateHasFoundStep ==
  TypeOK /\ UpdateHasFound /\ [Next]_vars => UpdateHasFound'
<1> SUFFICES ASSUME TypeOK, UpdateHasFound, [Next]_vars
             PROVE  UpdateHasFound'
  OBVIOUS
<1> USE DEF UpdateHasFound
<1>1. CASE Start \/ Stop \/ TakeTick \/ WakeCancelled \/ RunHooks \/ SkipHooks
           \/ BeginTick
  BY <1>1 DEF Start, Stop, TakeTick, WakeCancelled, RunHooks, SkipHooks,
              BeginTick
<1>2. CASE Fetch \/ SkipRetriever \/ EndRetrieve \/ FetchFailed
           \/ FetchInterrupted \/ \E got \in SUBSET Families : FetchOK(got)
  BY <1>2 DEF Fetch, SkipRetriever, EndRetrieve, FetchFailed,
              FetchInterrupted, FetchOK, Found
<1>3. CASE UpToDate \/ BackingOff \/ Write \/ WriteOK \/ EndUpdate
           \/ \E sent \in SUBSET Families :
                 WriteFailed(sent) \/ WriteInterrupted(sent)
  BY <1>3 DEF UpToDate, BackingOff, Write, WriteOK, EndUpdate, WriteFailed,
              WriteInterrupted, tick, Found
<1>4. CASE Elapse \/ Cancel \/ CalmDown
           \/ \E f \in Families, a \in Addr : ChangeAddress(f, a)
  BY <1>4 DEF Elapse, Cancel, CalmDown, ChangeAddress, tick, Found
<1>5. CASE \E sent \in SUBSET Families : Restart(sent)
  BY <1>5 DEF Restart
<1>6. CASE UNCHANGED vars
  BY <1>6 DEF vars, tick, Found
<1> QED
  BY <1>1, <1>2, <1>3, <1>4, <1>5, <1>6, NextCases

\* A step that observes another subject leaves a retriever's status alone.
LEMMA OtherSubjectsAreFine ==
  ASSUME TypeOK, NEW s \in Subjects, NEW failed, Observe(s, failed),
         NEW r \in Retrievers, s # RetrieverOf(r)
  PROVE  Fine(r)' <=> Fine(r)
  BY DEF Observe, Fine, TypeOK

LEMMA RetrieversDiffer ==
  /\ \A r \in Retrievers, p \in Providers : ProviderOf(p) # RetrieverOf(r)
  /\ \A r \in Retrievers : TheInstance # RetrieverOf(r)
  /\ \A r, q \in Retrievers : RetrieverOf(r) = RetrieverOf(q) => r = q
  BY DEF RetrieverOf, ProviderOf, TheInstance

\* While no error was collected, no retriever called has failed.
LEMMA CalledAreFineStep ==
  TypeOK /\ CalledAreFine /\ [Next]_vars => CalledAreFine'
<1> SUFFICES ASSUME TypeOK, CalledAreFine, [Next]_vars
             PROVE  CalledAreFine'
  OBVIOUS
<1>0. called \subseteq Retrievers
  BY DEF TypeOK
<1>1. CASE Start \/ Stop \/ TakeTick \/ WakeCancelled \/ BeginTick
  BY <1>1 DEF Start, Stop, TakeTick, WakeCancelled, BeginTick, CalledAreFine
<1>2. CASE UNCHANGED outside
           /\ (Fetch \/ SkipRetriever \/ EndRetrieve \/ FetchInterrupted)
  BY <1>2 DEF Fetch, SkipRetriever, EndRetrieve, FetchInterrupted, outside,
              CalledAreFine, Fine
<1>3. CASE FetchFailed
  BY <1>3 DEF FetchFailed, CalledAreFine
<1>4. ASSUME UNCHANGED outside, NEW got \in SUBSET Families, FetchOK(got)
      PROVE  CalledAreFine'
  <2>1. /\ pc = "fetching" /\ pc' = "retrieve" /\ UNCHANGED <<errs, called>>
        /\ idx \in Retrievers /\ Observe(RetrieverOf(idx), FALSE)
    BY <1>4 DEF FetchOK, TypeOK
  <2>2. RetrieverOf(idx) \in Subjects
    BY <2>1, SubjectsAreKinds
  <2>3. ASSUME NEW r \in called, r = idx
        PROVE  Fine(r)'
    BY <2>1, <2>2, <2>3 DEF Observe, Fine, TypeOK
  <2>4. ASSUME NEW r \in called \ {idx}, Fine(r)
        PROVE  Fine(r)'
    BY <1>0, <2>1, <2>2, <2>4, RetrieversDiffer, OtherSubjectsAreFine
  <2> QED
    BY <1>4, <2>1, <2>3, <2>4 DEF CalledAreFine, outside
<1>5. CASE UNCHANGED outside
           /\ (UpToDate \/ BackingOff \/ Write \/ EndUpdate
               \/ \E sent \in SUBSET Families : WriteInterrupted(sent))
  BY <1>5 DEF UpToDate, BackingOff, Write, EndUpdate, WriteInterrupted, tick,
              outside, CalledAreFine, Fine
<1>6. CASE UNCHANGED outside /\ WriteOK
  <2>1. /\ pc = "writing" /\ pc' = "update" /\ UNCHANGED <<errs, called>>
        /\ Observe(ProviderOf(idx), FALSE) /\ idx \in Providers
    BY <1>6 DEF WriteOK, TypeOK
  <2>2. ASSUME NEW r \in called
        PROVE  Fine(r)' <=> Fine(r)
    BY <1>0, <2>1, RetrieversDiffer, SubjectsAreKinds, OtherSubjectsAreFine
  <2> QED
    BY <1>6, <2>1, <2>2 DEF CalledAreFine, outside
<1>7. CASE \E sent \in SUBSET Families : WriteFailed(sent)
  BY <1>7 DEF WriteFailed, CalledAreFine
<1>8. CASE UNCHANGED outside /\ RunHooks
  <2>1. /\ pc = "hooks" /\ pc' = "waiting" /\ UNCHANGED called
        /\ Observe(TheInstance, errs) /\ (outcome' = "ok" => ~errs)
    BY <1>8 DEF RunHooks, tick
  <2>2. ASSUME NEW r \in called
        PROVE  Fine(r)' <=> Fine(r)
    BY <1>0, <2>1, RetrieversDiffer, SubjectsAreKinds, OtherSubjectsAreFine
  <2> QED
    BY <1>8, <2>1, <2>2 DEF CalledAreFine, outside
<1>9. CASE UNCHANGED outside /\ SkipHooks
  BY <1>9 DEF SkipHooks, outside, CalledAreFine
<1>10. CASE Elapse \/ Cancel \/ CalmDown
            \/ \E f \in Families, a \in Addr : ChangeAddress(f, a)
  BY <1>10 DEF Elapse, Cancel, CalmDown, ChangeAddress, tick, view,
               CalledAreFine, Fine
<1>11. CASE \E sent \in SUBSET Families : Restart(sent)
  BY <1>11 DEF Restart, CalledAreFine
<1>12. CASE UNCHANGED vars
  BY <1>12 DEF vars, tick, view, outside, CalledAreFine, Fine
<1> QED
  BY <1>1, <1>2, <1>3, <1>4, <1>5, <1>6, <1>7, <1>8, <1>9, <1>10, <1>11,
     <1>12, NextCases

\* A provider that is skipped because it has everything has not failed: a
\* failure makes its instance forget what it has.
LEMMA UpToDateHolds ==
  ASSUME TypeOK, FailureIsConsistent, Found # {}, idx \in Providers,
         Changed(idx) = {}
  PROVE  Holds(idx)
<1>1. \A f \in Found : last[idx][f] = addrs[f]
  BY DEF Changed
<1>2. ~lastErr[idx]
  <2>1. PICK f \in Found : TRUE
    OBVIOUS
  <2>2. last[idx][f] # Unknown /\ f \in Families
    BY <1>1, <2>1 DEF Found
  <2> QED
    BY <2>2 DEF FailureIsConsistent, Nothing
<1> QED
  BY <1>1, <1>2 DEF Holds

\* While no error was collected, the providers passed hold what was found.
LEMMA PassedHoldStep ==
  TypeOK /\ FailureIsConsistent /\ FoundOrFirst /\ UpdateHasFound /\ PassedHold
  /\ [Next]_vars => PassedHold'
<1> SUFFICES ASSUME TypeOK, FailureIsConsistent, FoundOrFirst, UpdateHasFound,
                    PassedHold, [Next]_vars
             PROVE  PassedHold'
  OBVIOUS
<1>0. idx \in Nat /\ \A p \in Providers : p \in Nat /\ p >= 1 /\ p <= NP
  BY CountAssumption DEF TypeOK, Providers
<1>1. CASE Start \/ Stop \/ TakeTick \/ WakeCancelled \/ BeginTick
           \/ Fetch \/ SkipRetriever \/ FetchFailed \/ FetchInterrupted
           \/ \E got \in SUBSET Families : FetchOK(got)
  BY <1>1 DEF Start, Stop, TakeTick, WakeCancelled, BeginTick, Fetch,
              SkipRetriever, FetchFailed, FetchInterrupted, FetchOK,
              PassedHold
<1>2. CASE UNCHANGED outside /\ EndRetrieve
  <2>1. pc = "retrieve" /\ idx' = 1 /\ UNCHANGED <<errs, cancelled, addrs>>
        /\ pc' = IF Found = {} THEN "hooks" ELSE "update"
    BY <1>2 DEF EndRetrieve, outside
  <2>2. ~cancelled /\ ~errs => Found # {}
    <3> SUFFICES ASSUME ~cancelled, ~errs, Found = {}
                 PROVE  FALSE
      OBVIOUS
    <3>1. idx \in Retrievers
      BY <2>1, CountAssumption DEF FoundOrFirst, Retrievers
    <3>2. Need \subseteq Found
      BY <1>2, <3>1 DEF EndRetrieve, MoreRetrievers, Done
    <3> QED
      BY <3>1, <3>2, SuppliesNeeded
  <2> QED
    BY <1>0, <2>1, <2>2 DEF PassedHold
<1>3. CASE UNCHANGED outside /\ UpToDate
  <2>1. /\ pc = "update" /\ pc' = "update" /\ idx' = idx + 1
        /\ idx \in Providers /\ Changed(idx) = {}
        /\ UNCHANGED <<errs, cancelled, addrs, last, lastErr>>
    BY <1>3 DEF UpToDate, MoreProviders, outside, provider
  <2>2. Holds(idx) /\ \A p \in Providers : Holds(p)' <=> Holds(p)
    BY <2>1, UpToDateHolds DEF UpdateHasFound, Holds, Found
  <2> QED
    BY <1>0, <2>1, <2>2 DEF PassedHold
<1>4. CASE BackingOff
  <2>1. idx \in Providers /\ due[idx] > 0 /\ errs' = (errs \/ lastErr[idx])
        /\ pc' = "update"
    BY <1>4 DEF BackingOff, MoreProviders, SkipError
  <2> QED
    BY <2>1 DEF FailureIsConsistent, PassedHold
<1>5. CASE UNCHANGED outside /\ Write
  BY <1>5 DEF Write, tick, provider, outside, PassedHold, Holds, Found
<1>6. CASE UNCHANGED outside /\ WriteOK
  <2>1. /\ pc = "writing" /\ pc' = "update" /\ idx' = idx + 1
        /\ idx \in Providers /\ UNCHANGED <<errs, cancelled, addrs>>
    BY <1>6 DEF WriteOK, TypeOK, outside
  <2>2. ASSUME NEW p \in Providers, p = idx
        PROVE  Holds(p)'
    <3>1. ~lastErr'[p]
      BY <1>6, <2>2 DEF WriteOK, TypeOK
    <3>2. ASSUME NEW f \in Found
          PROVE  last'[p][f] = addrs[f]
      BY <1>6, <2>2 DEF WriteOK, TypeOK, Changed, Found
    <3> QED
      BY <2>1, <3>1, <3>2 DEF Holds, Found
  <2>3. \A p \in Providers : p # idx => (Holds(p)' <=> Holds(p))
    BY <1>6, <2>1 DEF WriteOK, TypeOK, Holds, Found
  <2> QED
    BY <1>0, <2>1, <2>2, <2>3 DEF PassedHold
<1>7. CASE \E sent \in SUBSET Families : WriteFailed(sent)
  BY <1>7 DEF WriteFailed, PassedHold
<1>8. CASE UNCHANGED outside
           /\ \E sent \in SUBSET Families : WriteInterrupted(sent)
  BY <1>8 DEF WriteInterrupted, outside, PassedHold
<1>9. CASE UNCHANGED outside /\ EndUpdate
  <2>1. /\ pc = "update" /\ pc' = "hooks"
        /\ UNCHANGED <<errs, cancelled, addrs, last, lastErr>>
        /\ cancelled \/ idx \notin Providers
    BY <1>9 DEF EndUpdate, MoreProviders, outside, provider
  <2>2. \A p \in Providers : Holds(p)' <=> Holds(p)
    BY <2>1 DEF Holds, Found
  <2>3. ~cancelled => \A p \in Providers : p < idx
    BY <1>0, <2>1, CountAssumption DEF Providers, TypeOK
  <2> QED
    BY <2>1, <2>2, <2>3 DEF PassedHold
<1>10. CASE UNCHANGED outside /\ (RunHooks \/ SkipHooks)
  BY <1>10 DEF RunHooks, SkipHooks, tick, provider, outside, PassedHold, Holds,
               Found
<1>11. CASE Elapse \/ Cancel \/ CalmDown
            \/ \E f \in Families, a \in Addr : ChangeAddress(f, a)
  BY <1>11 DEF Elapse, Cancel, CalmDown, ChangeAddress, tick, provider, view,
               PassedHold, Holds, Found
<1>12. CASE \E sent \in SUBSET Families : Restart(sent)
  BY <1>12 DEF Restart, PassedHold
<1>13. CASE UNCHANGED vars
  BY <1>13 DEF vars, tick, provider, view, outside, PassedHold, Holds, Found
<1> QED
  BY <1>1, <1>2, <1>3, <1>4, <1>5, <1>6, <1>7, <1>8, <1>9, <1>10, <1>11,
     <1>12, <1>13, NextCases

LEMMA OutcomeInvariant == Spec => []OutcomeInv
<1>1. Init => OutcomeInv
  BY DEF Init, OutcomeInv, HostIsKnown, FoundOrFirst, UpdateHasFound,
         CalledAreFine, PassedHold
<1>2. TypeOK /\ FailureIsConsistent /\ OutcomeInv /\ [Next]_vars => OutcomeInv'
  BY HostStep, FoundOrFirstStep, UpdateHasFoundStep, CalledAreFineStep,
     PassedHoldStep DEF OutcomeInv
<1> QED
  BY <1>1, <1>2, TypeCorrect, FailuresAgree, PTL DEF Spec

\* A cycle is only reported as a success when none of the providers is in a
\* failed state, the records of all of them hold every address that was found,
\* and no retriever that was called has failed.
THEOREM SuccessIsPublication == Spec => []SuccessMeansPublished
<1>1. TypeOK /\ BeliefIsTrue /\ OutcomeInv => SuccessMeansPublished
  <2> SUFFICES ASSUME TypeOK, BeliefIsTrue, OutcomeInv,
                      pc = "waiting", ~cancelled, outcome = "ok"
               PROVE  /\ \A p \in Providers : ~lastErr[p]
                      /\ \A p \in Providers, f \in Found :
                            record[p][f] = addrs[f]
                      /\ \A r \in called : status[RetrieverOf(r)] = "ok"
    BY DEF SuccessMeansPublished
  <2>1. \A p \in Providers : Holds(p)
    BY DEF OutcomeInv, PassedHold
  <2>2. \A r \in called : Fine(r)
    BY DEF OutcomeInv, CalledAreFine
  <2>3. ASSUME NEW p \in Providers, NEW f \in Found
        PROVE  record[p][f] = addrs[f]
    BY <2>1 DEF Holds, BeliefIsTrue, Found
  <2> QED
    BY <2>1, <2>2, <2>3 DEF Holds, Fine
<1> QED
  BY <1>1, OutcomeInvariant, BeliefsAreTrue, TypeCorrect, PTL

-----------------------------------------------------------------------------
(* The status file.                                                        *)

\* The longest that n attempts in a row take, each with what is done after it.
Spent(n) == n * (AttemptTimeout + HookTimeout)

\* The longest that a cycle works: every retriever, every provider, and hooks.
LongestWork == Spent(NR) + Spent(NP) + 3 * HookTimeout

\* The longest time from the end of a cycle to the end of the next one: the
\* wait for the ticker comes first.
LongestCycle == Interval + Spent(NR) + Spent(NP) + 3 * HookTimeout

\* No step takes longer than its timeout, and no list is left by more than one.
InBounds ==
    /\ age \in Nat
    /\ pc \in {"fetching", "writing"} => age <= AttemptTimeout
    /\ pc \in {"retrieve", "update", "hooks"} => age <= HookTimeout
    /\ pc = "retrieve" => idx <= NR + 1
    /\ pc = "update" => idx <= NP + 1

\* The age of the file and what may still remain of the cycle together never
\* exceed the longest cycle; while the instance waits, the ticker bounds it.
Fresh ==
    /\ pc = "waiting" =>
          fileAge + (IF tickPending THEN 0 ELSE phase) <= Interval
    /\ pc = "loop" => fileAge <= Interval
    /\ pc = "retrieve" =>
          fileAge + (HookTimeout - age) + Spent(NR + 1 - idx) + Spent(NP)
              + 2 * HookTimeout <= LongestCycle
    /\ pc = "fetching" =>
          fileAge + (AttemptTimeout - age) + Spent(NR - idx) + Spent(NP)
              + 3 * HookTimeout <= LongestCycle
    /\ pc = "update" =>
          fileAge + (HookTimeout - age) + Spent(NP + 1 - idx) + HookTimeout
              <= LongestCycle
    /\ pc = "writing" =>
          fileAge + (AttemptTimeout - age) + Spent(NP - idx) + 2 * HookTimeout
              <= LongestCycle
    /\ pc = "hooks" => fileAge + (HookTimeout - age) <= LongestCycle

FreshInv ==
    /\ InBounds
    /\ fileAge \in Nat \cup {Untouched}
    /\ pc = "starting" => fileAge = Untouched
    /\ pc = "stopped" => cancelled
    /\ ~cancelled /\ fileAge # Untouched => Fresh

\* One more attempt takes one more timeout.
LEMMA SpentStep ==
  /\ \A n \in Nat : Spent(n) \in Nat
  /\ \A n \in Nat : Spent(n + 1) = Spent(n) + AttemptTimeout + HookTimeout
<1>1. AttemptTimeout + HookTimeout \in Nat
  BY TimeAssumption
<1>2. ASSUME NEW n \in Nat, NEW k \in Nat
      PROVE  n * k \in Nat /\ (n + 1) * k = n * k + k
  OBVIOUS
<1> QED
  BY <1>1, <1>2, TimeAssumption DEF Spent

LEMMA OneAttemptLess ==
  ASSUME NEW m \in Nat, NEW i \in 1..m
  PROVE  /\ Spent(m - i) \in Nat
         /\ Spent(m + 1 - i) = Spent(m - i) + AttemptTimeout + HookTimeout
         /\ Spent(m + 1 - (i + 1)) = Spent(m - i)
<1>1. m - i \in Nat /\ m + 1 - i = (m - i) + 1 /\ m + 1 - (i + 1) = m - i
  OBVIOUS
<1>2. Spent((m - i) + 1) = Spent(m - i) + AttemptTimeout + HookTimeout
  BY <1>1, SpentStep
<1> QED
  BY <1>1, <1>2, SpentStep

\* Apart from time, every step moves the goroutine or changes the outside.
LEMMA OnlyElapseIsTime ==
  ASSUME TypeOK, Next, TimePasses
  PROVE  Elapse
<1>1. idx \in Nat /\ restarts \in Nat
  BY TimeAssumption DEF TypeOK
<1>2. CASE Start \/ BeginTick \/ Stop \/ TakeTick \/ WakeCancelled
           \/ Fetch \/ FetchFailed \/ FetchInterrupted
           \/ \E got \in SUBSET Families : FetchOK(got)
  BY <1>2 DEF Start, BeginTick, Stop, TakeTick, WakeCancelled, Fetch,
              FetchFailed, FetchInterrupted, FetchOK, TimePasses
<1>3. CASE SkipRetriever \/ UpToDate \/ BackingOff
  BY <1>1, <1>3 DEF SkipRetriever, UpToDate, BackingOff, TimePasses
<1>4. CASE EndRetrieve
  BY <1>4 DEF EndRetrieve, TimePasses
<1>5. CASE Write \/ WriteOK \/ EndUpdate \/ RunHooks \/ SkipHooks
           \/ \E sent \in SUBSET Families :
                 WriteFailed(sent) \/ WriteInterrupted(sent)
  BY <1>5 DEF Write, WriteOK, EndUpdate, RunHooks, SkipHooks, WriteFailed,
              WriteInterrupted, TimePasses
<1>6. CASE Cancel \/ CalmDown \/ Terminated
  BY <1>6 DEF Cancel, CalmDown, Terminated, TimePasses
<1>7. CASE \E f \in Families, a \in Addr : ChangeAddress(f, a)
  BY <1>7 DEF ChangeAddress, TypeOK, TimePasses
<1>8. CASE \E sent \in SUBSET Families : Restart(sent)
  BY <1>1, <1>8 DEF Restart, TimePasses
<1> QED
  BY <1>2, <1>3, <1>4, <1>5, <1>6, <1>7, <1>8
     DEF Next, Program, Run, Retrieve, Update, Hooks, Environment

\* Only a restart makes another process of it.
LEMMA RestartCases ==
  ASSUME TypeOK, Next, restarts' # restarts
  PROVE  /\ pc' = "starting" /\ idx' = 1 /\ age' = 0 /\ ~cancelled'
<1>1. ~Program /\ ~Elapse /\ ~Cancel /\ ~CalmDown /\ ~Terminated
  BY DEF Program, Elapse, Cancel, CalmDown, Terminated, outside, vars
<1>2. ~ \E f \in Families, a \in Addr : ChangeAddress(f, a)
  BY DEF ChangeAddress
<1>3. \E sent \in SUBSET Families : Restart(sent)
  BY <1>1, <1>2 DEF Next, Environment
<1> QED
  BY <1>3 DEF Restart

\* Only a report touches the file.
LEMMA FileAgeCases ==
  ASSUME TypeOK, fileAge \in Nat \cup {Untouched}, HealthNext,
         restarts' = restarts
  PROVE  \/ pc = "hooks" /\ pc' = "waiting" /\ fileAge' = 0
         \/ /\ Elapse /\ fileAge # Untouched
            /\ fileAge' \in Nat /\ fileAge' <= fileAge + 1
         \/ fileAge' = fileAge
<1>1. CASE pc = "hooks" /\ pc' = "waiting" /\ ~cancelled
  BY <1>1 DEF HealthNext, TimePasses
<1>2. CASE ~(pc = "hooks" /\ pc' = "waiting" /\ ~cancelled) /\ ~TimePasses
  BY <1>2 DEF HealthNext
<1>3. CASE ~(pc = "hooks" /\ pc' = "waiting" /\ ~cancelled) /\ TimePasses
  <2>1. \/ fileAge' = fileAge
        \/ (fileAge # Untouched /\ fileAge' = Smaller(fileAge + 1, AgeCap))
    BY <1>3 DEF HealthNext
  <2>2. Elapse
    BY <1>3, OnlyElapseIsTime DEF HealthNext
  <2> QED
    BY <2>1, <2>2, HealthAssumption DEF Smaller
<1> QED
  BY <1>1, <1>2, <1>3

\* The path of the goroutine through a cycle.
Path ==
    \/ pc = "starting" /\ pc' = "loop"
    \/ pc = "loop" /\ pc' = "stopped" /\ cancelled
    \/ pc = "loop" /\ pc' = "retrieve" /\ idx' = 1
    \/ pc = "retrieve" /\ pc' = "fetching" /\ idx' = idx
    \/ pc = "retrieve" /\ pc' = "retrieve" /\ idx' = idx + 1
       /\ idx \in Retrievers
    \/ pc = "retrieve" /\ pc' \in {"update", "hooks"} /\ idx' = 1
    \/ pc = "fetching" /\ pc' = "retrieve" /\ idx' = idx + 1
    \/ pc = "update" /\ pc' = "writing" /\ idx' = idx
    \/ pc = "update" /\ pc' = "update" /\ idx' = idx + 1
       /\ idx \in Providers
    \/ pc = "update" /\ pc' = "hooks"
    \/ pc = "writing" /\ pc' = "update" /\ idx' = idx + 1
    \/ pc = "hooks" /\ pc' = "waiting"
    \/ pc = "waiting" /\ pc' = "loop" /\ (tickPending \/ cancelled)

LEMMA ProgramFollowsPath == Program => Path
<1> SUFFICES ASSUME Program PROVE Path
  OBVIOUS
<1>1. CASE Run
  BY <1>1 DEF Run, Start, BeginTick, Stop, GoesOn, TakeTick, WakeCancelled,
              Path
<1>2. CASE Fetch \/ SkipRetriever \/ EndRetrieve
  BY <1>2 DEF Fetch, SkipRetriever, EndRetrieve, MoreRetrievers, Path
<1>3. CASE FetchFailed \/ FetchInterrupted
           \/ \E got \in SUBSET Families : FetchOK(got)
  BY <1>3 DEF FetchFailed, FetchInterrupted, FetchOK, AfterFailedFetch, Path
<1>4. CASE UpToDate \/ Write \/ EndUpdate
  BY <1>4 DEF UpToDate, Write, EndUpdate, MoreProviders, tick, Path
<1>7. CASE BackingOff
  BY <1>7 DEF BackingOff, MoreProviders, Path
<1>5. CASE WriteOK \/ \E sent \in SUBSET Families :
                         WriteFailed(sent) \/ WriteInterrupted(sent)
  BY <1>5 DEF WriteOK, WriteFailed, WriteInterrupted, AfterFailedWrite, Path
<1>6. CASE Hooks
  BY <1>6 DEF Hooks, RunHooks, SkipHooks, Path
<1> QED
  BY <1>1, <1>2, <1>3, <1>4, <1>5, <1>6, <1>7 DEF Program, Retrieve, Update

\* Every other step leaves it where it is.
LEMMA OthersStay ==
  ASSUME TypeOK, Environment \/ Terminated, restarts' = restarts
  PROVE  /\ pc' = pc /\ idx' = idx
         /\ Elapse \/ UNCHANGED <<age, phase, tickPending>>
         /\ cancelled => cancelled'
<1>1. CASE Elapse
  BY <1>1 DEF Elapse, tick
<1>2. CASE Cancel \/ CalmDown \/ Terminated
           \/ \E f \in Families, a \in Addr : ChangeAddress(f, a)
  BY <1>2 DEF Cancel, CalmDown, Terminated, ChangeAddress, vars, tick, ticker,
              outside
<1>3. ~ \E sent \in SUBSET Families : Restart(sent)
  BY TimeAssumption DEF Restart, TypeOK
<1> QED
  BY <1>1, <1>2, <1>3 DEF Environment

\* The bounds of a cycle are kept by every step of it.
LEMMA InBoundsStep ==
  ASSUME TypeOK, InBounds, Next
  PROVE  InBounds'
<1> USE TimeAssumption, CountAssumption
<1>1. idx \in Nat \ {0} /\ (pc = "fetching" => idx \in 1..NR)
      /\ (pc = "writing" => idx \in 1..NP)
  BY DEF TypeOK, Retrievers, Providers
<1>2. CASE Program
  <2>1. Path /\ age' = 0
    BY <1>2, ProgramFollowsPath DEF Program
  <2> QED
    BY <1>1, <2>1 DEF Path, Retrievers, Providers, InBounds
<1>3. CASE Elapse
  BY <1>3 DEF Elapse, CanElapse, InBounds, tick
<1>4. CASE (Environment \/ Terminated) /\ ~Elapse /\ restarts' = restarts
  BY <1>4, OthersStay DEF InBounds
<1>5. CASE restarts' # restarts
  BY <1>5, RestartCases DEF InBounds
<1> QED
  BY <1>2, <1>3, <1>4, <1>5 DEF Next

\* What remains of a list takes some time or none.
LEMMA TheRestTakesTime ==
  ASSUME TypeOK, InBounds
  PROVE  /\ Spent(NR) \in Nat /\ Spent(NP) \in Nat
         /\ pc = "retrieve" => Spent(NR + 1 - idx) \in Nat
         /\ pc = "fetching" => Spent(NR - idx) \in Nat
         /\ pc = "update" => Spent(NP + 1 - idx) \in Nat
         /\ pc = "writing" => Spent(NP - idx) \in Nat
         /\ LongestCycle \in Nat
<1>1. NR \in Nat /\ NP \in Nat
  BY CountAssumption
<1>2. /\ pc = "retrieve" => NR + 1 - idx \in Nat
      /\ pc = "fetching" => NR - idx \in Nat
      /\ pc = "update" => NP + 1 - idx \in Nat
      /\ pc = "writing" => NP - idx \in Nat
  BY <1>1 DEF TypeOK, InBounds, Retrievers, Providers
<1>3. Spent(NR) \in Nat /\ Spent(NP) \in Nat
  BY <1>1, SpentStep
<1>4. LongestCycle \in Nat
  BY <1>3, TimeAssumption DEF LongestCycle
<1> QED
  BY <1>2, <1>3, <1>4, SpentStep

\* Each step of a cycle takes its time from what remains.
LEMMA FreshStep ==
  ASSUME TypeOK, TypeOK', FreshInv, HealthNext, restarts' = restarts,
         ~cancelled', fileAge' # Untouched
  PROVE  Fresh'
<1>a. /\ Interval \in Nat /\ AttemptTimeout \in Nat /\ HookTimeout \in Nat
      /\ NR \in Nat /\ NP \in Nat
  BY TimeAssumption, CountAssumption
<1>0. /\ InBounds /\ InBounds' /\ fileAge \in Nat \cup {Untouched}
      /\ idx \in Nat /\ phase \in 1..Interval
      /\ age \in Nat /\ age' \in Nat /\ LongestCycle \in Nat
  BY InBoundsStep, TheRestTakesTime DEF FreshInv, HealthNext, TypeOK
<1>1. ~cancelled
  BY OthersStay DEF HealthNext, Next, Program, outside
<1>2. CASE Program
  <2>1. Path /\ age' = 0 /\ UNCHANGED phase
    BY <1>2, ProgramFollowsPath DEF Program, outside
  <2>2. ~Elapse
    BY <1>0, <2>1 DEF Path, Elapse, tick
  <2>3. pc = "hooks" \/ fileAge' = fileAge
    BY <1>0, <2>2, FileAgeCases
  <2>4. pc # "hooks" => Fresh /\ fileAge \in Nat
    BY <1>0, <1>1, <2>3 DEF FreshInv
  <2> USE <1>a, <1>0, <1>1, <2>1, <2>3, <2>4
  <2>5. CASE pc = "starting"
    BY <2>5 DEF FreshInv
  <2>6. CASE pc = "loop"
    <3>1. pc' = "retrieve" /\ idx' = 1 /\ fileAge <= Interval
      BY <2>6 DEF Path, Fresh
    <3>2. fileAge' + (HookTimeout - age') + Spent(NR + 1 - idx') + Spent(NP)
              + 2 * HookTimeout <= LongestCycle
      BY <2>6, <3>1, TheRestTakesTime DEF LongestCycle
    <3> QED
      BY <3>1, <3>2 DEF Fresh
  <2>7. CASE pc = "retrieve"
    <3>1. fileAge + (HookTimeout - age) + Spent(NR + 1 - idx) + Spent(NP)
              + 2 * HookTimeout <= LongestCycle
      BY <2>7 DEF Fresh
    <3>2. age <= HookTimeout /\ Spent(NP) \in Nat
          /\ Spent(NR + 1 - idx) \in Nat
      BY <2>7, TheRestTakesTime DEF InBounds
    <3>3. CASE pc' \in {"fetching", "retrieve"}
      <4>1. idx \in 1..NR
        BY <2>7, <3>3 DEF Path, TypeOK, Retrievers
      <4>2. /\ Spent(NR - idx) \in Nat
            /\ Spent(NR + 1 - idx)
                   = Spent(NR - idx) + AttemptTimeout + HookTimeout
            /\ Spent(NR + 1 - (idx + 1)) = Spent(NR - idx)
        BY <4>1, OneAttemptLess
      <4>3. CASE pc' = "fetching"
        <5>1. idx' = idx
          BY <2>7, <4>3 DEF Path
        <5>2. fileAge' + (AttemptTimeout - age') + Spent(NR - idx')
                  + Spent(NP) + 3 * HookTimeout <= LongestCycle
          BY <2>7, <3>1, <3>2, <4>2, <5>1
        <5> QED
          BY <4>3, <5>2 DEF Fresh
      <4>4. CASE pc' = "retrieve"
        <5>1. idx' = idx + 1
          BY <2>7, <4>4 DEF Path
        <5>2. fileAge' + (HookTimeout - age') + Spent(NR + 1 - idx')
                  + Spent(NP) + 2 * HookTimeout <= LongestCycle
          BY <2>7, <3>1, <3>2, <4>2, <5>1
        <5> QED
          BY <4>4, <5>2 DEF Fresh
      <4> QED
        BY <3>3, <4>3, <4>4
    <3>4. CASE pc' = "update" /\ idx' = 1
      BY <2>7, <3>1, <3>2, <3>4 DEF Fresh
    <3>5. CASE pc' = "hooks"
      BY <2>7, <3>1, <3>2, <3>5 DEF Fresh
    <3> QED
      BY <2>7, <3>3, <3>4, <3>5 DEF Path
  <2>8. CASE pc = "fetching"
    <3>1. fileAge + (AttemptTimeout - age) + Spent(NR - idx) + Spent(NP)
              + 3 * HookTimeout <= LongestCycle
      BY <2>8 DEF Fresh
    <3>2. pc' = "retrieve" /\ idx' = idx + 1 /\ idx \in 1..NR
      BY <2>8 DEF Path, TypeOK, Retrievers
    <3>3. /\ age <= AttemptTimeout /\ Spent(NP) \in Nat
          /\ Spent(NR - idx) \in Nat
          /\ Spent(NR + 1 - idx') = Spent(NR - idx)
      BY <2>8, <3>2, OneAttemptLess, TheRestTakesTime DEF InBounds
    <3>4. fileAge' + (HookTimeout - age') + Spent(NR + 1 - idx') + Spent(NP)
              + 2 * HookTimeout <= LongestCycle
      BY <2>8, <3>1, <3>3
    <3> QED
      BY <3>2, <3>4 DEF Fresh
  <2>9. CASE pc = "update"
    <3>1. fileAge + (HookTimeout - age) + Spent(NP + 1 - idx) + HookTimeout
              <= LongestCycle
      BY <2>9 DEF Fresh
    <3>2. age <= HookTimeout /\ Spent(NP + 1 - idx) \in Nat
      BY <2>9, TheRestTakesTime DEF InBounds
    <3>3. CASE pc' \in {"writing", "update"}
      <4>1. idx \in 1..NP
        BY <2>9, <3>3 DEF Path, TypeOK, Providers
      <4>2. /\ Spent(NP - idx) \in Nat
            /\ Spent(NP + 1 - idx)
                   = Spent(NP - idx) + AttemptTimeout + HookTimeout
            /\ Spent(NP + 1 - (idx + 1)) = Spent(NP - idx)
        BY <4>1, OneAttemptLess
      <4>3. CASE pc' = "writing"
        <5>1. idx' = idx
          BY <2>9, <4>3 DEF Path
        <5>2. fileAge' + (AttemptTimeout - age') + Spent(NP - idx')
                  + 2 * HookTimeout <= LongestCycle
          BY <2>9, <3>1, <3>2, <4>2, <5>1
        <5> QED
          BY <4>3, <5>2 DEF Fresh
      <4>4. CASE pc' = "update"
        <5>1. idx' = idx + 1
          BY <2>9, <4>4 DEF Path
        <5>2. fileAge' + (HookTimeout - age') + Spent(NP + 1 - idx')
                  + HookTimeout <= LongestCycle
          BY <2>9, <3>1, <3>2, <4>2, <5>1
        <5> QED
          BY <4>4, <5>2 DEF Fresh
      <4> QED
        BY <3>3, <4>3, <4>4
    <3>4. CASE pc' = "hooks"
      BY <2>9, <3>1, <3>2, <3>4 DEF Fresh
    <3> QED
      BY <2>9, <3>3, <3>4 DEF Path
  <2>10. CASE pc = "writing"
    <3>1. fileAge + (AttemptTimeout - age) + Spent(NP - idx)
              + 2 * HookTimeout <= LongestCycle
      BY <2>10 DEF Fresh
    <3>2. pc' = "update" /\ idx' = idx + 1 /\ idx \in 1..NP
      BY <2>10 DEF Path, TypeOK, Providers
    <3>3. /\ age <= AttemptTimeout /\ Spent(NP - idx) \in Nat
          /\ Spent(NP + 1 - idx') = Spent(NP - idx)
      BY <2>10, <3>2, OneAttemptLess, TheRestTakesTime DEF InBounds
    <3>4. fileAge' + (HookTimeout - age') + Spent(NP + 1 - idx')
              + HookTimeout <= LongestCycle
      BY <2>10, <3>1, <3>3
    <3> QED
      BY <3>2, <3>4 DEF Fresh
  <2>11. CASE pc = "hooks"
    <3>1. pc' = "waiting"
      BY <2>11 DEF Path
    <3>2. fileAge' = 0
      BY <1>1, <2>11, <3>1 DEF HealthNext, TimePasses
    <3> QED
      BY <3>1, <3>2 DEF Fresh
  <2>12. CASE pc = "waiting"
    BY <2>12 DEF Path, Fresh
  <2> QED
    BY <2>5, <2>6, <2>7, <2>8, <2>9, <2>10, <2>11, <2>12 DEF Path
<1>3. CASE Elapse
  <2>1. /\ CanElapse /\ pc' = pc /\ idx' = idx
        /\ age' = IF pc = "waiting" THEN 0 ELSE age + 1
        /\ phase' = IF phase = 1 THEN Interval ELSE phase - 1
    BY <1>3 DEF Elapse, tick
  <2>2. PICK g \in Nat :
            fileAge \in Nat /\ fileAge' = g /\ g <= fileAge + 1
    BY <1>0, <2>1, FileAgeCases DEF Untouched
  <2>3. Fresh
    BY <1>1, <2>2 DEF FreshInv, Untouched
  <2>4. Interval \in Nat /\ phase \in Nat /\ age \in Nat
    BY <1>a, <1>0
  <2>5. CASE pc = "waiting"
    <3>1. ~tickPending /\ fileAge + phase <= Interval
      BY <2>1, <2>3, <2>5 DEF CanElapse, Fresh
    <3>2. CASE phase = 1
      <4>1. g <= Interval
        BY <2>2, <2>4, <3>1, <3>2
      <4>2. tickPending' = TRUE
        BY <1>3, <3>2 DEF Elapse
      <4> QED
        BY <2>1, <2>2, <2>4, <2>5, <4>1, <4>2 DEF Fresh
    <3>3. CASE phase # 1
      <4>1. tickPending' = FALSE
        BY <1>3, <3>1, <3>3 DEF Elapse
      <4>2. g + phase' <= Interval
        BY <2>1, <2>2, <2>4, <3>1, <3>3
      <4> QED
        BY <2>1, <2>2, <2>5, <4>1, <4>2 DEF Fresh
    <3> QED
      BY <3>2, <3>3
  <2>6. CASE pc \in {"retrieve", "update", "hooks"}
    <3>1. age' = age + 1 /\ age < HookTimeout
      BY <2>1, <2>6 DEF CanElapse
    <3> USE <1>0, <1>a, <2>1, <2>2, <2>3, <3>1
    <3>2. CASE pc = "retrieve"
      BY <3>2, TheRestTakesTime DEF Fresh
    <3>3. CASE pc = "update"
      BY <3>3, TheRestTakesTime DEF Fresh
    <3>4. CASE pc = "hooks"
      BY <3>4, TheRestTakesTime DEF Fresh
    <3> QED
      BY <2>6, <3>2, <3>3, <3>4
  <2>7. CASE pc \in {"fetching", "writing"}
    <3>1. age' = age + 1 /\ age < AttemptTimeout
      BY <2>1, <2>7 DEF CanElapse
    <3> USE <1>0, <1>a, <2>1, <2>2, <2>3, <3>1
    <3>2. CASE pc = "fetching"
      BY <3>2, TheRestTakesTime DEF Fresh
    <3>3. CASE pc = "writing"
      BY <3>3, TheRestTakesTime DEF Fresh
    <3> QED
      BY <2>7, <3>2, <3>3
  <2>8. pc # "starting"
    BY <2>2 DEF FreshInv, Untouched
  <2> QED
    BY <2>1, <2>5, <2>6, <2>7, <2>8 DEF CanElapse
<1>4. CASE (Environment \/ Terminated) /\ ~Elapse
  <2>1. UNCHANGED <<pc, idx, age, phase, tickPending>>
    BY <1>4, OthersStay
  <2>2. fileAge' = fileAge
    BY <1>0, <1>4, <2>1, FileAgeCases
  <2> QED
    BY <1>0, <1>1, <2>1, <2>2 DEF FreshInv, Fresh
<1> QED
  BY <1>2, <1>3, <1>4 DEF HealthNext, Next

LEMMA FreshInvStep ==
  TypeOK /\ TypeOK' /\ FreshInv /\ [HealthNext]_healthVars => FreshInv'
<1> SUFFICES ASSUME TypeOK, TypeOK', FreshInv, [HealthNext]_healthVars
             PROVE  FreshInv'
  OBVIOUS
<1>1. CASE UNCHANGED healthVars
  BY <1>1 DEF healthVars, vars, tick, ticker, outside, FreshInv, InBounds,
              Fresh, Untouched
<1>2. CASE HealthNext /\ restarts' = restarts
  <2>0. InBounds /\ fileAge \in Nat \cup {Untouched} /\ Next
    BY <1>2 DEF FreshInv, HealthNext
  <2>1. InBounds'
    BY <2>0, InBoundsStep
  <2>2. ~cancelled' /\ fileAge' # Untouched => Fresh'
    BY <1>2, FreshStep
  <2>3. \/ pc = "hooks" /\ pc' = "waiting" /\ fileAge' = 0
        \/ Elapse /\ fileAge # Untouched /\ fileAge' \in Nat
        \/ fileAge' = fileAge
    BY <1>2, <2>0, FileAgeCases
  <2>4. fileAge' \in Nat \cup {Untouched}
    BY <2>0, <2>3
  <2>5. /\ pc' = pc \/ Path
        /\ pc' = pc \/ UNCHANGED cancelled
        /\ cancelled => cancelled'
    BY <1>2, <2>0, ProgramFollowsPath, OthersStay
    DEF Next, Program, outside
  <2>6. pc' = "starting" => fileAge' = Untouched
    <3>1. SUFFICES ASSUME pc' = "starting" PROVE fileAge' = Untouched
      OBVIOUS
    <3>2. pc = "starting" /\ fileAge = Untouched
      BY <2>5, <3>1 DEF Path, FreshInv
    <3> QED
      BY <2>3, <3>1, <3>2
  <2>7. pc' = "stopped" => cancelled'
    BY <2>5 DEF Path, FreshInv
  <2> QED
    BY <2>1, <2>2, <2>4, <2>6, <2>7 DEF FreshInv
<1>3. CASE HealthNext /\ restarts' # restarts
  <2>1. InBounds' /\ pc' = "starting"
    BY <1>3, InBoundsStep, RestartCases DEF FreshInv, HealthNext
  <2>2. fileAge' = Untouched
    BY <1>3, <2>1 DEF HealthNext, TimePasses
  <2> QED
    BY <2>1, <2>2 DEF FreshInv
<1> QED
  BY <1>1, <1>2, <1>3

\* RunningIsFresh: when the attempts and hooks of a cycle fit in an interval,
\* the status file of a running instance never gets older than the threshold,
\* whatever fails and however slowly, and however often it is restarted. (The
\* run health_short_interval shows a cycle that does not fit.)
THEOREM RunningStaysFresh ==
  ASSUME LongestWork <= Interval
  PROVE  HealthSpec => []RunningIsFresh
<1>1. HealthInit => Init /\ FreshInv
  BY TimeAssumption DEF HealthInit, Init, FreshInv, InBounds, Untouched
<1>2. [HealthNext]_healthVars => [Next]_vars
  BY DEF HealthNext, healthVars
<1>3. Init /\ [][Next]_vars => []TypeOK
  BY TypeCorrect DEF Spec
<1>4. TypeOK /\ TypeOK' /\ FreshInv /\ [HealthNext]_healthVars => FreshInv'
  BY FreshInvStep
<1>5. TypeOK /\ FreshInv => RunningIsFresh
  <2> SUFFICES ASSUME TypeOK, FreshInv, ~cancelled, fileAge # Untouched
               PROVE  fileAge <= Threshold
    BY DEF RunningIsFresh
  <2>1. Fresh /\ InBounds /\ fileAge \in Nat /\ phase \in Nat
    BY DEF FreshInv, TypeOK
  <2>2. /\ Interval <= Threshold /\ LongestCycle <= Threshold
        /\ Threshold \in Nat
    <3>1. LongestCycle \in Nat /\ Spent(NR) \in Nat /\ Spent(NP) \in Nat
      BY <2>1, TheRestTakesTime
    <3>2. /\ Interval \in Nat /\ AttemptTimeout \in Nat
          /\ HookTimeout \in Nat
      BY TimeAssumption
    <3>3. LongestCycle = Interval + LongestWork
      BY <3>1, <3>2 DEF LongestCycle, LongestWork
    <3>4. LongestWork \in Nat
      BY <3>1, <3>2 DEF LongestWork
    <3> QED
      BY <3>2, <3>3, <3>4 DEF Threshold, Larger, MinStaleness
  <2>3. CASE pc \in {"waiting", "loop"}
    <3>1. fileAge <= Interval
      BY <2>1, <2>3, TimeAssumption DEF Fresh
    <3> QED
      BY <2>1, <2>2, <3>1, TimeAssumption
  <2>4. CASE pc \in {"retrieve", "fetching", "update", "writing", "hooks"}
    <3>1. fileAge <= LongestCycle /\ LongestCycle \in Nat
      BY <2>1, <2>4, TheRestTakesTime, TimeAssumption DEF Fresh, InBounds
    <3> QED
      BY <2>1, <2>2, <3>1
  <2>5. pc \notin {"starting", "stopped"}
    BY DEF FreshInv
  <2> QED
    BY <2>3, <2>4, <2>5 DEF TypeOK
<1> QED
  BY <1>1, <1>2, <1>3, <1>4, <1>5, PTL DEF HealthSpec

=============================================================================
