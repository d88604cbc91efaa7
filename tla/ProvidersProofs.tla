-------------------------- MODULE ProvidersProofs --------------------------
(***************************************************************************)
(* Proofs about the providers except regru, for any addresses, any records *)
(* the operator leaves or edits at the name, and any of the services. That *)
(* success means published and that failure has a reason is not inductive: *)
(* it takes to know, in the middle of an update, that the families already *)
(* written without an error hold their address, that one already given up  *)
(* had its reason, that a write starts from the records as they still are, *)
(* that a service which takes both families at once has none left over,    *)
(* and that a token obtained for a second attempt is accepted.             *)
(***************************************************************************)
EXTENDS Providers, FiniteSetTheorems, TLAPS

\* The family f is as an update that reports success has to leave it.
IsThere(f) == want[f] \in zone[f] /\ (zone[f] = {want[f]} \/ kind \in Leaves)

DoneSoFar == ~failed => \A f \in Valid(want) \ todo : IsThere(f)

ReasonSoFar == failed => \E f \in Valid(want) \ todo : Hopeless(f)

\* The providers that compare what they listed with what they want.
Listed == {"cloudflare", "timeweb", "selectel", "yandexcloud"}

SnapshotHolds ==
    pc = "write" =>
        /\ kind = "beget" => seen = zone /\ seenText = text
        /\ kind \in Listed => seen[Current] = zone[Current]
        /\ kind \in Leaves => Current \notin doubled

AllAtOnce == kind \in {"dyndns2", "duckdns"} /\ pc # "idle" =>
                todo = Valid(want)

\* The second attempt of a call has a token of its own, and the service takes
\* it unless it withdrew it meanwhile.
TokenTrusted ==
    /\ retried => HasToken /\ pc # "idle"
    /\ retried /\ ~trouble => IF ready THEN accepted ELSE cached = "none"

Inv ==
    /\ TypeOK /\ AllAtOnce /\ TokenTrusted
    /\ SuccessIsPublished /\ FailsForAReason
    /\ ~disturbed => SnapshotHolds /\ (pc # "idle" => DoneSoFar)
    /\ ~disturbed /\ ~trouble /\ pc # "idle" => ReasonSoFar

LEMMA CurrentIsLeft ==
  ASSUME TypeOK, pc # "idle"
  PROVE  /\ Current \in todo /\ Current \in Valid(want)
         /\ Current \in Families /\ New \in Wanted /\ New \in Addr
  BY ProviderAssumption
     DEF TypeOK, Current, New, Valid, Families, Addresses

\* The state of the service and of the token after a step.
RestIsTyped ==
    /\ zone' \in [Families -> SUBSET Addr] /\ text' \in Texts
    /\ doubled' \subseteq doubled
    /\ edits' \in 0..MaxEdits /\ trouble' \in BOOLEAN /\ calm' \in BOOLEAN
    /\ cached' \in {"none", "fresh", "stale"}
    /\ accepted' \in BOOLEAN /\ retried' \in BOOLEAN
    /\ ready' \in BOOLEAN /\ (ready' => HasToken' /\ pc' # "idle"
                                        /\ cached' # "none")
    /\ trouble => trouble'
    /\ TokenTrusted'

\* However the families in done were written, or failed to be, the invariant
\* holds when setOne returns, and the caller gets what it was promised.
LEMMA ReturnKeeps ==
  ASSUME Inv, pc # "idle", NEW done \in SUBSET todo, NEW err \in BOOLEAN,
         Return(done, err), UNCHANGED <<setup, disturbed>>, RestIsTyped,
         kind \in {"dyndns2", "duckdns"} => done = todo,
         ~disturbed => \A f \in Valid(want) \ done :
            zone'[f] = zone[f] /\ (f \in doubled' <=> f \in doubled),
         ~disturbed /\ ~err => \A f \in done : IsThere(f)',
         ~disturbed => \A f \in done : zone'[f] # zone[f] =>
            want[f] \in zone'[f] /\ zone'[f] \subseteq zone[f] \cup {want[f]},
         err => disturbed \/ trouble' \/ \E f \in done : Hopeless(f)'
  PROVE  Inv' /\ Contract!Work
<1>a. ASSUME todo' # {} PROVE result' = result
  BY <1>a DEF Return
<1>b. ASSUME todo' = {}, failed \/ err PROVE result' = "failed"
  BY <1>b DEF Return
<1>c. ASSUME todo' = {}, ~(failed \/ err) PROVE result' = "ok"
  BY <1>c DEF Return
<1>d. todo' # {} <=> pc' # "idle"
  BY DEF Return, Family
<1>1. Valid(want) \subseteq Families /\ todo \subseteq Valid(want)
      /\ UNCHANGED <<want, kind, overfull, keyed, disturbed>>
  BY DEF Inv, TypeOK, Valid, Return, setup
<1>2. TypeOK'
  <2>1. todo' \subseteq Valid(want)' /\ (pc' = "idle" <=> todo' = {})
    BY <1>1 DEF Return, Family, Valid
  <2>2. pc' \in {"idle", "zone", "list", "write"}
    BY DEF Return, Family
  <2>3. failed' \in BOOLEAN /\ result' \in {"none", "ok", "failed"}
        /\ (result' = "none" \/ pc' = "idle")
    <3>1. failed' \in BOOLEAN
      BY DEF Return
    <3>2. result = "none"
      BY DEF Inv, TypeOK
    <3> QED
      BY <1>a, <1>b, <1>c, <1>d, <3>1, <3>2
  <2>4. seen' \in [Families -> SUBSET Addr] /\ seenText' \in Texts
    BY DEF Return, Forget, Nothing, Texts
  <2> QED
    BY <1>1, <2>1, <2>2, <2>3, <2>4 DEF Inv, TypeOK, RestIsTyped
<1>3. AllAtOnce'
  BY <1>1 DEF AllAtOnce, Return
<1>4. ASSUME ~disturbed, ~failed, ~err
      PROVE  \A f \in Valid(want) \ todo' : IsThere(f)'
  <2> SUFFICES ASSUME NEW f \in Valid(want) \ todo' PROVE IsThere(f)'
    OBVIOUS
  <2>1. CASE f \in done
    BY <1>4, <2>1
  <2>2. CASE f \notin done
    <3>1. f \in Valid(want) \ todo /\ zone'[f] = zone[f]
      BY <1>4, <2>2 DEF Return
    <3>2. IsThere(f)
      BY <1>4, <3>1 DEF Inv, DoneSoFar
    <3> QED
      BY <1>1, <3>1, <3>2 DEF IsThere, Leaves
  <2> QED
    BY <2>1, <2>2
<1>5. SuccessIsPublished'
  <2> SUFFICES ASSUME pc' = "idle", result' = "ok", ~disturbed,
                      NEW f \in Valid(want)
               PROVE  IsThere(f)'
    BY <1>1 DEF SuccessIsPublished, IsThere, Valid, Leaves
  <2>1. todo' = {} /\ result = "none"
    BY <1>2 DEF Inv, TypeOK
  <2>2. ~(failed \/ err)
    BY <2>1, <1>b
  <2> QED
    BY <1>4, <2>1, <2>2
<1>6. ~disturbed => SnapshotHolds' /\ (pc' # "idle" => DoneSoFar')
  <2>1. SnapshotHolds'
    BY <1>1 DEF SnapshotHolds, Return, Family, Listed, Leaves
  <2>2. ~disturbed => DoneSoFar'
    BY <1>1, <1>4 DEF DoneSoFar, Return, Valid
  <2> QED
    BY <2>1, <2>2
<1>7. Contract!Work
  <2>1. disturbed \/ Contract!Towards
    BY <1>1 DEF Contract!Towards, Contract!Asked, Valid
  <2>2. pc' # "idle" => result' = result
    BY <1>a, <1>d
  <2>3. result' = "ok" /\ pc' = "idle" => disturbed \/ Contract!Published'
    BY <1>1, <1>5
       DEF SuccessIsPublished, Contract!Published, Contract!Asked, Valid
  <2>4. result' \in {"ok", "failed", "none"}
    BY <1>2 DEF TypeOK
  <2> QED
    BY <1>1, <2>1, <2>2, <2>3, <2>4 DEF Contract!Work
<1>8. ASSUME ~disturbed, ~trouble', failed'
      PROVE  \E f \in Valid(want) \ todo' : Hopeless(f)'
  <2>1. CASE err
    <3>1. PICK f \in done : Hopeless(f)'
      BY <1>8, <2>1
    <3>2. f \in Valid(want) \ todo'
      BY <1>1, <3>1 DEF Return
    <3> QED
      BY <3>1, <3>2
  <2>2. CASE ~err
    <3>1. failed /\ ~trouble
      BY <1>8, <2>2 DEF Return, RestIsTyped
    <3>2. PICK f \in Valid(want) \ todo : Hopeless(f)
      BY <1>8, <3>1 DEF Inv, ReasonSoFar
    <3>3. f \in Valid(want) \ todo' /\ zone'[f] = zone[f]
          /\ (f \in doubled' <=> f \in doubled)
      BY <1>8, <3>2 DEF Return
    <3>4. Hopeless(f)'
      BY <1>1, <3>2, <3>3 DEF Hopeless, Several
    <3> QED
      BY <3>3, <3>4
  <2> QED
    BY <2>1, <2>2
<1>9. ~disturbed' /\ ~trouble' => ReasonSoFar'
  BY <1>1, <1>8 DEF ReasonSoFar, Valid
<1>10. FailsForAReason'
  <2> SUFFICES ASSUME pc' = "idle", result' = "failed", ~trouble', ~disturbed'
               PROVE  \E f \in Valid(want)' : Hopeless(f)'
    BY DEF FailsForAReason
  <2>1. failed'
    BY <1>2, <1>c DEF TypeOK, Return
  <2> QED
    BY <1>1, <1>8, <2>1 DEF Valid
<1> QED
  BY <1>1, <1>2, <1>3, <1>5, <1>6, <1>7, <1>9, <1>10 DEF Inv, RestIsTyped

\* A step within an update that leaves the records alone.
LEMMA StayKeeps ==
  ASSUME Inv, pc # "idle", pc' \in {"zone", "list", "write"},
         UNCHANGED <<setup, want, todo, failed, result, zone, doubled>>,
         UNCHANGED disturbed,
         seen' \in [Families -> SUBSET Addr], seenText' \in Texts,
         ~disturbed => SnapshotHolds', RestIsTyped
  PROVE  Inv' /\ Contract!Work
<1>1. TypeOK' /\ AllAtOnce'
  BY DEF Inv, TypeOK, AllAtOnce, RestIsTyped, setup, Valid
<1>2. SuccessIsPublished' /\ (DoneSoFar => DoneSoFar')
  BY DEF SuccessIsPublished, DoneSoFar, IsThere, Valid, Leaves, setup
<1>3. FailsForAReason' /\ (ReasonSoFar => ReasonSoFar')
  BY DEF FailsForAReason, ReasonSoFar, Hopeless, Several, Valid, setup
<1>4. Contract!Work
  BY DEF Contract!Work, Contract!Towards, Contract!Asked
<1> QED
  BY <1>1, <1>2, <1>3, <1>4 DEF Inv, RestIsTyped

\* What a step of the program leaves of the service and the token.
Quiet ==
    /\ UNCHANGED past \/ Fails
    /\ \/ CallEnds
       \/ UNCHANGED tokenVars /\ ~HasToken

LEMMA QuietIsTyped ==
  ASSUME Inv, Quiet, zone' \in [Families -> SUBSET Addr], text' \in Texts,
         doubled' \subseteq doubled
  PROVE  RestIsTyped /\ disturbed' = disturbed
<1>1. edits' \in 0..MaxEdits /\ trouble' \in BOOLEAN /\ calm' \in BOOLEAN
      /\ disturbed' = disturbed
  BY DEF Inv, TypeOK, Quiet, Fails, past
<1>3. trouble => trouble'
  <2>1. CASE UNCHANGED past
    BY <2>1, Zenon DEF past
  <2>2. CASE Fails
    BY <2>2 DEF Fails
  <2> QED
    BY <2>1, <2>2 DEF Quiet
<1>2. cached' \in {"none", "fresh", "stale"} /\ accepted' \in BOOLEAN
      /\ retried' = FALSE /\ ready' = FALSE
  BY DEF Inv, TypeOK, TokenTrusted, Quiet, CallEnds, tokenVars
<1> QED
  BY <1>1, <1>2, <1>3 DEF RestIsTyped, TokenTrusted

\* The providers that write a set of records have no two of one address.
LEMMA NoneIsDoubled ==
  ASSUME Inv, kind \notin Counts
  PROVE  doubled = {}
  BY DEF Inv, TypeOK

LEMMA SettleKeeps ==
  ASSUME Inv, pc # "idle", NEW err \in BOOLEAN, Settle(err), Quiet,
         kind \notin {"dyndns2", "duckdns"}, ~err => IsThere(Current),
         err => Hopeless(Current)
  PROVE  Inv' /\ Contract!Work
<1>1. Current \in todo /\ Current \in Families
  BY CurrentIsLeft DEF Inv
<1>2. Return({Current}, err) /\ UNCHANGED <<setup, zone, text, disturbed>>
      /\ UNCHANGED <<want, kind, doubled>>
  BY DEF Settle, Return, name, past, setup
<1>3. RestIsTyped
  BY <1>2, QuietIsTyped DEF Inv, TypeOK
<1>4. ~err => \A f \in {Current} : IsThere(f)'
  BY <1>2 DEF IsThere, Leaves
<1>5. err => \E f \in {Current} : Hopeless(f)'
  BY <1>2 DEF Hopeless, Several, setup
<1> QED
  BY <1>1, <1>2, <1>3, <1>4, <1>5, ReturnKeeps

LEMMA GoOnKeeps ==
  ASSUME Inv, pc = "list", NEW listed \in [Families -> SUBSET Addr],
         NEW other \in Texts, GoOn(listed, other), Quiet,
         kind = "beget" => listed = zone /\ other = text,
         kind \in Listed => listed[Current] = zone[Current],
         kind \in Leaves => Current \notin doubled
  PROVE  Inv' /\ Contract!Work
<1>1. UNCHANGED <<setup, want, todo, failed, result, zone, text, disturbed>>
      /\ UNCHANGED doubled
      /\ pc' = "write" /\ seen' = listed /\ seenText' = other
  BY DEF GoOn, name, past
<1>2. RestIsTyped
  BY <1>1, QuietIsTyped DEF Inv, TypeOK
<1>3. SnapshotHolds'
  BY <1>1 DEF SnapshotHolds, setup, Current
<1> QED
  BY <1>1, <1>2, <1>3, StayKeeps

\* A call that fails before anything was written gives up some families.
LEMMA GiveUpKeeps ==
  ASSUME Inv, pc # "idle", NEW done \in SUBSET todo, Return(done, TRUE),
         UNCHANGED <<setup, name>>, Quiet,
         kind \in {"dyndns2", "duckdns"} => done = todo,
         trouble' \/ \E f \in done : Hopeless(f)
  PROVE  Inv' /\ Contract!Work
<1>1. UNCHANGED <<setup, zone, doubled, text>>
  BY DEF name
<1>2. RestIsTyped /\ UNCHANGED <<setup, disturbed>>
  BY <1>1, QuietIsTyped DEF Inv, TypeOK
<1>3. ASSUME NEW f \in done, Hopeless(f)
      PROVE  Hopeless(f)'
  BY <1>1, <1>3 DEF Hopeless, Several, Return, setup
<1> QED
  BY <1>1, <1>2, <1>3, ReturnKeeps

\* Several records none of which is the wanted one are a reason to give up.
LEMMA AmbiguousIsHopeless ==
  ASSUME kind \in Listed \cup {"beget"},
         New \notin zone[Current], Several(Current, zone[Current])
  PROVE  Hopeless(Current)
  BY DEF Listed, Hopeless, New

\* A call with a token fails only if the service is to blame.
LEMMA FailingIsTrouble ==
  ASSUME Inv, Failing
  PROVE  trouble'
  BY DEF Inv, TypeOK, TokenTrusted, Failing, Fails, Unauthorized, past

\* A write of the current family: done is whether it took effect, new what
\* the service then has.
LEMMA WriteKeeps ==
  ASSUME Inv, pc # "idle", NEW done \in BOOLEAN, NEW err \in BOOLEAN,
         NEW new \in SUBSET Addr,
         IF done THEN Put(new) ELSE UNCHANGED name,
         Return({Current}, err), UNCHANGED setup, Quiet,
         kind \notin {"dyndns2", "duckdns"},
         ~err => done, err => disturbed \/ trouble',
         New \in new, new \subseteq zone[Current] \cup {New},
         kind \in Leaves \/ new = {New}
  PROVE  Inv' /\ Contract!Work
<1>1. Current \in todo /\ Current \in Families /\ Current \in Valid(want)
  BY CurrentIsLeft DEF Inv
<1>2. /\ zone' \in [Families -> SUBSET Addr] /\ text' \in Texts
      /\ \A f \in Families \ {Current} : zone'[f] = zone[f]
      /\ zone'[Current] = IF done THEN new ELSE zone[Current]
      /\ doubled' = doubled
  BY <1>1 DEF Inv, TypeOK, Put, name
<1>3. RestIsTyped /\ UNCHANGED <<setup, disturbed>>
  BY <1>2, QuietIsTyped DEF Inv
<1>4. want' = want /\ kind' = kind
  BY DEF Return, setup
<1>5. ~err => \A f \in {Current} : IsThere(f)'
  BY <1>2, <1>4 DEF IsThere, New, Leaves
<1>6. \A f \in Valid(want) \ {Current} :
         zone'[f] = zone[f] /\ (f \in doubled' <=> f \in doubled)
  BY <1>2 DEF Valid
<1>7. zone'[Current] # zone[Current] =>
         want[Current] \in zone'[Current] /\
         zone'[Current] \subseteq zone[Current] \cup {want[Current]}
  BY <1>2 DEF New
<1> QED
  BY <1>1, <1>3, <1>5, <1>6, <1>7, ReturnKeeps

-----------------------------------------------------------------------------
(* The providers                                                           *)

LEMMA SeparateKeeps ==
  ASSUME Inv, SeparateNext, UNCHANGED tokenVars
  PROVE  Inv' /\ Contract!Work
<1>1. kind \in Leaves /\ ~HasToken
  BY DEF SeparateNext, Leaves, HasToken
<1>2. ASSUME NEW listed \in SUBSET Addr, pc = "list", SetOne(listed),
             listed = zone[Current]
      PROVE  Inv' /\ Contract!Work
  <2>1. CASE New \in listed /\ Settle(FALSE)
    <3>1. IsThere(Current) /\ Quiet
      BY <1>1, <1>2, <2>1 DEF IsThere, New, Quiet, Settle
    <3> QED
      BY <1>1, <1>2, <2>1, <3>1, SettleKeeps DEF Leaves
  <2>2. CASE New \notin listed /\ Several(Current, listed) /\ Settle(TRUE)
    <3>1. Quiet
      BY <1>1, <2>2 DEF Quiet, Settle
    <3>2. Hopeless(Current)
      BY <1>1, <1>2, <2>2, AmbiguousIsHopeless DEF Leaves, Listed
    <3> QED
      BY <1>1, <1>2, <2>2, <3>1, <3>2, SettleKeeps DEF Leaves
  <2>3. CASE ~Several(Current, listed) /\ New \notin listed
             /\ GoOn(Noted(listed), "t1")
    <3>1. Quiet /\ Noted(listed) \in [Families -> SUBSET Addr]
      BY <1>1, <1>2, <2>3 DEF Quiet, GoOn, Noted, Nothing
    <3>2. Noted(listed)[Current] = zone[Current]
      BY <1>2, CurrentIsLeft DEF Inv, Noted, Nothing
    <3>3. Current \notin doubled
      BY <2>3 DEF Several
    <3> QED
      BY <1>1, <1>2, <2>3, <3>1, <3>2, <3>3, GoOnKeeps DEF Leaves, Texts
  <2> QED
    BY <1>2, <2>1, <2>2, <2>3 DEF SetOne
<1>3. CASE CloudflareList
  <2>1. zone[Current] \in SUBSET Addr
    BY <1>3, CurrentIsLeft DEF Inv, TypeOK, CloudflareList
  <2>2. CASE Current \in overfull /\ Settle(TRUE)
    <3>1. Quiet
      BY <1>1, <2>2 DEF Quiet, Settle
    <3>2. Hopeless(Current)
      BY <2>2 DEF Hopeless
    <3> QED
      BY <1>1, <1>3, <2>2, <3>1, <3>2, SettleKeeps DEF CloudflareList, Leaves
  <2> QED
    BY <1>2, <1>3, <2>1, <2>2 DEF CloudflareList
<1>4. CASE TimewebList
  <2>1. CASE Pages = {} /\ Settle(TRUE)
    <3>1. Quiet
      BY <1>1, <2>1 DEF Quiet, Settle
    <3>2. Hopeless(Current)
      BY <2>1 DEF Pages, Hopeless
    <3> QED
      BY <1>1, <1>4, <2>1, <3>1, <3>2, SettleKeeps DEF TimewebList, Leaves
  <2>2. CASE \E page \in Pages : SetOne(Matching(page))
    <3>1. PICK page \in Pages : SetOne(Matching(page))
      BY <2>2
    <3>2. page = InZone
      BY DEF Pages
    <3>3. zone[Current] \in SUBSET Addr /\ Current \in Families
      BY <1>4, CurrentIsLeft DEF Inv, TypeOK, TimewebList
    <3>4. Matching(page) = zone[Current]
      <4>1. ASSUME NEW a \in zone[Current] PROVE a \in Matching(page)
        <5>1. [type |-> Current, value |-> a] \in InZone
          BY <3>3 DEF InZone, Listable
        <5> QED
          BY <3>2, <5>1 DEF Matching
      <4>2. ASSUME NEW a \in Matching(page) PROVE a \in zone[Current]
        BY <3>2 DEF Matching, InZone
      <4> QED
        BY <4>1, <4>2
    <3> QED
      BY <1>2, <1>4, <3>1, <3>3, <3>4 DEF TimewebList
  <2> QED
    BY <1>4, <2>1, <2>2 DEF TimewebList
<1>5. CASE ListFailed
  <2>1. Quiet /\ Current \in todo /\ trouble'
    BY <1>1, <1>5, CurrentIsLeft DEF Quiet, ListFailed, Fails, Inv
  <2> QED
    BY <1>1, <1>5, <2>1, GiveUpKeeps DEF ListFailed, Leaves
<1>6. ASSUME NEW done \in BOOLEAN, NEW reply \in SeparateAnswers(done),
             SeparateWrite(done, reply)
      PROVE  Inv' /\ Contract!Work
  <2>1. Quiet /\ SeparateConfirms(reply) \in BOOLEAN
    BY <1>1, <1>6 DEF Quiet, SeparateWrite, Served, SeparateConfirms,
       CloudflareConfirms, TimewebConfirms
  <2>2. SeparateConfirms(reply) => done
    BY <1>1, <1>6 DEF SeparateAnswers, SeparateConfirms, Leaves,
       CloudflareConfirms, TimewebConfirms
  <2>3. Target \in SUBSET Addr
    BY <1>6, CurrentIsLeft DEF Target, Inv, TypeOK, SeparateWrite
  <2>4. New \in Target /\ Target \subseteq zone[Current] \cup {New}
    BY DEF Target
  <2>5. ~SeparateConfirms(reply) => disturbed \/ trouble'
    <3>1. SUFFICES ASSUME ~disturbed, ~trouble'
                   PROVE  SeparateConfirms(reply)
      OBVIOUS
    <3>2. Applies
      BY <1>1, <1>6, <3>1
         DEF SeparateWrite, Applies, Inv, SnapshotHolds, Leaves, Listed
    <3> QED
      BY <1>6, <3>1, <3>2 DEF SeparateWrite, Served, Fails
  <2> QED
    BY <1>1, <1>6, <2>1, <2>2, <2>3, <2>4, <2>5, WriteKeeps
       DEF SeparateWrite, Leaves
<1> QED
  BY <1>3, <1>4, <1>5, <1>6 DEF SeparateNext

LEMMA BegetKeeps ==
  ASSUME Inv, BegetNext, UNCHANGED tokenVars
  PROVE  Inv' /\ Contract!Work
<1>1. kind = "beget" /\ ~HasToken
  BY DEF BegetNext, HasToken
<1>2. CASE GetRecords
  <2>1. CASE zone[Current] = {New} /\ Settle(FALSE)
    <3>1. IsThere(Current) /\ Quiet
      BY <1>1, <2>1 DEF IsThere, New, Quiet, Settle
    <3> QED
      BY <1>1, <1>2, <2>1, <3>1, SettleKeeps DEF GetRecords
  <2>2. CASE New \notin zone[Current] /\ Several(Current, zone[Current])
             /\ Settle(TRUE)
    <3>1. Quiet
      BY <1>1, <2>2 DEF Quiet, Settle
    <3>2. Hopeless(Current)
      BY <1>1, <2>2, AmbiguousIsHopeless
    <3> QED
      BY <1>1, <1>2, <2>2, <3>1, <3>2, SettleKeeps DEF GetRecords
  <2>3. CASE GoOn(zone, text)
    <3>1. Quiet /\ zone \in [Families -> SUBSET Addr] /\ text \in Texts
      BY <1>1, <2>3 DEF Quiet, GoOn, Inv, TypeOK
    <3> QED
      BY <1>1, <1>2, <2>3, <3>1, GoOnKeeps DEF GetRecords, Listed, Leaves
  <2> QED
    BY <1>2, <2>1, <2>2, <2>3 DEF GetRecords
<1>3. CASE ListFailed
  <2>1. Quiet /\ Current \in todo /\ trouble'
    BY <1>1, <1>3, CurrentIsLeft DEF Quiet, ListFailed, Fails, Inv
  <2> QED
    BY <1>1, <1>3, <2>1, GiveUpKeeps DEF ListFailed
<1>4. ASSUME NEW done \in BOOLEAN, NEW reply \in BegetAnswers(done),
             ChangeRecords(done, reply)
      PROVE  Inv' /\ Contract!Work
  <2>1. Quiet /\ BegetConfirms(reply) \in BOOLEAN
    BY <1>1, <1>4 DEF Quiet, ChangeRecords, Served, BegetConfirms
  <2>2. BegetConfirms(reply) => done
    BY <1>4 DEF BegetAnswers, BegetConfirms
  <2>3. Current \in todo /\ Current \in Families /\ New \in Addr
    BY <1>4, CurrentIsLeft DEF Inv, ChangeRecords
  <2>4. zone' \in [Families -> SUBSET Addr] /\ text' \in Texts
        /\ doubled' \subseteq doubled
        /\ \A f \in Families \ {Current} : f \in doubled' <=> f \in doubled
    BY <1>4, <2>3 DEF ChangeRecords, WriteBack, Updated, Inv, TypeOK, name
  <2>5. RestIsTyped /\ UNCHANGED <<setup, disturbed, want, kind>>
    BY <1>4, <2>1, <2>4, QuietIsTyped DEF ChangeRecords, Return, Inv, setup
  <2>6. ASSUME ~disturbed
        PROVE  /\ \A f \in Valid(want) \ {Current} : zone'[f] = zone[f]
               /\ zone'[Current] = IF done THEN {New} ELSE zone[Current]
    <3>1. seen = zone
      BY <1>1, <1>4, <2>6 DEF ChangeRecords, Inv, SnapshotHolds
    <3> QED
      BY <1>4, <2>3, <3>1
         DEF ChangeRecords, WriteBack, Updated, Inv, TypeOK, name, Valid
  <2>7. ~disturbed /\ BegetConfirms(reply) =>
           \A f \in {Current} : IsThere(f)'
    BY <2>2, <2>5, <2>6 DEF IsThere, New, Leaves
  <2>8. ~disturbed => \A f \in {Current} : zone'[f] # zone[f] =>
           want[f] \in zone'[f] /\ zone'[f] \subseteq zone[f] \cup {want[f]}
    BY <2>6 DEF New
  <2>9. ~BegetConfirms(reply) => trouble'
    BY <1>4 DEF ChangeRecords, Served, Fails
  <2> QED
    BY <1>1, <1>4, <2>1, <2>3, <2>4, <2>5, <2>6, <2>7, <2>8, <2>9, ReturnKeeps
       DEF ChangeRecords, Valid
<1> QED
  BY <1>2, <1>3, <1>4 DEF BegetNext

LEMMA SetKeeps ==
  ASSUME Inv, SetNext
  PROVE  Inv' /\ Contract!Work
<1>1. kind \in {"selectel", "yandexcloud"} /\ HasToken
  BY DEF SetNext, HasToken
<1>2. CASE Token
  <2>1. UNCHANGED <<setup, call, name, past>> /\ pc # "idle"
    BY <1>2 DEF Token, providerVars
  <2>2. /\ cached' \in {"none", "fresh", "stale"} /\ accepted' \in BOOLEAN
        /\ retried' \in BOOLEAN /\ ready' \in BOOLEAN
        /\ ready' => cached' # "none"
    BY <1>2 DEF Token, TakeCached, Authenticate, TryAgain, InvalidateToken,
       Inv, TypeOK
  <2>5. TokenTrusted'
    BY <1>1, <1>2, <2>1
       DEF Token, TakeCached, Authenticate, TryAgain, InvalidateToken, Inv,
           TypeOK, TokenTrusted, HasToken, setup, call, past
  <2>3. RestIsTyped /\ kind' = kind
    BY <1>1, <2>1, <2>2, <2>5
       DEF RestIsTyped, Inv, TypeOK, call, name, past, setup, HasToken
  <2>4. ~disturbed => SnapshotHolds'
    BY <1>1, <2>1, <2>3
       DEF Inv, SnapshotHolds, Current, call, name, setup
  <2> QED
    BY <2>1, <2>3, <2>4, StayKeeps DEF call, name, past, Inv, TypeOK
<1>3. ASSUME Failing, CallEnds
      PROVE  Quiet
  BY <1>3 DEF Quiet, Failing
<1>4. CASE SelectelCallFails
  <2>1. Current \in todo /\ Quiet /\ pc # "idle"
    BY <1>3, <1>4, CurrentIsLeft DEF SelectelCallFails, Inv
  <2> QED
    BY <1>1, <1>4, <2>1, GiveUpKeeps, FailingIsTrouble
       DEF SelectelCallFails
<1>5. CASE YandexCallFails
  <2>1. Current \in todo /\ Quiet /\ pc # "idle"
    BY <1>3, <1>5, CurrentIsLeft DEF YandexCallFails, Inv
  <2>2. PICK done \in SUBSET todo : Return(done, TRUE)
    BY <1>5, <2>1 DEF YandexCallFails
  <2> QED
    BY <1>1, <1>5, <2>1, <2>2, GiveUpKeeps, FailingIsTrouble
       DEF YandexCallFails
<1>6. CASE FindZone
  <2>1. Quiet /\ UNCHANGED <<setup, name, past>>
    BY <1>6 DEF Quiet, FindZone
  <2>2. RestIsTyped /\ disturbed' = disturbed
    BY <2>1, QuietIsTyped DEF Inv, TypeOK, name
  <2>3. SnapshotHolds'
    BY <1>6 DEF FindZone, SnapshotHolds
  <2> QED
    BY <1>6, <2>1, <2>2, <2>3, StayKeeps DEF FindZone, name, Inv, TypeOK
<1>7. ASSUME pc = "list", CallEnds,
             \/ zone[Current] = {New} /\ Settle(FALSE)
             \/ /\ New \notin zone[Current]
                /\ Several(Current, zone[Current])
                /\ Settle(TRUE)
             \/ GoOn(Noted(zone[Current]), "t1")
      PROVE  Inv' /\ Contract!Work
  <2>1. zone[Current] \in SUBSET Addr
    BY <1>7, CurrentIsLeft DEF Inv, TypeOK
  <2>2. CASE zone[Current] = {New} /\ Settle(FALSE)
    <3>1. IsThere(Current) /\ Quiet
      BY <1>7, <2>2 DEF IsThere, New, Quiet, Settle
    <3> QED
      BY <1>1, <1>7, <2>2, <3>1, SettleKeeps
  <2>3. CASE New \notin zone[Current] /\ Several(Current, zone[Current])
             /\ Settle(TRUE)
    <3>1. Quiet
      BY <1>7, <2>3 DEF Quiet, Settle
    <3>2. Hopeless(Current)
      BY <1>1, <2>3, AmbiguousIsHopeless DEF Listed
    <3> QED
      BY <1>1, <1>7, <2>3, <3>1, <3>2, SettleKeeps
  <2>4. CASE GoOn(Noted(zone[Current]), "t1")
    <3>1. Quiet /\ Noted(zone[Current]) \in [Families -> SUBSET Addr]
      BY <1>7, <2>1, <2>4 DEF Quiet, GoOn, Noted, Nothing
    <3>2. Noted(zone[Current])[Current] = zone[Current]
      BY <1>7, CurrentIsLeft DEF Inv, Noted, Nothing
    <3> QED
      BY <1>1, <1>7, <2>4, <3>1, <3>2, GoOnKeeps DEF Texts, Leaves
  <2> QED
    BY <1>7, <2>2, <2>3, <2>4
<1>8. CASE SelectelList \/ YandexList
  BY <1>7, <1>8 DEF SelectelList, YandexList, SelectelSetOne, YandexSetOne,
     Settled, Ambiguous
<1>9. CASE SetWriteFails
  <2>1. Current \in todo /\ Quiet /\ pc # "idle"
    BY <1>3, <1>9, CurrentIsLeft DEF SetWriteFails, Inv
  <2> QED
    BY <1>1, <1>9, <2>1, GiveUpKeeps, FailingIsTrouble DEF SetWriteFails
<1>10. ASSUME NEW done \in BOOLEAN, NEW reply \in SetAnswers(done),
              SetWrite(done, reply)
       PROVE  Inv' /\ Contract!Work
  <2>1. Quiet /\ SetConfirms(reply) \in BOOLEAN
    BY <1>10 DEF Quiet, SetWrite, Served, SetConfirms, SelectelConfirms,
       YandexConfirms
  <2>2. SetConfirms(reply) => done
    BY <1>1, <1>10 DEF SetAnswers, SetReplies, SetConfirms, SelectelConfirms,
       YandexConfirms
  <2>3. {New} \in SUBSET Addr /\ pc # "idle"
    BY <1>10, CurrentIsLeft DEF Inv, SetWrite
  <2>4. ~SetConfirms(reply) => disturbed \/ trouble'
    <3>1. SUFFICES ASSUME ~disturbed, ~trouble'
                   PROVE  SetConfirms(reply)
      OBVIOUS
    <3>2. SetApplies
      BY <1>1, <1>10, <3>1
         DEF SetWrite, SetApplies, Inv, SnapshotHolds, Listed
    <3> QED
      BY <1>10, <3>1, <3>2 DEF SetWrite, Served, Fails
  <2> QED
    BY <1>1, <1>10, <2>1, <2>2, <2>3, <2>4, WriteKeeps DEF SetWrite
<1> QED
  BY <1>2, <1>4, <1>5, <1>6, <1>8, <1>9, <1>10 DEF SetNext

\* One request: families are those it was carried out for.
LEMMA RequestKeeps ==
  ASSUME Inv, HasOneRequest, UNCHANGED tokenVars,
         NEW families \in SUBSET Sent, NEW confirmed \in BOOLEAN,
         Request(families, confirmed), confirmed => families = Sent
  PROVE  Inv' /\ Contract!Work
<1>1. pc # "idle" /\ ~HasToken /\ Current \in todo
      /\ todo \subseteq Valid(want) /\ Valid(want) \subseteq Families
      /\ \A f \in Valid(want) : want[f] \in Addr
  BY CurrentIsLeft, ProviderAssumption DEF HasOneRequest, HasToken, Request,
     Inv, TypeOK, Valid, Addresses
<1>2. Sent \subseteq todo /\ families \subseteq Families
  BY <1>1 DEF Sent
<1>3. Replaced(families) \in [Families -> SUBSET Addr]
  BY <1>1, <1>2 DEF Replaced, Inv, TypeOK
<1>4. zone' \in [Families -> SUBSET Addr]
  BY <1>3 DEF Request, FallsBack
<1>5. Quiet
  BY <1>1 DEF Quiet, Request, Served
<1>6. RestIsTyped /\ UNCHANGED <<setup, disturbed, want, kind, doubled>>
  BY <1>4, <1>5, QuietIsTyped DEF Request, Return, Inv, TypeOK, setup
<1>7. kind \in {"dyndns2", "duckdns"} => Sent = todo /\ todo = Valid(want)
  BY <1>1 DEF Sent, Inv, AllAtOnce
<1>8. \A f \in Valid(want) : zone'[f] = Replaced(families)[f]
  <2>1. CASE zone' = Replaced(families)
    BY <2>1
  <2>2. CASE kind = "dyndns2" /\ zone' # Replaced(families)
    <3>1. PICK g \in Families \ todo, a \in Addr :
             zone' = [Replaced(families) EXCEPT ![g] = {a}]
      BY <2>2 DEF Request, FallsBack
    <3>2. g \notin Valid(want)
      BY <1>7, <2>2, <3>1
    <3> QED
      BY <1>1, <1>3, <3>1, <3>2
  <2> QED
    BY <2>1, <2>2 DEF Request, FallsBack
<1>9. \A f \in Valid(want) :
         zone'[f] = IF f \in families THEN {want[f]} ELSE zone[f]
  BY <1>1, <1>8 DEF Replaced
<1>10. confirmed => \A f \in Sent : IsThere(f)'
  BY <1>1, <1>2, <1>6, <1>9 DEF IsThere
<1>11. \A f \in Valid(want) \ Sent : zone'[f] = zone[f]
  BY <1>9
<1>12. \A f \in Sent : zone'[f] # zone[f] =>
          want[f] \in zone'[f] /\ zone'[f] \subseteq zone[f] \cup {want[f]}
  BY <1>1, <1>2, <1>9
<1>13. ~confirmed => trouble'
  BY DEF Request, Served, Fails
<1> QED
  BY <1>1, <1>2, <1>6, <1>7, <1>10, <1>11, <1>12, <1>13, ReturnKeeps
     DEF Request

LEMMA OneRequestKeeps ==
  ASSUME Inv, OneRequestNext, UNCHANGED tokenVars
  PROVE  Inv' /\ Contract!Work
<1>1. CASE DyndnsUpdate
  <2>1. PICK done \in SUBSET todo : \E lines \in DynAnswers(done) :
           Request(done, DynConfirms(lines))
    BY <1>1 DEF DyndnsUpdate
  <2>2. PICK lines \in DynAnswers(done) : Request(done, DynConfirms(lines))
    BY <2>1
  <2>3. HasOneRequest /\ Sent = todo /\ DynConfirms(lines) \in BOOLEAN
    BY <1>1 DEF DyndnsUpdate, HasOneRequest, Sent, DynConfirms
  <2>4. todo \subseteq Families /\ Current \in todo
    BY <2>2, CurrentIsLeft DEF Request, Inv, TypeOK, Valid
  <2>5. ASSUME DynConfirms(lines) PROVE done = todo
    <3>1. lines # <<>> /\ \A i \in DOMAIN lines : Good(lines[i])
      BY <2>5 DEF DynConfirms
    <3>2. DOMAIN lines = DOMAIN InOrder
          /\ \A i \in DOMAIN InOrder : InOrder[i] \in done
      BY <3>1 DEF DynAnswers
    <3>3. CASE todo = Families
      <4>1. InOrder = <<"v4", "v6">>
        BY <3>3 DEF InOrder
      <4>2. 1 \in DOMAIN InOrder /\ 2 \in DOMAIN InOrder
        BY <4>1
      <4>3. "v4" \in done /\ "v6" \in done
        BY <3>2, <4>1, <4>2
      <4> QED
        BY <3>3, <4>3 DEF Families
    <3>4. CASE todo # Families
      <4>1. InOrder = <<Current>> /\ todo = {Current}
        BY <2>4, <3>4 DEF InOrder, Current, Families
      <4>2. 1 \in DOMAIN InOrder
        BY <4>1
      <4> QED
        BY <3>2, <4>1, <4>2
    <3> QED
      BY <3>3, <3>4
  <2> QED
    BY <2>2, <2>3, <2>5, RequestKeeps
<1>2. CASE DuckUpdate
  <2>1. PICK done \in BOOLEAN : \E answer \in DuckAnswers(done) :
           Request(IF done THEN todo ELSE {}, DuckConfirms(answer))
    BY <1>2 DEF DuckUpdate
  <2>2. PICK answer \in DuckAnswers(done) :
           Request(IF done THEN todo ELSE {}, DuckConfirms(answer))
    BY <2>1
  <2>3. HasOneRequest /\ Sent = todo /\ DuckConfirms(answer) \in BOOLEAN
        /\ (DuckConfirms(answer) => done)
    BY <1>2, <2>2
       DEF DuckUpdate, HasOneRequest, Sent, DuckConfirms, DuckAnswers
  <2> QED
    BY <2>2, <2>3, RequestKeeps
<1>3. CASE NamecheapSetV4
  <2>1. PICK done \in BOOLEAN : \E count \in NamecheapAnswers(done) :
           Request(IF done THEN {"v4"} ELSE {}, NamecheapConfirms(count))
    BY <1>3 DEF NamecheapSetV4
  <2>2. PICK count \in NamecheapAnswers(done) :
           Request(IF done THEN {"v4"} ELSE {}, NamecheapConfirms(count))
    BY <2>1
  <2>3. HasOneRequest /\ Sent = {"v4"} /\ NamecheapConfirms(count) \in BOOLEAN
    BY <1>3 DEF NamecheapSetV4, HasOneRequest, Sent, NamecheapConfirms
  <2>4. NamecheapConfirms(count) => done
    BY <2>2 DEF NamecheapConfirms, NamecheapAnswers, Unread
  <2> QED
    BY <2>2, <2>3, <2>4, RequestKeeps
<1>4. CASE NamecheapRefusesV6
  <2>1. Quiet /\ pc # "idle" /\ kind = "namecheap"
    BY <1>4 DEF Quiet, NamecheapRefusesV6, HasToken
  <2>2. {"v6"} \in SUBSET todo
    BY <1>4, CurrentIsLeft DEF NamecheapRefusesV6, Inv
  <2>3. \E f \in {"v6"} : Hopeless(f)
    BY <2>1 DEF Hopeless
  <2>4. Return({"v6"}, TRUE) /\ UNCHANGED <<setup, name>>
    BY <1>4 DEF NamecheapRefusesV6
  <2> QED
    BY <2>1, <2>2, <2>3, <2>4, GiveUpKeeps
<1>5. CASE DNSUpdate
  <2>1. PICK done \in BOOLEAN : \E reply \in DNSAnswers(done) :
           Request(IF done THEN {Current} ELSE {}, DNSConfirms(reply))
    BY <1>5 DEF DNSUpdate
  <2>2. PICK reply \in DNSAnswers(done) :
           Request(IF done THEN {Current} ELSE {}, DNSConfirms(reply))
    BY <2>1
  <2>3. HasOneRequest /\ Sent = {Current} /\ DNSConfirms(reply) \in BOOLEAN
        /\ (DNSConfirms(reply) => done)
    BY <1>5, <2>2
       DEF DNSUpdate, HasOneRequest, Sent, DNSConfirms, DNSAnswers
  <2> QED
    BY <2>2, <2>3, RequestKeeps
<1> QED
  BY <1>1, <1>2, <1>3, <1>4, <1>5 DEF OneRequestNext

-----------------------------------------------------------------------------
(* The rest of the program and its environment                             *)

LEMMA AskKeeps ==
  ASSUME Inv, NEW addrs \in Addresses, Begin(addrs), UNCHANGED tokenVars
  PROVE  Inv' /\ Contract!Ask(addrs)
<1>1. TypeOK'
  BY DEF Inv, TypeOK, Begin, Opening, Family, tokenVars, setup, name, Valid,
     HasToken
<1>2. AllAtOnce' /\ SuccessIsPublished' /\ DoneSoFar'
  BY DEF AllAtOnce, SuccessIsPublished, DoneSoFar, Begin, Opening, Family,
     setup, Valid
<1>3. Contract!Ask(addrs)
  BY DEF Contract!Ask, Begin, Opening, Family, name
<1>4. SnapshotHolds'
  BY DEF SnapshotHolds, Begin, Opening, Family, setup, Listed, Leaves
<1>5. FailsForAReason' /\ ReasonSoFar'
  BY DEF FailsForAReason, ReasonSoFar, Begin
<1>6. TokenTrusted'
  <2>1. ~retried /\ retried' = retried
    BY DEF Inv, TokenTrusted, Begin, tokenVars
  <2> QED
    BY <2>1 DEF TokenTrusted
<1> QED
  BY <1>1, <1>2, <1>3, <1>4, <1>5, <1>6 DEF Inv

LEMMA EnvironmentKeeps ==
  ASSUME Inv, Environment \/ UNCHANGED vars
  PROVE  /\ Inv'
         /\ \/ Contract!Work \/ Contract!SomebodyElse
            \/ UNCHANGED Contract!contractVars
<1>1. CASE Restart
  <2>1. TypeOK' /\ AllAtOnce' /\ SuccessIsPublished' /\ SnapshotHolds'
        /\ pc' = "idle"
    BY <1>1 DEF Restart, Crash, Forget, Nothing, Inv, TypeOK, AllAtOnce,
       SuccessIsPublished, SnapshotHolds, Texts, setup, name, past, Valid
  <2>2. Contract!Work
    BY <1>1 DEF Restart, Crash, Contract!Work, Contract!Towards, name, past
  <2>3. TokenTrusted' /\ FailsForAReason'
    BY <1>1 DEF Restart, Crash, TokenTrusted, FailsForAReason
  <2> QED
    BY <2>1, <2>2, <2>3 DEF Inv
<1>2. CASE Edit /\ UNCHANGED tokenVars
  <2>1. zone' \in [Families -> SUBSET Addr] /\ text' \in Texts
        /\ doubled' = doubled
    BY <1>2 DEF Edit, Edited, Inv, TypeOK
  <2>2. edits' \in 0..MaxEdits
    BY <1>2, ProviderAssumption DEF Edit, Inv, TypeOK
  <2>3. TypeOK' /\ AllAtOnce' /\ disturbed'
    BY <1>2, <2>1, <2>2 DEF Edit, Inv, TypeOK, AllAtOnce, tokenVars, setup,
       call, Valid, HasToken
  <2>4. Contract!SomebodyElse
    BY <1>2 DEF Edit, call, Contract!SomebodyElse
  <2>5. TokenTrusted'
    BY <1>2 DEF Edit, Inv, TokenTrusted, tokenVars, call, HasToken, setup
  <2> QED
    BY <2>3, <2>4, <2>5 DEF Inv, SuccessIsPublished, FailsForAReason
<1>3. CASE \/ TokenWithdrawn \/ TokenExpires \/ UNCHANGED vars
           \/ CalmDown /\ UNCHANGED tokenVars
  <2>1. UNCHANGED <<setup, call, name, edits, disturbed>>
        /\ trouble' \in BOOLEAN /\ calm' \in BOOLEAN
    BY <1>3 DEF TokenWithdrawn, TokenExpires, CalmDown, vars, providerVars,
       past, Inv, TypeOK
  <2>2. /\ cached' \in {"none", "fresh", "stale"} /\ accepted' \in BOOLEAN
        /\ retried' = retried /\ ready' = ready
        /\ cached' = "none" => cached = "none"
    BY <1>3 DEF TokenWithdrawn, Withdraw, TokenExpires, Expire, CalmDown,
       vars, tokenVars, Inv, TypeOK
  <2>3. TypeOK'
    BY <2>1, <2>2 DEF Inv, TypeOK, setup, call, name, Valid, HasToken
  <2>4. AllAtOnce' /\ SuccessIsPublished' /\ (DoneSoFar => DoneSoFar')
        /\ (SnapshotHolds => SnapshotHolds')
    BY <2>1 DEF Inv, AllAtOnce, SuccessIsPublished, DoneSoFar, IsThere,
       SnapshotHolds, Current, setup, call, name, Valid, Leaves
  <2>5. trouble => trouble'
    <3>1. CASE UNCHANGED trouble
      BY <3>1, Zenon
    <3>2. CASE TokenWithdrawn
      BY <3>2, Zenon DEF TokenWithdrawn
    <3> QED
      BY <1>3, <3>1, <3>2
         DEF TokenExpires, CalmDown, vars, providerVars, past
  <2>6. FailsForAReason' /\ (~trouble' /\ ReasonSoFar => ReasonSoFar')
    BY <2>1, <2>5 DEF Inv, FailsForAReason, ReasonSoFar, Hopeless, Several,
       setup, call, name, Valid
  <2>7. TokenTrusted'
    <3>1. retried => HasToken' /\ pc' # "idle"
      BY <2>1 DEF Inv, TokenTrusted, HasToken, setup, call
    <3>2. ASSUME retried, ~trouble'
          PROVE  IF ready THEN accepted' ELSE cached' = "none"
      <4>1. IF ready THEN accepted ELSE cached = "none"
        BY <2>5, <3>2 DEF Inv, TokenTrusted
      <4>2. ~TokenWithdrawn
        BY <3>2 DEF Inv, TokenTrusted, TokenWithdrawn
      <4> QED
        BY <1>3, <4>1, <4>2
           DEF TokenExpires, Expire, CalmDown, vars, tokenVars
    <3> QED
      BY <2>2, <3>1, <3>2 DEF TokenTrusted
  <2> QED
    BY <2>1, <2>3, <2>4, <2>5, <2>6, <2>7
       DEF Inv, Contract!contractVars, call, name
<1> QED
  BY <1>1, <1>2, <1>3 DEF Environment

LEMMA NextKeeps ==
  ASSUME Inv, [Next]_vars
  PROVE  Inv' /\ [Contract!Next]_Contract!contractVars
<1>1. CASE Ask
  <2>1. PICK addrs \in Addresses : Begin(addrs)
    BY <1>1 DEF Ask
  <2>2. addrs \in [Families -> Addr \cup {Unknown}]
    BY ProviderAssumption DEF Addresses
  <2> QED
    BY <1>1, <2>1, <2>2, AskKeeps DEF Ask, Contract!Next
<1>2. CASE Update
  BY <1>2, SetKeeps, SeparateKeeps, BegetKeeps, OneRequestKeeps
     DEF Update, Contract!Next
<1>3. CASE Environment \/ UNCHANGED vars
  BY <1>3, EnvironmentKeeps DEF Contract!Next
<1> QED
  BY <1>1, <1>2, <1>3 DEF Next, Program, Satisfied

LEMMA InitKeeps ==
  ASSUME InitAll
  PROVE  Inv /\ Contract!Init
<1>1. /\ overfull \subseteq Families /\ keyed \in BOOLEAN
      /\ doubled \subseteq {f \in Families : kind \in Counts}
      /\ zone \in [Families -> SUBSET Addr] /\ edits \in 0..MaxEdits
  <2>1. overfull \subseteq Families /\ keyed \in BOOLEAN
        /\ doubled \subseteq {f \in Families : kind \in Counts}
    BY DEF InitAll, Init
  <2>2. zone \in [Families -> SUBSET Addr]
    BY ProviderAssumption DEF InitAll, Init
  <2>3. edits \in 0..MaxEdits
    BY ProviderAssumption DEF InitAll, Init
  <2> QED
    BY <2>1, <2>2, <2>3
<1>2. TypeOK
  BY <1>1 DEF InitAll, Init, TokenInit, TypeOK, Nothing, Texts
<1>3. /\ AllAtOnce /\ SuccessIsPublished /\ SnapshotHolds
      /\ FailsForAReason /\ TokenTrusted /\ pc = "idle"
  BY DEF InitAll, Init, TokenInit, AllAtOnce, SuccessIsPublished,
     SnapshotHolds, FailsForAReason, TokenTrusted
<1>4. Contract!Init
  BY <1>1, <1>2, ProviderAssumption
     DEF InitAll, Init, Contract!Init, TypeOK, Addresses
<1> QED
  BY <1>2, <1>3, <1>4 DEF Inv

-----------------------------------------------------------------------------
(* What one step of an update may do to the records                        *)

\* The records of any other family, and of any other type, stay.
Spares ==
    \/ disturbed /\ kind = "beget"
    \/ /\ text' = text
       /\ \A f \in Families : zone'[f] # zone[f] =>
             f \in todo \/ kind = "dyndns2"

\* A family that changes is left with a single record.
Unifies ==
    ~disturbed => \A f \in Families :
        \/ zone'[f] = zone[f]
        \/ f \notin doubled' /\ \E a \in Addr : zone'[f] = {a}

LEMMA NothingWritten ==
  ASSUME UNCHANGED name
  PROVE  Spares /\ Unifies
  BY DEF name, Spares, Unifies

LEMMA PutEffect ==
  ASSUME Inv, pc # "idle", NEW new, Put(new),
         ~disturbed => new = {New} /\ Current \notin doubled
  PROVE  Spares /\ Unifies
<1>1. Current \in todo /\ Current \in Families /\ New \in Addr
  BY CurrentIsLeft DEF Inv
<1>2. /\ text' = text /\ zone'[Current] = new
      /\ \A f \in Families \ {Current} : zone'[f] = zone[f]
  BY <1>1 DEF Put, Inv, TypeOK
<1>3. doubled' = doubled
  BY DEF Put
<1> QED
  BY <1>1, <1>2, <1>3 DEF Spares, Unifies

LEMMA SeparateEffect ==
  ASSUME Inv, SeparateNext
  PROVE  Spares /\ Unifies
<1>1. CASE CloudflareList \/ TimewebList \/ ListFailed
  BY <1>1, NothingWritten
     DEF CloudflareList, TimewebList, ListFailed, SetOne, Settle, GoOn
<1>2. ASSUME NEW done \in BOOLEAN, NEW reply \in SeparateAnswers(done),
             SeparateWrite(done, reply)
      PROVE  Spares /\ Unifies
  <2>1. CASE done
    <3>1. Put(Target) /\ pc = "write" /\ kind \in Listed
      BY <1>2, <2>1 DEF SeparateWrite, SeparateNext, Listed
    <3>2. ~disturbed => Target = {New} /\ Current \notin doubled
      BY <1>2, <3>1
         DEF Inv, SnapshotHolds, Target, SeparateNext, Listed, Leaves
    <3> QED
      BY <3>1, <3>2, PutEffect
  <2>2. CASE ~done
    BY <1>2, <2>2, NothingWritten DEF SeparateWrite
  <2> QED
    BY <2>1, <2>2
<1> QED
  BY <1>1, <1>2 DEF SeparateNext

LEMMA SetEffect ==
  ASSUME Inv, SetNext
  PROVE  Spares /\ Unifies
<1>1. CASE \/ Token \/ SelectelCallFails \/ YandexCallFails \/ FindZone
           \/ SelectelList \/ YandexList \/ SetWriteFails
  <2>1. UNCHANGED name
    BY <1>1 DEF Token, SelectelCallFails, YandexCallFails, FindZone,
       SelectelList, YandexList, SetWriteFails, SelectelSetOne, YandexSetOne,
       Settle, GoOn, providerVars
  <2> QED
    BY <2>1, NothingWritten
<1>2. ASSUME NEW done \in BOOLEAN, NEW reply \in SetAnswers(done),
             SetWrite(done, reply)
      PROVE  Spares /\ Unifies
  <2>1. doubled = {}
    BY NoneIsDoubled DEF SetNext, HasToken, Counts
  <2> QED
    BY <1>2, <2>1, PutEffect, NothingWritten DEF SetWrite
<1> QED
  BY <1>1, <1>2 DEF SetNext

\* beget sends back what it read, so only an edit since then is lost.
LEMMA BegetEffect ==
  ASSUME Inv, BegetNext
  PROVE  Spares /\ Unifies
<1>1. CASE GetRecords \/ ListFailed
  BY <1>1, NothingWritten DEF GetRecords, ListFailed, Settle, GoOn
<1>2. ASSUME NEW done \in BOOLEAN, NEW reply \in BegetAnswers(done),
             ChangeRecords(done, reply)
      PROVE  Spares /\ Unifies
  <2>1. CASE done /\ ~disturbed
    <3>1. Current \in todo /\ Current \in Families /\ New \in Addr
      BY <1>2, CurrentIsLeft DEF Inv, ChangeRecords
    <3>2. seen = zone /\ seenText = text
      BY <1>2, <2>1 DEF Inv, SnapshotHolds, ChangeRecords, BegetNext
    <3>3. text' = text /\ zone' = [zone EXCEPT ![Current] = {New}]
      BY <1>2, <2>1, <3>2 DEF ChangeRecords, WriteBack, Updated
    <3>4. /\ zone'[Current] = {New}
          /\ \A f \in Families \ {Current} : zone'[f] = zone[f]
          /\ Current \notin doubled'
      BY <1>2, <2>1, <3>1, <3>3 DEF Inv, TypeOK, ChangeRecords, WriteBack
    <3> QED
      BY <3>1, <3>3, <3>4 DEF Spares, Unifies
  <2>2. CASE ~done
    BY <1>2, <2>2, NothingWritten DEF ChangeRecords
  <2>3. CASE disturbed
    BY <2>3 DEF Spares, Unifies, BegetNext
  <2> QED
    BY <2>1, <2>2, <2>3
<1> QED
  BY <1>1, <1>2 DEF BegetNext

LEMMA RequestEffect ==
  ASSUME Inv, HasOneRequest, NEW families \in SUBSET Sent,
         NEW confirmed \in BOOLEAN, Request(families, confirmed)
  PROVE  Spares /\ Unifies
<1>1. /\ Sent \subseteq todo /\ todo \subseteq Families /\ text' = text
      /\ \A f \in todo : want[f] \in Addr
      /\ doubled' = {}
  <2>1. doubled' = {}
    BY NoneIsDoubled DEF Request, HasOneRequest, Counts
  <2> QED
    BY <2>1, CurrentIsLeft, ProviderAssumption
       DEF Request, Sent, Inv, TypeOK, Valid, Addresses
<1>2. \A f \in Families :
         Replaced(families)[f] = IF f \in families THEN {want[f]} ELSE zone[f]
  BY DEF Replaced
<1>3. CASE zone' = Replaced(families)
  BY <1>1, <1>2, <1>3 DEF Spares, Unifies
<1>4. CASE kind = "dyndns2" /\ zone' # Replaced(families)
  <2>1. PICK g \in Families \ todo, a \in Addr :
           zone' = [Replaced(families) EXCEPT ![g] = {a}]
    BY <1>4 DEF Request, FallsBack
  <2>2. \A f \in Families :
           zone'[f] = IF f = g THEN {a} ELSE Replaced(families)[f]
    BY <2>1 DEF Replaced
  <2> QED
    BY <1>1, <1>2, <1>4, <2>1, <2>2 DEF Spares, Unifies
<1> QED
  BY <1>3, <1>4 DEF Request, FallsBack

LEMMA OneRequestEffect ==
  ASSUME Inv, OneRequestNext
  PROVE  Spares /\ Unifies
<1>1. CASE DyndnsUpdate
  <2>1. HasOneRequest /\ Sent = todo
    BY <1>1 DEF DyndnsUpdate, HasOneRequest, Sent
  <2> QED
    BY <1>1, <2>1, RequestEffect DEF DyndnsUpdate, DynConfirms
<1>2. CASE DuckUpdate
  <2>1. HasOneRequest /\ Sent = todo
    BY <1>2 DEF DuckUpdate, HasOneRequest, Sent
  <2> QED
    BY <1>2, <2>1, RequestEffect DEF DuckUpdate, DuckConfirms
<1>3. CASE NamecheapSetV4
  <2>1. HasOneRequest /\ Sent = {"v4"}
    BY <1>3 DEF NamecheapSetV4, HasOneRequest, Sent
  <2> QED
    BY <1>3, <2>1, RequestEffect DEF NamecheapSetV4, NamecheapConfirms
<1>4. CASE NamecheapRefusesV6
  BY <1>4, NothingWritten DEF NamecheapRefusesV6
<1>5. CASE DNSUpdate
  <2>1. HasOneRequest /\ Sent = {Current}
    BY <1>5 DEF DNSUpdate, HasOneRequest, Sent
  <2> QED
    BY <1>5, <2>1, RequestEffect DEF DNSUpdate, DNSConfirms
<1> QED
  BY <1>1, <1>2, <1>3, <1>4, <1>5 DEF OneRequestNext

LEMMA UpdateEffect ==
  ASSUME Inv, Update
  PROVE  Spares /\ Unifies
  BY SetEffect, SeparateEffect, BegetEffect, OneRequestEffect DEF Update

-----------------------------------------------------------------------------

\* Every variable keeps its type, whatever the service answers.
THEOREM ProvidersTypeOK == Spec => []TypeOK
<1>1. InitAll => Inv
  BY InitKeeps
<1>2. Inv /\ [Next]_vars => Inv'
  BY NextKeeps
<1>3. Inv => TypeOK
  BY DEF Inv
<1> QED
  BY <1>1, <1>2, <1>3, PTL DEF Spec

\* Update, of every provider except regru: without an error it has left the
\* wanted addresses in the zone, for any addresses, whatever the operator left
\* there, whatever the service answered and however its token fared.
THEOREM SuccessMeansPublished == Spec => []SuccessIsPublished
<1>1. InitAll => Inv
  BY InitKeeps
<1>2. Inv /\ [Next]_vars => Inv'
  BY NextKeeps
<1>3. Inv => SuccessIsPublished
  BY DEF Inv
<1> QED
  BY <1>1, <1>2, <1>3, PTL DEF Spec

\* doCall, setOne: an update whose calls all worked, and that nobody disturbed,
\* fails only where the records leave no choice or the service has no such
\* family; an expired or withdrawn token is not among the reasons.
THEOREM FailureHasAReason == Spec => []FailsForAReason
<1>1. InitAll => Inv
  BY InitKeeps
<1>2. Inv /\ [Next]_vars => Inv'
  BY NextKeeps
<1>3. Inv => FailsForAReason
  BY DEF Inv
<1> QED
  BY <1>1, <1>2, <1>3, PTL DEF Spec

\* setOne of beget, and the parameters of the one-request services: no step of
\* an update touches a record it was not asked about, save an edit undone by
\* beget and the other family of dyndns2.
THEOREM OtherRecordsSurvive == Spec => OthersSurvive
<1>1. InitAll => Inv
  BY InitKeeps
<1>2. Inv /\ [Next]_vars => Inv'
  BY NextKeeps
<1>3. Inv => [Update =>
                 \/ disturbed /\ kind = "beget"
                 \/ /\ text' = text
                    /\ \A f \in Families : zone'[f] # zone[f] =>
                          f \in todo \/ kind = "dyndns2"]_vars
  BY UpdateEffect DEF Spares
<1> QED
  BY <1>1, <1>2, <1>3, PTL DEF Spec, OthersSurvive

\* setOne: however many records of a type were at the name, an update that
\* changes them undisturbed leaves one.
THEOREM RecordsNeverMultiply == Spec => NeverMultiplies
<1>1. InitAll => Inv
  BY InitKeeps
<1>2. Inv /\ [Next]_vars => Inv'
  BY NextKeeps
<1>3. Inv => [Update /\ ~disturbed =>
                 \A f \in Families :
                     \/ zone'[f] = zone[f]
                     \/ Cardinality(zone'[f]) = 1 /\ f \notin doubled']_vars
  <2>1. \A a : Cardinality({a}) = 1
    BY FS_Singleton
  <2>2. Inv /\ Update => Unifies
    BY UpdateEffect
  <2> QED
    BY <2>1, <2>2 DEF Unifies
<1> QED
  BY <1>1, <1>2, <1>3, PTL DEF Spec, NeverMultiplies

\* Every provider keeps the contract the instance relies on: an update moves
\* the records of its families to the wanted addresses or leaves them alone,
\* and says that it succeeded only if they are there.
THEOREM EveryProviderKeepsContract == Spec => KeepsContract
<1>1. InitAll => Inv /\ Contract!Init
  BY InitKeeps
<1>2. Inv /\ [Next]_vars => Inv' /\ [Contract!Next]_Contract!contractVars
  BY NextKeeps
<1> QED
  BY <1>1, <1>2, PTL DEF Spec, KeepsContract, Contract!Spec

=============================================================================
