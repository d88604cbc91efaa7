---------------------------- MODULE RegruProofs ----------------------------
(***************************************************************************)
(* Proofs about the provider regru, for every set of addresses and every   *)
(* state in which the operator left the name. SuccessIsExact is not        *)
(* inductive: it needs to know, in the middle of an update, how the list   *)
(* of records to remove relates to the zone, and that the families already *)
(* written without an error hold their address.                            *)
(***************************************************************************)
EXTENDS Regru, TLAPS

\* The zone holds what is still to be removed and, once it is added, the
\* wanted address; nothing else.
ListIsExact ==
    /\ pc = "add"    => New \notin zone[Current] /\ stale = zone[Current]
    /\ pc = "remove" => New \in zone[Current] /\ stale = zone[Current] \ {New}

\* As long as no family failed, those that are done hold their address.
DoneIsExact == ~failed => \A f \in Valid(want) \ todo : zone[f] = {want[f]}

Inv == TypeOK /\ ListIsExact /\ (pc # "idle" => DoneIsExact) /\ SuccessIsExact

\* The family being written is one of those that are left.
LEMMA CurrentIsLeft ==
  ASSUME TypeOK, pc # "idle"
  PROVE  Current \in todo /\ Current \in Valid(want) /\ New \in Addr
  BY DEF TypeOK, Current, New, Valid, Families, Addresses

\* Whatever setOne did to the records of its family, the invariant holds when
\* it returns: with an error, or with the wanted address alone in the zone.
LEMMA ReturnKeeps ==
  ASSUME Inv, pc # "idle", NEW err \in BOOLEAN, Return(err),
         zone' \in [Families -> SUBSET Addr],
         mine' \in [Families -> SUBSET Addr],
         twice' \in [Families -> SUBSET Addr],
         refused' \subseteq Families, calm' \in BOOLEAN,
         \A f \in Families \ {Current} : zone'[f] = zone[f],
         ~err => zone'[Current] = {New}
  PROVE  Inv'
<1>1. /\ Current \in todo /\ Current \in Valid(want)
      /\ Valid(want) \subseteq Families
  BY CurrentIsLeft DEF Inv, Valid
<1>2. TypeOK'
  BY DEF Inv, TypeOK, Return
<1>3. ListIsExact'
  BY DEF ListIsExact, Return
<1>4. DoneIsExact'
  <2> SUFFICES ASSUME ~failed, ~err, NEW f \in Valid(want) \ todo'
               PROVE  zone'[f] = {want[f]}
    BY DEF DoneIsExact, Return, Valid
  <2>1. CASE f = Current
    BY <2>1 DEF New
  <2>2. CASE f # Current
    <3>1. f \in Valid(want) \ todo /\ zone'[f] = zone[f]
      BY <1>1, <2>2 DEF Return
    <3> QED
      BY <3>1 DEF Inv, DoneIsExact
  <2> QED
    BY <2>1, <2>2
<1>5. SuccessIsExact'
  <2> SUFFICES ASSUME pc' = "idle", result' = "ok", NEW f \in Valid(want)
               PROVE  zone'[f] = {want[f]}
    BY DEF SuccessIsExact, Return, Valid
  <2>1. todo' = {}
    BY DEF Return
  <2>2. ~failed'
    BY <2>1 DEF Return
  <2> QED
    BY <1>4, <2>1, <2>2 DEF DoneIsExact, Return, Valid
<1> QED
  BY <1>2, <1>3, <1>4, <1>5 DEF Inv

LEMMA InitInv == Init => Inv
  BY DEF Init, Inv, TypeOK, ListIsExact, SuccessIsExact, DoneIsExact, Valid,
         Addresses

LEMMA StepInv == Inv /\ [Next]_vars => Inv'
<1> SUFFICES ASSUME Inv, [Next]_vars
             PROVE  Inv'
  OBVIOUS
<1> USE DEF Inv
<1>1. ASSUME NEW addrs \in Addresses, Begin(addrs)
      PROVE  Inv'
  BY <1>1 DEF Begin, TypeOK, ListIsExact, DoneIsExact, SuccessIsExact, Valid,
              Addresses
<1>2. CASE ListFailed
  BY <1>2, ReturnKeeps DEF ListFailed, TypeOK
<1>3. CASE Refuse
  <2>1. Current \in Families
    BY DEF Current, Families
  <2> QED
    BY <1>3, <2>1, ReturnKeeps DEF Refuse, TypeOK
<1>4. CASE Listed
  BY <1>4, CurrentIsLeft DEF Listed, Stale, TypeOK, ListIsExact, DoneIsExact,
                             SuccessIsExact, Current, New, Families
<1>5. CASE Add
  BY <1>5, CurrentIsLeft DEF Add, Reaches, TypeOK, ListIsExact, DoneIsExact,
                             SuccessIsExact, Current, New, Families, Valid
<1>6. ASSUME NEW effective \in BOOLEAN, AddFailed(effective)
      PROVE  Inv'
  <2>1. New \in Addr /\ Return(TRUE) /\ refused' = refused /\ calm' = calm
    BY <1>6, CurrentIsLeft DEF AddFailed
  <2>2. /\ zone' \in [Families -> SUBSET Addr]
        /\ mine' \in [Families -> SUBSET Addr]
        /\ twice' \in [Families -> SUBSET Addr]
    BY <1>6, <2>1 DEF AddFailed, Reaches, TypeOK
  <2>3. \A f \in Families \ {Current} : zone'[f] = zone[f]
    BY <1>6 DEF AddFailed, Reaches, TypeOK
  <2> QED
    BY <1>6, <2>1, <2>2, <2>3, ReturnKeeps DEF AddFailed, TypeOK
<1>7. ASSUME NEW old \in Addr, Remove(old)
      PROVE  Inv'
  BY <1>7, CurrentIsLeft DEF Remove, Vanishes, TypeOK, ListIsExact, DoneIsExact,
                             SuccessIsExact, Current, New, Families, Valid
<1>8. ASSUME NEW old \in Addr, NEW effective \in BOOLEAN,
             RemoveFailed(old, effective)
      PROVE  Inv'
  <2>1. /\ zone' \in [Families -> SUBSET Addr]
        /\ mine' \in [Families -> SUBSET Addr]
        /\ twice' \in [Families -> SUBSET Addr]
    BY <1>8 DEF RemoveFailed, Vanishes, TypeOK
  <2>2. \A f \in Families \ {Current} : zone'[f] = zone[f]
    BY <1>8 DEF RemoveFailed, Vanishes, TypeOK
  <2> QED
    BY <1>8, <2>1, <2>2, ReturnKeeps DEF RemoveFailed, TypeOK
<1>9. CASE Written
  <2>1. zone[Current] = {New}
    BY <1>9 DEF Written, ListIsExact
  <2> QED
    BY <1>9, <2>1, ReturnKeeps DEF Written, TypeOK
<1>10. CASE Crash
  BY <1>10 DEF Crash, TypeOK, ListIsExact, SuccessIsExact
<1>11. CASE CalmDown
  BY <1>11 DEF CalmDown, call, TypeOK, ListIsExact, DoneIsExact,
               SuccessIsExact, Current, New
<1>12. CASE UNCHANGED vars
  BY <1>12 DEF vars, call, TypeOK, ListIsExact, DoneIsExact, SuccessIsExact,
               Current, New
<1> QED
  BY <1>1, <1>2, <1>3, <1>4, <1>5, <1>6, <1>7, <1>8, <1>9, <1>10, <1>11, <1>12
     DEF Next, Program, SetOne, Satisfied

\* provider.Update: whenever it reports success, each family it was given has
\* exactly the wanted address, however many calls failed or were cut short
\* before, and whatever the operator had left at the name.
THEOREM SuccessMeansExact == Spec => []SuccessIsExact
<1>1. Inv => SuccessIsExact
  BY DEF Inv
<1> QED
  BY InitInv, StepInv, <1>1, PTL DEF Spec

\* setOne removes only while the wanted address is in the zone, and never it.
THEOREM AddsBeforeRemoving == Spec => []AddedBeforeRemoved
<1>1. Inv => AddedBeforeRemoved
  BY DEF Inv, ListIsExact, AddedBeforeRemoved
<1> QED
  BY InitInv, StepInv, <1>1, PTL DEF Spec

\* No step of setOne leaves a name that resolved without a record.
LEMMA StepResolves ==
  ASSUME Inv, [Next]_vars, NEW f \in Families, zone[f] # {}
  PROVE  zone'[f] # {}
<1>1. zone \in [Families -> SUBSET Addr]
  BY DEF Inv, TypeOK
<1>2. ASSUME Reaches
      PROVE  zone'[f] # {}
  BY <1>1, <1>2 DEF Reaches
<1>3. ASSUME NEW old \in Addr, pc = "remove", old \in stale, Vanishes(old)
      PROVE  zone'[f] # {}
  <2>1. New \in zone[Current] /\ New # old
    BY <1>3 DEF Inv, ListIsExact
  <2> QED
    BY <1>1, <1>3, <2>1 DEF Vanishes
<1>4. CASE UNCHANGED zone
  BY <1>4
<1> QED
  BY <1>2, <1>3, <1>4
     DEF Next, Program, SetOne, Satisfied, Begin, ListFailed, Refuse, Listed,
         Add, AddFailed, Remove, RemoveFailed, Written, Crash, CalmDown, vars

\* setOne adds first, so the name stays resolvable through any failure.
THEOREM NameStaysResolvable == Spec => StaysResolvable
<1>1. Inv /\ [Next]_vars
        => [\A f \in Families : zone[f] # {} => zone'[f] # {}]_vars
  BY StepResolves
<1> QED
  BY InitInv, StepInv, <1>1, PTL DEF Spec, StaysResolvable
=============================================================================
