---------------------------- MODULE RecordKeeper ----------------------------
(***************************************************************************)
(* What an instance of dnspatch promises about the records it keeps,       *)
(* whatever its retrievers, its backoff and its hooks do: beside every     *)
(* record it holds a belief, and a record is only written in a family      *)
(* whose belief differs. A write that succeeds makes the belief true; one  *)
(* that fails, in part or as a whole, leaves no belief about any family of *)
(* that provider; shutdown and restart leave no belief at all.             *)
(***************************************************************************)
CONSTANTS Providers, Families, Addr, Unknown

Maybe == Addr \cup {Unknown}

VARIABLES belief, record
keeperVars == <<belief, record>>

Ignorance == [f \in Families |-> Unknown]

Init ==
    /\ belief = [p \in Providers |-> Ignorance]
    /\ record \in [Providers -> [Families -> Maybe]]

\* The addresses of new that a write to provider p sends: those not believed
\* to be there already.
Missing(p, new) == {f \in Families : new[f] \notin {Unknown, belief[p][f]}}

Overwrite(old, new, sent) ==
    [f \in Families |-> IF f \in sent THEN new[f] ELSE old[f]]

Accept(p, new) ==
    /\ record' = [record EXCEPT ![p] = Overwrite(@, new, Missing(p, new))]
    /\ belief' = [belief EXCEPT ![p] = Overwrite(@, new, Missing(p, new))]

Fail(p, new, sent) ==
    /\ sent \subseteq Missing(p, new)
    /\ record' = [record EXCEPT ![p] = Overwrite(@, new, sent)]
    /\ belief' = [belief EXCEPT ![p] = Ignorance]

\* The process is told to stop or dies, perhaps in the middle of a write.
Forget(p, new, sent) ==
    /\ sent \subseteq Missing(p, new)
    /\ record' = [record EXCEPT ![p] = Overwrite(@, new, sent)]
    /\ belief' = [q \in Providers |-> Ignorance]

Next ==
    \E p \in Providers, new \in [Families -> Maybe] :
        \/ Accept(p, new)
        \/ \E sent \in SUBSET Families :
              Fail(p, new, sent) \/ Forget(p, new, sent)

Spec == Init /\ [][Next]_keeperVars

\* What the beliefs are for: an address that is believed published is.
BeliefsHold ==
    \A p \in Providers, f \in Families :
        belief[p][f] \in {Unknown, record[p][f]}

=============================================================================
