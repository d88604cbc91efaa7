-------------------------- MODULE ProviderContract --------------------------
(***************************************************************************)
(* What an instance relies on when it calls the Update of a provider,      *)
(* whatever its service: while the update runs, the records of a family    *)
(* either stay as they are or come to hold the address asked for, with at  *)
(* most records that were there before; an update that reports success has *)
(* got there in every family it was given; and nothing is promised about   *)
(* an update during which somebody else edits the records.                 *)
(***************************************************************************)
CONSTANTS Families, Addr, Unknown

VARIABLES
    running,  \* an update is running
    asked,    \* the addresses it was given
    answer,   \* what the last one returned: "none", "ok" or "failed"
    records,  \* the addresses at the name, by family
    spoiled   \* somebody else has edited them since it began
contractVars == <<running, asked, answer, records, spoiled>>

Asked == {f \in Families : asked[f] # Unknown}

Init ==
    /\ running = FALSE /\ answer = "none" /\ spoiled = FALSE
    /\ asked \in [Families -> Addr \cup {Unknown}]
    /\ records \in [Families -> SUBSET Addr]

Ask(addrs) ==
    /\ ~running /\ running' = TRUE
    /\ asked' = addrs /\ answer' = "none" /\ spoiled' = FALSE
    /\ UNCHANGED records

\* A family that changes comes to hold its address and nothing new besides.
Towards ==
    \A f \in Asked : records'[f] # records[f] =>
        /\ asked[f] \in records'[f]
        /\ records'[f] \subseteq records[f] \cup {asked[f]}

Published == \A f \in Asked : asked[f] \in records[f]

Work ==
    /\ running /\ UNCHANGED <<asked, spoiled>>
    /\ spoiled \/ Towards
    /\ \/ UNCHANGED <<running, answer>>
       \/ running' = FALSE /\ answer' = "ok" /\ (spoiled \/ Published')
       \/ running' = FALSE /\ answer' \in {"failed", "none"}

SomebodyElse ==
    /\ spoiled' = TRUE
    /\ UNCHANGED <<running, asked, answer>>

Next ==
    \/ \E addrs \in [Families -> Addr \cup {Unknown}] : Ask(addrs)
    \/ Work \/ SomebodyElse

Spec == Init /\ [][Next]_contractVars

=============================================================================
