------------------------------- MODULE Regru -------------------------------
(***************************************************************************)
(* The provider regru, plugins/providers/regru/provider.go. The API has no *)
(* way to change a record, so a record with another address is replaced:   *)
(* the new one is added, then the old ones are removed. Any call may fail, *)
(* before or after it took effect, and the process may stop between two    *)
(* calls. The caller tries again until an update succeeds, as the instance *)
(* does; meanwhile the address of the host may have changed.               *)
(*                                                                         *)
(* Both families are written by one update, one after the other, each in   *)
(* its own record type; a failure of one does not stop the other.          *)
(***************************************************************************)
EXTENDS FiniteSets, Integers

CONSTANTS
    Addr,            \* addresses of either family
    Unknown,         \* no address
    MaxFound,        \* most records of one type the operator left at the name
    AddressChanges,  \* whether the caller may ask for another address
    Settles          \* whether from some moment on every call works

ASSUME RegruAssumption ==
    /\ Unknown \notin Addr
    /\ MaxFound \in Nat
    /\ AddressChanges \in BOOLEAN
    /\ Settles \in BOOLEAN

Families == {"v4", "v6"}
Addresses == [Families -> Addr \cup {Unknown}]
Valid(addrs) == {f \in Families : addrs[f] # Unknown}

VARIABLES
    pc,      \* what the update does next
    want,    \* the addresses of the current, or last, update
    todo,    \* families of it that are still to be written
    failed,  \* one of its families has failed
    stale,   \* records of the current family that are still to be removed
    result,  \* what the last update returned
    zone,    \* the addresses of the records at the name, by type
    twice,   \* those of them that two records have
    mine,    \* those of them that this provider has added (history)
    refused, \* families the last update refused to touch
    calm     \* every call works from now on

call == <<pc, want, todo, failed, stale, result>>
vars == <<call, zone, twice, mine, refused, calm>>

\* How many records of type f there are.
Records(f) == Cardinality(zone[f]) + Cardinality(twice[f])

Init ==
    /\ pc = "idle" /\ todo = {} /\ failed = FALSE /\ stale = {}
    /\ result = "none" /\ refused = {}
    /\ want \in {addrs \in Addresses : Valid(addrs) # {}}
    /\ zone \in [Families -> {s \in SUBSET Addr : Cardinality(s) <= MaxFound}]
    /\ twice \in {t \in [Families -> SUBSET Addr] : \A f \in Families :
                    t[f] \subseteq zone[f]
                    /\ Cardinality(zone[f]) + Cardinality(t[f]) <= MaxFound}
    /\ mine = [f \in Families |-> {}]
    /\ calm = FALSE

\* The family being written: IPv4 goes first.
Current == IF "v4" \in todo THEN "v4" ELSE "v6"
New     == want[Current]

\* Update is called: again after a failure, or for other addresses.
Begin(addrs) ==
    /\ pc = "idle" /\ Valid(addrs) # {}
    /\ \/ addrs = want /\ result # "ok"
       \/ addrs # want /\ AddressChanges /\ ~calm
    /\ pc' = "list"
    /\ want' = addrs
    /\ todo' = Valid(addrs)
    /\ failed' = FALSE
    /\ result' = "none"
    /\ refused' = {}
    /\ UNCHANGED <<stale, zone, twice, mine, calm>>

\* setOne returns, and with the last family Update does.
Return(err) ==
    /\ todo' = todo \ {Current}
    /\ failed' = (failed \/ err)
    /\ stale' = {}
    /\ pc' = IF todo' = {} THEN "idle" ELSE "list"
    /\ result' = CASE todo' # {}       -> result
                   [] failed \/ err    -> "failed"
                   [] OTHER            -> "ok"
    /\ UNCHANGED want

-----------------------------------------------------------------------------
(* setOne                                                                  *)

ListFailed ==
    /\ pc = "list" /\ ~calm
    /\ Return(TRUE)
    /\ UNCHANGED <<zone, twice, mine, refused, calm>>

Ambiguous == New \notin zone[Current] /\ Records(Current) > 1

Refuse ==
    /\ pc = "list" /\ Ambiguous
    /\ Return(TRUE)
    /\ refused' = refused \cup {Current}
    /\ UNCHANGED <<zone, twice, mine, calm>>

StaleAll == zone[Current]               \* variant: the wanted one is not spared
StaleUnlessCurrent ==                   \* variant: its presence is enough
    IF New \in zone[Current] THEN {} ELSE zone[Current]
Stale == zone[Current] \ {New}

Listed ==
    /\ pc = "list" /\ ~Ambiguous
    /\ stale' = Stale
    /\ pc' = IF New \in zone[Current] THEN "remove" ELSE "add"
    /\ UNCHANGED <<want, todo, failed, result>>
    /\ UNCHANGED <<zone, twice, mine, refused, calm>>

\* The new record reaches the zone, and is from now on this provider's.
Reaches ==
    /\ zone' = [zone EXCEPT ![Current] = @ \cup {New}]
    /\ mine' = [mine EXCEPT ![Current] = @ \cup {New}]
    /\ UNCHANGED twice

Add ==
    /\ pc = "add"
    /\ Reaches
    /\ pc' = "remove"
    /\ UNCHANGED <<want, todo, failed, stale, result, refused, calm>>

\* The call reports an error, although it may have been effective.
AddFailed(effective) ==
    /\ pc = "add" /\ ~calm
    /\ IF effective THEN Reaches ELSE UNCHANGED <<zone, twice, mine>>
    /\ Return(TRUE)
    /\ UNCHANGED <<refused, calm>>

\* The records with the address old are taken out of the zone.
Vanishes(old) ==
    /\ zone' = [zone EXCEPT ![Current] = @ \ {old}]
    /\ mine' = [mine EXCEPT ![Current] = @ \ {old}]
    /\ twice' = [twice EXCEPT ![Current] = @ \ {old}]

Remove(old) ==
    /\ pc = "remove" /\ old \in stale
    /\ Vanishes(old)
    /\ stale' = stale \ {old}
    /\ UNCHANGED <<pc, want, todo, failed, result, refused, calm>>

\* variant: a failed removal is passed over.
RemoveIgnoresError(old, effective) ==
    /\ pc = "remove" /\ old \in stale /\ ~calm
    /\ IF effective THEN Vanishes(old) ELSE UNCHANGED <<zone, twice, mine>>
    /\ stale' = stale \ {old}
    /\ UNCHANGED <<pc, want, todo, failed, result, refused, calm>>

RemoveFailed(old, effective) ==
    /\ pc = "remove" /\ old \in stale /\ ~calm
    /\ IF effective THEN Vanishes(old) ELSE UNCHANGED <<zone, twice, mine>>
    /\ Return(TRUE)
    /\ UNCHANGED <<refused, calm>>

Written ==
    /\ pc = "remove" /\ stale = {}
    /\ Return(FALSE)
    /\ UNCHANGED <<zone, twice, mine, refused, calm>>

\* The process stops. What it knew of the update is gone.
Crash ==
    /\ pc # "idle" /\ ~calm
    /\ pc' = "idle" /\ todo' = {} /\ failed' = FALSE /\ stale' = {}
    /\ result' = "none"
    /\ UNCHANGED <<want, zone, twice, mine, refused, calm>>

CalmDown ==
    /\ Settles /\ ~calm
    /\ calm' = TRUE
    /\ UNCHANGED <<call, zone, twice, mine, refused>>

SetOne ==
    \/ ListFailed \/ Refuse \/ Listed \/ Add \/ Written
    \/ \E effective \in BOOLEAN : AddFailed(effective)
    \/ \E old \in Addr :
          \/ Remove(old)
          \/ \E effective \in BOOLEAN : RemoveFailed(old, effective)

Program == SetOne \/ \E addrs \in Addresses : Begin(addrs)

\* After a success there may be nothing left to ask for.
Satisfied == pc = "idle" /\ result = "ok" /\ UNCHANGED vars

Next == Program \/ Crash \/ CalmDown \/ Satisfied

Spec     == Init /\ [][Next]_vars
FairSpec == Spec /\ WF_vars(Program)

-----------------------------------------------------------------------------

\* Every variable has its type; an update ends with its last family (Update).
TypeOK ==
    /\ pc \in {"idle", "list", "add", "remove"}
    /\ want \in Addresses
    /\ todo \subseteq Valid(want) /\ (pc = "idle" <=> todo = {})
    /\ failed \in BOOLEAN
    /\ stale \subseteq Addr
    /\ result \in {"none", "ok", "failed"}
    /\ zone \in [Families -> SUBSET Addr]
    /\ twice \in [Families -> SUBSET Addr]
    /\ mine \in [Families -> SUBSET Addr]
    /\ refused \subseteq Families
    /\ calm \in BOOLEAN

\* What setOne removes is never the address it is to publish, and it removes
\* only while that address is in the zone: so a removal that is cut short, or
\* wrongly reported as failed, never leaves the name with old addresses alone.
AddedBeforeRemoved ==
    pc = "remove" => New \in zone[Current] /\ New \notin stale

\* An update that returns without an error has left exactly the wanted address
\* in every family it was given: this is what the instance then relies on.
SuccessIsExact ==
    pc = "idle" /\ result = "ok" =>
        \A f \in Valid(want) : zone[f] = {want[f]}

\* setOne: adding first keeps the name resolvable throughout; no step takes
\* away the last record of a family.
StaysResolvable ==
    [][\A f \in Families : zone[f] # {} => zone'[f] # {}]_vars

\* setOne: what was cut short is completed by a later call: once the calls
\* work, every family gets exactly the wanted address, whatever was left in it
\* before, unless it is one that has to be refused.
FailedRemovalHeals ==
    (<>calm) => <>[](\A f \in Valid(want) :
                        \/ zone[f] = {want[f]}
                        \/ want[f] \notin zone[f] /\ Records(f) > 1)

\* setOne: two or more records, none of them the wanted one, is a state this
\* provider did not create: if an update refuses a family, more than one of
\* its records is there by somebody else's hand.
RefusesForeignOnly ==
    \A f \in refused :
        Cardinality(zone[f] \ mine[f]) + Cardinality(twice[f] \ mine[f]) > 1

=============================================================================
