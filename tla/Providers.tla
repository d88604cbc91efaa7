------------------------------ MODULE Providers ------------------------------
(***************************************************************************)
(* An update by any of the providers except regru, with the service that   *)
(* answers it, the token of those that need one, and an operator who edits *)
(* the records at the same name.                                           *)
(***************************************************************************)
EXTENDS SeparateRecords, RecordSets, WholeName, OneRequest

vars == <<providerVars, tokenVars>>

InitAll == Init /\ TokenInit

Ask ==
    /\ \E addrs \in Addresses : Begin(addrs)
    /\ UNCHANGED tokenVars

Update ==
    \/ SetNext
    \/ (SeparateNext \/ BegetNext \/ OneRequestNext) /\ UNCHANGED tokenVars

Program == Ask \/ Update

\* A restarted process has no token.
Restart ==
    /\ Crash
    /\ cached' = "none" /\ accepted' = FALSE
    /\ ready' = FALSE /\ retried' = FALSE

TokenWithdrawn ==
    /\ ~calm /\ Withdraw
    /\ trouble' = (trouble \/ pc # "idle")
    /\ UNCHANGED <<setup, call, name, edits, disturbed, calm>>

TokenExpires == Expire /\ UNCHANGED providerVars

Environment ==
    \/ Restart \/ TokenWithdrawn \/ TokenExpires
    \/ (Edit \/ CalmDown) /\ UNCHANGED tokenVars

\* After a success there may be nothing left to ask for.
Satisfied == pc = "idle" /\ result = "ok" /\ UNCHANGED vars

Next == Program \/ Environment \/ Satisfied

Spec     == InitAll /\ [][Next]_vars
FairSpec == Spec /\ WF_vars(Program)

-----------------------------------------------------------------------------

\* Every variable has its type; a token is only in hand during an update, and
\* the update ends with its last family.
TypeOK ==
    /\ kind \in Kinds /\ overfull \subseteq Families /\ keyed \in BOOLEAN
    /\ pc \in {"idle", "zone", "list", "write"}
    /\ want \in Addresses
    /\ todo \subseteq Valid(want) /\ (pc = "idle" <=> todo = {})
    /\ failed \in BOOLEAN /\ result \in {"none", "ok", "failed"}
    /\ (result = "none" \/ pc = "idle")
    /\ seen \in [Families -> SUBSET Addr] /\ seenText \in Texts
    /\ zone \in [Families -> SUBSET Addr] /\ text \in Texts
    /\ doubled \subseteq {f \in Families : kind \in Counts}
    /\ edits \in 0..MaxEdits
    /\ disturbed \in BOOLEAN /\ trouble \in BOOLEAN /\ calm \in BOOLEAN
    /\ cached \in {"none", "fresh", "stale"}
    /\ accepted \in BOOLEAN /\ retried \in BOOLEAN
    /\ ready \in BOOLEAN
    /\ (ready => HasToken /\ pc # "idle" /\ cached # "none")

\* Several records at a name are left as they are when one is the wanted one.
Leaves == {"cloudflare", "timeweb"}

\* Update: an update that returns without an error has left the wanted address
\* in every family it was given, unless somebody else has edited the records
\* since it began; and nothing else, except with the providers that take a
\* right record among several for good (setOne of cloudflare and timeweb).
SuccessIsPublished ==
    pc = "idle" /\ result = "ok" /\ ~disturbed =>
        \A f \in Valid(want) :
            /\ want[f] \in zone[f]
            /\ zone[f] = {want[f]} \/ kind \in Leaves

\* The reasons an update may fail for although every call of it worked: the
\* records are too many to choose from, or to list, or the family is one
\* that the service does not have.
Hopeless(f) ==
    \/ /\ kind \notin {"dyndns2", "duckdns", "namecheap", "rfc2136"}
       /\ want[f] \notin zone[f] /\ Several(f, zone[f])
    \/ f \in overfull
    \/ kind = "namecheap" /\ f = "v6"

\* doCall: an update of which every call worked fails only for such a reason;
\* a token that expired or was revoked before the update is none.
FailsForAReason ==
    pc = "idle" /\ result = "failed" /\ ~trouble /\ ~disturbed =>
        \E f \in Valid(want) : Hopeless(f)

\* setOne of beget, and the parameters of the one-request services: what an
\* update changes is at most one family it was given (both with the services
\* that take them in one request), and no record of another type. Only beget
\* can undo an edit, and only one made while its update ran.
OthersSurvive ==
    [][Update =>
        \/ disturbed /\ kind = "beget"
        \/ /\ text' = text
           /\ \A f \in Families : zone'[f] # zone[f] =>
                 f \in todo \/ kind = "dyndns2"]_vars

\* setOne: no retry, restart or new address ever makes a second record of one
\* type; only a name that somebody else edits has more than it had.
NeverMultiplies ==
    [][Update /\ ~disturbed =>
        \A f \in Families :
            \/ zone'[f] = zone[f]
            \/ Cardinality(zone'[f]) = 1 /\ f \notin doubled']_vars

\* Update: once every call works, each family gets the wanted address however
\* the attempts before ended, and whatever became of the token in between,
\* unless there is a reason why it cannot, or an edit after the last update has
\* changed it (the program does not look again).
HealsOnceCalm ==
    (<>calm) => <>[](\A f \in Valid(want) :
                        want[f] \in zone[f] \/ Hopeless(f) \/ disturbed)

Contract == INSTANCE ProviderContract WITH
    running <- pc # "idle", asked <- want, answer <- result,
    records <- zone, spoiled <- disturbed

\* Every provider keeps what the instance relies on.
KeepsContract == Contract!Spec

=============================================================================
