------------------------------ MODULE Provider ------------------------------
(***************************************************************************)
(* What the providers other than regru have in common. An update writes    *)
(* the addresses it is given family by family, IPv4 first, each in its own *)
(* record type, and a family that fails does not stop the other. What one  *)
(* call of the API does is said in the modules that extend this one:       *)
(* SeparateRecords, RecordSets, WholeName and OneRequest.                  *)
(*                                                                         *)
(* Any call may fail before or after it took effect, the process may stop  *)
(* between two calls, and somebody else may edit the records at the name   *)
(* meanwhile. The caller asks again until an update succeeds.              *)
(***************************************************************************)
EXTENDS FiniteSets, Integers

CONSTANTS
    Addr,      \* addresses of either family
    Wanted,    \* those the host may have
    Unknown,   \* no address
    Kinds,     \* the provider types considered
    Found,     \* sets of records of one type that the operator may have left
    MaxEdits   \* most edits of the operator while the program runs, of other
               \* addresses or of a record of another type

ASSUME ProviderAssumption ==
    /\ Unknown \notin Addr
    /\ Wanted \subseteq Addr
    /\ Found \subseteq SUBSET Addr
    /\ MaxEdits \in Nat

Families  == {"v4", "v6"}
Addresses == [Families -> Wanted \cup {Unknown}]
Valid(addrs) == {f \in Families : addrs[f] # Unknown}
Texts == {"t1", "t2"}  \* contents of a record of a type dnspatch never writes

VARIABLES
    kind,      \* the type of the provider
    overfull,  \* families whose listing has more records than one page: by
               \* timeweb that of the zone, by cloudflare that of one type
    keyed,     \* rfc2136: updates are signed, so replies must be
    pc,        \* the call the update makes next
    want,      \* the addresses of the current, or last, update
    todo,      \* families of it that are still to be written
    failed,    \* one of its families has failed
    result,    \* what the last update returned
    seen,      \* the records the current family's listing returned
    seenText,  \* beget: the record of another type it returned
    zone,      \* the records at the name, by type
    doubled,   \* families with a second record of an address in zone
    text,      \* the record of another type there
    edits,     \* edits of the operator so far
    disturbed, \* the operator has edited since it began (history)
    trouble,   \* the service has failed it (history)
    calm       \* every call works from now on

setup == <<kind, overfull, keyed>>
call  == <<pc, want, todo, failed, result, seen, seenText>>
name  == <<zone, doubled, text>>
past  == <<edits, disturbed, trouble, calm>>
providerVars == <<setup, call, name, past>>

Nothing == [f \in Families |-> {}]

\* The providers at which a name may have two records of one address; the
\* others keep the records of a type as one set, or do not look at them.
Counts == {"cloudflare", "timeweb", "beget"}

\* The records of type f, with the addresses in listed, are more than one.
Several(f, listed) == Cardinality(listed) > 1 \/ f \in doubled

Init ==
    /\ kind \in Kinds
    /\ overfull \in CASE kind = "timeweb"    -> {{}, Families}
                      [] kind = "cloudflare" -> SUBSET Families
                      [] OTHER               -> {{}}
    /\ keyed \in {FALSE, kind = "rfc2136"}
    /\ pc = "idle" /\ todo = {} /\ failed = FALSE /\ result = "none"
    /\ want \in {addrs \in Addresses : Valid(addrs) # {}}
    /\ seen = Nothing /\ seenText = "t1"
    /\ zone \in [Families -> Found] /\ text = "t1"
    /\ doubled \in SUBSET {f \in Families : kind \in Counts /\ zone[f] # {}}
    /\ edits = 0 /\ disturbed = FALSE /\ trouble = FALSE /\ calm = FALSE

\* The family being written: IPv4 goes first.
Current == IF "v4" \in todo THEN "v4" ELSE "v6"
New     == want[Current]

\* The calls of an update: the zone is looked up once by yandexcloud, for each
\* family by selectel; the others list the records or write them at once.
Family == CASE kind = "selectel" -> "zone"
            [] kind \in {"cloudflare", "timeweb", "beget", "yandexcloud"}
                 -> "list"
            [] OTHER -> "write"
Opening == IF kind = "yandexcloud" THEN "zone" ELSE Family

\* Update is called: again after a failure, or for other addresses.
Begin(addrs) ==
    /\ pc = "idle" /\ Valid(addrs) # {}
    /\ \/ addrs = want /\ result # "ok"
       \/ addrs # want /\ ~calm
    /\ pc' = Opening
    /\ want' = addrs
    /\ todo' = Valid(addrs)
    /\ failed' = FALSE /\ result' = "none"
    /\ disturbed' = FALSE /\ trouble' = FALSE
    /\ UNCHANGED <<setup, seen, seenText, name, edits, calm>>

Forget == seen' = Nothing /\ seenText' = "t1"

\* variant: the errors of the families are not joined, the last one counts.
ReturnLast(done, err) ==
    /\ todo' = todo \ done
    /\ failed' = err
    /\ pc' = IF todo' = {} THEN "idle" ELSE Family
    /\ result' = IF todo' # {} THEN result
                 ELSE IF err THEN "failed" ELSE "ok"
    /\ Forget /\ UNCHANGED want

\* setOne has written, or failed to write, the families in done; with the last
\* family Update returns.
Return(done, err) ==
    /\ todo' = todo \ done
    /\ failed' = (failed \/ err)
    /\ pc' = IF todo' = {} THEN "idle" ELSE Family
    /\ result' = IF todo' # {} THEN result
                 ELSE IF failed \/ err THEN "failed" ELSE "ok"
    /\ Forget /\ UNCHANGED want

\* A call to the service failed for no fault of the request.
Fails ==
    /\ ~calm
    /\ trouble' = TRUE
    /\ UNCHANGED <<edits, disturbed, calm>>

\* A call that could have been done is done and confirmed, one that could not
\* is refused; or else the service is to blame.
Served(done, possible, confirmed) ==
    IF done = possible /\ confirmed = done THEN UNCHANGED past ELSE Fails

\* The listing was read; the family is then settled without a further call,
\* or it has to be written.
Settle(err) ==
    /\ Return({Current}, err)
    /\ UNCHANGED <<setup, name, past>>

Noted(listed) == [Nothing EXCEPT ![Current] = listed]

GoOn(listed, other) ==
    /\ pc' = "write" /\ seen' = listed /\ seenText' = other
    /\ UNCHANGED <<want, todo, failed, result, setup, name, past>>

ListFailed ==
    /\ pc = "list"
    /\ Fails
    /\ Return({Current}, TRUE)
    /\ UNCHANGED <<setup, name>>

\* The records of the current family become those in new.
Put(new) ==
    /\ zone' = [zone EXCEPT ![Current] = new]
    /\ UNCHANGED <<doubled, text>>

\* The process stops. What it knew of the update is gone.
Crash ==
    /\ pc # "idle" /\ ~calm
    /\ pc' = "idle" /\ todo' = {} /\ failed' = FALSE /\ result' = "none"
    /\ Forget
    /\ UNCHANGED <<want, setup, name, past>>

-----------------------------------------------------------------------------
(* The environment                                                         *)

\* Where there are two records of an address, it is kept.
Edited ==
    \/ /\ \E f \in Families, a \in Addr \ Wanted :
             /\ zone' = [zone EXCEPT ![f] = IF a \in @ THEN @ \ {a}
                                                       ELSE @ \cup {a}]
             /\ f \in doubled => zone'[f] # {}
       /\ UNCHANGED <<doubled, text>>
    \/ text' \in Texts \ {text} /\ UNCHANGED <<zone, doubled>>

\* Somebody else adds or removes a record at the name.
Edit ==
    /\ edits < MaxEdits /\ ~calm
    /\ Edited
    /\ edits' = edits + 1
    /\ disturbed' = TRUE
    /\ UNCHANGED <<setup, call, trouble, calm>>

CalmDown ==
    /\ ~calm
    /\ calm' = TRUE
    /\ UNCHANGED <<setup, call, name, edits, disturbed, trouble>>

=============================================================================
