--------------------------- MODULE SeparateRecords ---------------------------
(***************************************************************************)
(* The providers cloudflare and timeweb: every address is a record of its  *)
(* own, with an identity. The records of the name are listed; the only one *)
(* is changed in place, and one is created when there is none. Where one   *)
(* of several is already right, nothing is done.                           *)
(***************************************************************************)
EXTENDS Provider

\* A record that is listed, of any type and name of the zone (timeweb).
Listable == {[type |-> f, value |-> a] : f \in Families, a \in Addr}

InZone == {r \in Listable : r.value \in zone[r.type]}

-----------------------------------------------------------------------------
(* What the service may answer, and what the code makes of it.             *)

CloudflareReplies ==
    [status : {"2xx", "other"}, body : {"success", "failure", "garbage"}]

\* variant: the flag in the body is not looked at.
CloudflareStatusOnly(reply) == reply.status = "2xx"

CloudflareConfirms(reply) ==
    reply.status = "2xx" /\ reply.body = "success"

TimewebReplies == [status : {"2xx", "other"}]

TimewebConfirms(reply) == reply.status = "2xx"

\* A call that did nothing is not answered with a success.
SeparateAnswers(done) ==
    CASE kind = "cloudflare" ->
           {r \in CloudflareReplies :
              done \/ r.status # "2xx" \/ r.body # "success"}
      [] kind = "timeweb" ->
           {r \in TimewebReplies : done \/ r.status # "2xx"}

SeparateConfirms(reply) ==
    IF kind = "cloudflare" THEN CloudflareConfirms(reply)
                           ELSE TimewebConfirms(reply)

-----------------------------------------------------------------------------

\* setOne: what is to be done with the records of the type.
SetOne(listed) ==
    \/ New \in listed /\ Settle(FALSE)
    \/ New \notin listed /\ Several(Current, listed) /\ Settle(TRUE)
    \/ /\ New \notin listed /\ ~Several(Current, listed)
       /\ GoOn(Noted(listed), "t1")

\* cloudflare lists the records of one name and type, and gives up when the
\* service has more of them than it returned, whichever those are.
CloudflareList ==
    /\ kind = "cloudflare" /\ pc = "list"
    /\ \/ Current \in overfull /\ Settle(TRUE)
       \/ Current \notin overfull /\ SetOne(zone[Current])

\* variant: a partial list is taken for the whole.
AnyPage ==
    {page \in SUBSET InZone : Current \notin overfull => page = InZone}

\* The pages the program works from: timeweb lists all records of the zone
\* and gives up when they are more than a page.
Pages == IF Current \in overfull THEN {} ELSE {InZone}

Matching(page) == {r.value : r \in {s \in page : s.type = Current}}

TimewebList ==
    /\ kind = "timeweb" /\ pc = "list"
    /\ \/ \E page \in Pages : SetOne(Matching(page))
       \/ Pages = {} /\ Settle(TRUE)

\* The record that was listed is replaced; when none was, one is created.
Target  == (zone[Current] \ seen[Current]) \cup {New}
Applies == seen[Current] \subseteq zone[Current]

\* createRecord or updateRecord. A record that is gone cannot be changed.
SeparateWrite(done, reply) ==
    /\ pc = "write" /\ (done => Applies)
    /\ reply \in SeparateAnswers(done)
    /\ IF done THEN Put(Target) ELSE UNCHANGED name
    /\ Return({Current}, ~SeparateConfirms(reply))
    /\ Served(done, Applies, SeparateConfirms(reply))
    /\ UNCHANGED setup

SeparateNext ==
    /\ kind \in {"cloudflare", "timeweb"}
    /\ \/ CloudflareList \/ TimewebList \/ ListFailed
       \/ \E done \in BOOLEAN : \E reply \in SeparateAnswers(done) :
             SeparateWrite(done, reply)

=============================================================================
