----------------------------- MODULE RecordSets -----------------------------
(***************************************************************************)
(* The providers selectel and yandexcloud: the records of one name and     *)
(* type are a single object, read and then replaced as a whole, and every  *)
(* call carries a token (TokenCache). selectel looks the zone up for each  *)
(* family and changes the set it found by its identity; yandexcloud reads  *)
(* the name of the zone once, without which nothing is written, and puts   *)
(* its set in place of whatever is there.                                  *)
(***************************************************************************)
EXTENDS Provider, TokenCache

HasToken == kind \in {"selectel", "yandexcloud"}

\* The token is taken, obtained or given up.
Token ==
    /\ pc # "idle"
    /\ TakeCached \/ Authenticate \/ TryAgain
    /\ UNCHANGED providerVars

\* The call fails: no token was to be had, the second attempt was refused as
\* well, or the service failed. selectel then gives up the family.
Failing ==
    \/ ~ready /\ cached # "fresh" /\ Fails
    \/ Unauthorized /\ UNCHANGED past
    \/ Authorized /\ Fails

SelectelCallFails ==
    /\ kind = "selectel" /\ pc \in {"zone", "list"}
    /\ Failing /\ CallEnds
    /\ Return({Current}, TRUE)
    /\ UNCHANGED <<setup, name>>

\* fqdn fails, and Update with it; or getRecordSet does.
YandexCallFails ==
    /\ kind = "yandexcloud" /\ pc \in {"zone", "list"}
    /\ Failing /\ CallEnds
    /\ Return(IF pc = "zone" THEN todo ELSE {Current}, TRUE)
    /\ UNCHANGED <<setup, name>>

FindZone ==
    /\ pc = "zone" /\ Authorized /\ CallEnds
    /\ pc' = "list"
    /\ UNCHANGED <<want, todo, failed, result, seen, seenText>>
    /\ UNCHANGED <<setup, name, past>>

Settled(listed) == listed = {New}

Ambiguous(listed) == New \notin listed /\ Several(Current, listed)

\* setOne of selectel, after findRRSet.
SelectelSetOne(listed) ==
    \/ Settled(listed) /\ Settle(FALSE)
    \/ Ambiguous(listed) /\ Settle(TRUE)
    \/ ~Settled(listed) /\ ~Ambiguous(listed) /\ GoOn(Noted(listed), "t1")

SelectelList ==
    /\ kind = "selectel" /\ pc = "list" /\ Authorized /\ CallEnds
    /\ SelectelSetOne(zone[Current])

\* setOne of yandexcloud: a set that does not exist is written like another.
YandexSetOne(listed) ==
    \/ listed = {New} /\ Settle(FALSE)
    \/ New \notin listed /\ Several(Current, listed) /\ Settle(TRUE)
    \/ /\ listed # {New}
       /\ New \in listed \/ ~Several(Current, listed)
       /\ GoOn(Noted(listed), "t1")

\* getRecordSet takes the answer 404 for an empty set.
YandexList ==
    /\ kind = "yandexcloud" /\ pc = "list" /\ Authorized /\ CallEnds
    /\ YandexSetOne(zone[Current])

-----------------------------------------------------------------------------
(* Writing                                                                 *)

\* What the service may answer to a write: the operation of yandexcloud may
\* carry an error although the status is good.
SetReplies ==
    [status : {"2xx", "other"},
     operation : IF kind = "yandexcloud" THEN {"done", "pending", "error"}
                                         ELSE {"done"}]

YandexConfirms(reply) == reply.status = "2xx" /\ reply.operation # "error"
SelectelConfirms(reply) == reply.status = "2xx"

SetConfirms(reply) == IF kind = "yandexcloud" THEN YandexConfirms(reply)
                                              ELSE SelectelConfirms(reply)

\* An operation that is pending is carried out.
SetAnswers(done) ==
    {r \in SetReplies :
       done \/ r.status # "2xx" \/ r.operation = "error"}

\* selectel creates a set only where there is none, and replaces the one it
\* found if it is still there; yandexcloud does either.
SetApplies ==
    kind = "selectel" => (seen[Current] = {} <=> zone[Current] = {})

SetWrite(done, reply) ==
    /\ pc = "write" /\ Authorized /\ CallEnds
    /\ (done => SetApplies)
    /\ reply \in SetAnswers(done)
    /\ IF done THEN Put({New}) ELSE UNCHANGED name
    /\ Return({Current}, ~SetConfirms(reply))
    /\ Served(done, SetApplies, SetConfirms(reply))
    /\ UNCHANGED setup

\* The write is not sent for want of a token, or refused twice.
SetWriteFails ==
    /\ pc = "write" /\ ~Authorized
    /\ Failing /\ CallEnds
    /\ Return({Current}, TRUE)
    /\ UNCHANGED <<setup, name>>

SetNext ==
    /\ HasToken
    /\ \/ Token
       \/ SelectelCallFails \/ YandexCallFails \/ FindZone
       \/ SelectelList \/ YandexList \/ SetWriteFails
       \/ \E done \in BOOLEAN : \E reply \in SetAnswers(done) :
             SetWrite(done, reply)

=============================================================================
