------------------------------ MODULE WholeName ------------------------------
(***************************************************************************)
(* The provider beget: one call returns the records of every type at the   *)
(* name, and one call replaces all of them. So each family is written by   *)
(* reading everything and writing it back with that family changed, and    *)
(* whatever somebody else wrote in between is undone.                      *)
(***************************************************************************)
EXTENDS Provider

\* getRecords and the decision of setOne.
GetRecords ==
    /\ pc = "list"
    /\ LET listed == zone[Current] IN
       \/ listed = {New} /\ Settle(FALSE)
       \/ New \notin listed /\ Several(Current, listed) /\ Settle(TRUE)
       \/ /\ listed # {New}
          /\ New \in listed \/ ~Several(Current, listed)
          /\ GoOn(zone, text)

\* The answer has a status of its own and one of the method that was called.
BegetReplies == [http : {"200", "other"}, status : {"success", "error"},
                 answer : {"success", "error"}]

BegetConfirms(reply) ==
    reply.http = "200" /\ reply.status = "success" /\ reply.answer = "success"

BegetAnswers(done) ==
    {r \in BegetReplies :
       \/ done \/ r.http # "200"
       \/ r.status # "success" \/ r.answer # "success"}

\* variant: only the type that changes is sent.
OnlyTheType == [f \in Families |-> IF f = Current THEN {New} ELSE {}]

\* setOne: every other type goes back as it was received.
Updated == [seen EXCEPT ![Current] = {New}]

WriteBack ==
    /\ zone' = Updated
    /\ doubled' = doubled \ {Current}
    /\ text' = seenText

ChangeRecords(done, reply) ==
    /\ pc = "write" /\ reply \in BegetAnswers(done)
    /\ IF done THEN WriteBack ELSE UNCHANGED name
    /\ Return({Current}, ~BegetConfirms(reply))
    /\ Served(done, TRUE, BegetConfirms(reply))
    /\ UNCHANGED setup

BegetNext ==
    /\ kind = "beget"
    /\ \/ GetRecords \/ ListFailed
       \/ \E done \in BOOLEAN : \E reply \in BegetAnswers(done) :
             ChangeRecords(done, reply)

=============================================================================
