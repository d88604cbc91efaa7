----------------------------- MODULE OneRequest -----------------------------
(***************************************************************************)
(* The providers dyndns2, duckdns, namecheap and rfc2136 do not read what  *)
(* is there: one request replaces the records. dyndns2 and duckdns send    *)
(* both families in it, rfc2136 one request for each, and namecheap can    *)
(* only write IPv4. They differ in how the answer says what was done.      *)
(***************************************************************************)
EXTENDS Provider, Sequences

HasOneRequest == kind \in {"dyndns2", "duckdns", "namecheap", "rfc2136"}

\* The families the next request writes.
Sent == IF kind \in {"dyndns2", "duckdns"} THEN todo ELSE {Current}

\* What the request makes of the records if it is carried out for families.
Replaced(families) ==
    [f \in Families |-> IF f \in families THEN {want[f]} ELSE zone[f]]

\* An update service that is not given a family may take for it the address
\* the request came from (docs/PARAMETERS.md, ipv6_param of dyndns2).
FallsBack(families) ==
    {Replaced(families)} \cup
        IF kind # "dyndns2" \/ families = {} THEN {}
        ELSE {[Replaced(families) EXCEPT ![f] = {a}] :
                 f \in Families \ todo, a \in Addr}

\* The request is answered: err says whether the code takes it for a failure,
\* confirmed whether the answer is the one of a service that did all of it.
Request(done, confirmed) ==
    /\ pc = "write"
    /\ zone' \in FallsBack(done) /\ UNCHANGED <<doubled, text>>
    /\ Return(Sent, ~confirmed)
    /\ Served(done = Sent, TRUE, confirmed)
    /\ UNCHANGED setup

-----------------------------------------------------------------------------

\* One line of the answer for each family that was sent.
Words == {"good", "nochg", "911", "other"}
Good(word) == word \in {"good", "nochg"}

\* checkAnswer of dyndns2: every line must be a success, and there must be one.
DynConfirms(lines) ==
    lines # <<>> /\ \A i \in DOMAIN lines : Good(lines[i])

InOrder == IF todo = Families THEN <<"v4", "v6">> ELSE <<Current>>

\* A line that is a success stands for a family that was written. An answer
\* that is lost, or has another status, has no lines.
DynAnswers(done) ==
    {<<>>} \cup
    {lines \in [DOMAIN InOrder -> Words] :
        \A i \in DOMAIN InOrder : Good(lines[i]) => InOrder[i] \in done}

DyndnsUpdate ==
    /\ kind = "dyndns2"
    /\ \E done \in SUBSET todo : \E lines \in DynAnswers(done) :
          Request(done, DynConfirms(lines))

-----------------------------------------------------------------------------

DuckAnswers(done) == {"KO", "other"} \cup IF done THEN {"OK"} ELSE {}

DuckConfirms(answer) == answer = "OK"

DuckUpdate ==
    /\ kind = "duckdns"
    /\ \E done \in BOOLEAN : \E answer \in DuckAnswers(done) :
          Request(IF done THEN todo ELSE {}, DuckConfirms(answer))

-----------------------------------------------------------------------------

\* The number of errors in the document; none when it cannot be read.
Unread == -1
NamecheapAnswers(done) == {Unread, 1} \cup IF done THEN {0} ELSE {}
NamecheapConfirms(count) == count = 0

\* setV4; there is nothing that could write IPv6.
NamecheapSetV4 ==
    /\ kind = "namecheap" /\ Current = "v4"
    /\ \E done \in BOOLEAN : \E count \in NamecheapAnswers(done) :
          Request(IF done THEN {"v4"} ELSE {}, NamecheapConfirms(count))

NamecheapRefusesV6 ==
    /\ kind = "namecheap" /\ pc = "write" /\ Current = "v6"
    /\ Return({"v6"}, TRUE)
    /\ UNCHANGED <<setup, name, past>>

-----------------------------------------------------------------------------

\* A reply that is not signed may come from anybody, when updates are signed.
DNSReplies == [rcode : {"success", "other"}, signed : BOOLEAN]

DNSConfirms(reply) == reply.rcode = "success" /\ (keyed => reply.signed)

DNSAnswers(done) ==
    {r \in DNSReplies :
        done \/ r.rcode # "success" \/ (keyed /\ ~r.signed)}

\* setOne: the set is removed and the record inserted by one message.
DNSUpdate ==
    /\ kind = "rfc2136"
    /\ \E done \in BOOLEAN : \E reply \in DNSAnswers(done) :
          Request(IF done THEN {Current} ELSE {}, DNSConfirms(reply))

OneRequestNext ==
    \/ DyndnsUpdate \/ DuckUpdate
    \/ NamecheapSetV4 \/ NamecheapRefusesV6 \/ DNSUpdate

=============================================================================
