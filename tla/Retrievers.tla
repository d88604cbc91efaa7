----------------------------- MODULE Retrievers -----------------------------
(***************************************************************************)
(* What the retrievers return: plugins/retrievers. ipify, icanhazip,       *)
(* identme and ifconfigco are one and the same code, which asks a service  *)
(* once for each family it is configured for; twoip asks another one for   *)
(* IPv4; netif ("interface") reads a network interface. A service that     *)
(* fails, does not answer or answers with anything else says None.         *)
(***************************************************************************)
EXTENDS Plugins

CONSTANT None

\* Addresses in the order of netip.Addr.Less.
Ordered == <<"10.0.0.1", "100.64.0.1", "198.51.100.1", "203.0.113.1",
             "2001:db8::1", "2001:db8:1::1", "fd00::1", "fe80::1">>
Addresses == {Ordered[k] : k \in DOMAIN Ordered}
Less(a, b) == \E j, k \in DOMAIN Ordered :
                 j < k /\ Ordered[j] = a /\ Ordered[k] = b
IPv4 == {Ordered[k] : k \in 1..4}
Of(family) == IF family = "ipv4" THEN IPv4 ELSE Addresses \ IPv4

GlobalUnicast == Addresses \ {"fe80::1"}
IsPublic(a) == a \in GlobalUnicast \ {"10.0.0.1", "100.64.0.1", "fd00::1"}

Families(config) == IF Lower(config.family) = "dual" THEN {"ipv4", "ipv6"}
                                                     ELSE {Lower(config.family)}

\* An answer of GetAddresses: an error, or an address for some families.
Failure == [ok |-> FALSE, found |-> <<>>]
Success(found) == [ok |-> TRUE, found |-> found]

-----------------------------------------------------------------------------

\* Through a proxy the service may see any address; without one the dialer is
\* pinned to the family, and the service sees an address of that family.
Replies(config, family) ==
    {None} \cup IF config.proxy = "direct" THEN Of(family) ELSE Addresses

\* variant: any address will do.
AnyAddr(reply, family) == reply \in GlobalUnicast

\* parseAddr: the reply is an address of the family that was asked for.
ParseAddr(reply, family) == reply \in GlobalUnicast \cap Of(family)

\* With "dual" both requests have to succeed.
WebAnswers(config) ==
    {IF \A f \in Families(config) : ParseAddr(reply[f], f)
     THEN Success(reply) ELSE Failure :
     reply \in {r \in [Families(config) -> Addresses \cup {None}] :
                  \A f \in Families(config) : r[f] \in Replies(config, f)}}

\* The client is not pinned, and the service has no IPv6 endpoint.
TwoIPAnswers ==
    {IF ParseAddr(reply, "ipv4") THEN Success([ipv4 |-> reply]) ELSE Failure :
     reply \in Addresses \cup {None}}

Covers(network, a) ==
    network = "" \/ (network = "2001:db8:1::/48" /\ a = "2001:db8:1::1")

\* selectAddr: the lowest of the public addresses in the network.
Candidates(config, interface, family) ==
    {a \in interface \cap Of(family) :
        IsPublic(a) /\ Covers(config.network, a)}
SelectAddr(config, interface, family) ==
    LET all == Candidates(config, interface, family)
    IN  CHOOSE a \in all : \A b \in all : b = a \/ Less(a, b)

\* The addresses of the interface, or None if it cannot be read.
InterfaceAnswers(config) ==
    {IF \A f \in Families(config) : Candidates(config, interface, f) # {}
     THEN Success([f \in Families(config) |->
                      SelectAddr(config, interface, f)])
     ELSE Failure : interface \in SUBSET Addresses}

GetAddresses(retriever) ==
    CASE retriever.type \in WebRetrievers -> WebAnswers(retriever.config)
      [] retriever.type = "2ip"           -> TwoIPAnswers
      [] retriever.type = "interface"     -> InterfaceAnswers(retriever.config)

=============================================================================
