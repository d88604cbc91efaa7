----------------------------- MODULE MCStartup -----------------------------
(* Documents for Startup: of each family, one part of the document varies. *)
EXTENDS Startup

Refs == {"${SET}", "${UNSET}", "${"}
Envs == {("${SET}" :> "value"),
         ("${SET}" :> "value" @@ "${UNSET}" :> "value")}
FullAndLight == {[notify |-> TRUE, ping |-> TRUE],
                 [notify |-> FALSE, ping |-> FALSE]}
Full == {[notify |-> TRUE, ping |-> TRUE]}

Lists(entries, most) == UNION {[1..n -> entries] : n \in 0..most}

Regru == [type |-> "regru", zone |-> "example.com", rr_name |-> "@",
          password |-> "${SET}"]
Pinned == [type |-> "ipify", family |-> "ipv4"]
Home == [name |-> "home", retriever |-> <<[short |-> "web"]>>,
         provider |-> <<[short |-> "dns"]>>]
Office == [Home EXCEPT !.name = "office"]
Base == [retriever |-> [web |-> Pinned], provider |-> [dns |-> Regru],
         instance |-> <<Home>>]

\* Retrievers: an unused definition, and a list in every form.
WebDefinitions ==
    {Pinned, [type |-> "ipify"], [type |-> "icanhazip", Family |-> "ipv6"],
     [type |-> "ipify", family |-> "IPv4", proxy |-> "socks5://proxy"],
     [type |-> "interface", name |-> "wan", family |-> "dual"],
     [type |-> "ipify", base_url |-> "${UNSET}"], [type |-> "myip"],
     [type |-> "", family |-> "ipv4"], [type |-> "ipify", ref |-> "web"]}
WebEntries ==
    {[short |-> "web"], [short |-> ""], [ref |-> "web", family |-> "ipv6"],
     [ref |-> "web", family |-> "dual"], [ref |-> "web", family |-> NotText],
     [type |-> "2ip"], [type |-> "interface", network |-> ""],
     [type |-> "interface", name |-> "wan", network |-> "2001:db8:1::/48"],
     [ref |-> "spare"], [ref |-> "missing"],
     [ref |-> "web", type |-> "ipify"], [family |-> "ipv4"]}
SpareDefinitions == {<<>>, [spare |-> [type |-> "2ip", base_url |-> "${"]]}
RetrieverDocs ==
    {[Base EXCEPT !.retriever = [web |-> web] @@ spare,
                  !.instance = <<[Home EXCEPT !.retriever = list], Office>>] :
     web \in WebDefinitions, spare \in SpareDefinitions,
     list \in Lists(WebEntries, 2)}

\* Providers: overrides, repetitions and what tells two of them apart.
DNSDefinitions ==
    {Regru, Without(Regru, {"zone"}) @@ [Zone |-> "example.com"],
     Without(Regru, {"zone"}),
     [type |-> "duckdns", domain |-> "home", token |-> "${SET}"]}
DNSEntries ==
    {[short |-> "dns"], [ref |-> "dns", zone |-> "example.org"],
     [ref |-> "dns", Zone |-> "example.org"],
     [ref |-> "dns", rr_name |-> "${UNSET}"], [ref |-> "dns", ttl |-> "60"],
     [ref |-> "dns", password |-> "other"],
     Regru, [Regru EXCEPT !.rr_name = "www"], [type |-> "route53"]}
ProviderDocs ==
    {[Base EXCEPT !.provider = [dns |-> dns],
                  !.instance = <<[Home EXCEPT !.provider = list]>>] :
     dns \in DNSDefinitions, list \in Lists(DNSEntries, 3)}

\* Notifiers: two definitions, one with the name that is generated for
\* another, and two instances.
Redis == [type |-> "redis", address |-> "redis://broker"]
Alerts ==
    {Redis, Redis @@ [events |-> <<"cycle", "lifecycle">>],
     [type |-> "redis", address |-> "${UNSET}"],
     [type |-> "rabbitmq", address |-> "amqp://broker"],
     Redis @@ [events |-> <<"status", "bogus">>]}
Others == {<<>>, [backup |-> [type |-> "redis", address |-> "${UNSET}"]],
           "home/redis#1" :> Redis}
NotifyEntries ==
    {[short |-> "alerts"], [ref |-> "alerts", events |-> <<"ip_change">>],
     [short |-> "backup"], Redis, Redis @@ [events |-> <<"cycle">>],
     [ref |-> "alerts", address |-> "redis://other"],
     Redis @@ [events |-> <<>>], [ref |-> "alerts", type |-> "redis"]}
WithNotify(table) ==
    {table} \cup {table @@ [notify |-> list] : list \in Lists(NotifyEntries, 2)}
Second == {Office, Office @@ [notify |-> <<>>],
           Office @@ [notify |-> <<Redis>>],
           Office @@ [notify |-> <<[short |-> "alerts"]>>]}
NotifyDocs ==
    {Base @@ [notify |-> [alerts |-> alerts] @@ others] : others \in Others,
                                                         alerts \in Alerts}
PublishingDocs ==
    {[base EXCEPT !.instance = <<first, second>>] :
     base \in NotifyDocs, first \in WithNotify(Home), second \in Second}

\* Instances: names, intervals, pings and unknown keys.
InstanceTables ==
    {Home, Office, Without(Home, {"name"}), Home @@ [interval |-> 0],
     Home @@ [interval |-> 7], Home @@ [ping_url |-> "https://hc/1"],
     Home @@ [ping_url |-> "not a URL"], Home @@ [ping_url |-> "${UNSET}"],
     Home @@ [pingurl |-> ""], Without(Home, {"provider"})}
InstanceDocs ==
    {[base EXCEPT !.instance = list] :
     base \in {Base, Base @@ [interval |-> 0], Base @@ [interval |-> 9],
              Base @@ [instances |-> <<>>]},
     list \in Lists(InstanceTables, 2)}

AllDocs == RetrieverDocs \cup ProviderDocs \cup PublishingDocs
           \cup InstanceDocs

\* The hypothesis of the theorem on HooksReachWhatTheyName.
ASSUME \A document \in AllDocs : NamesAreTold(document)

\* A document that does not meet it: the type of the first notifier, which no
\* build has, makes up for what the name of its instance lacks.
Alike ==
    [Base EXCEPT !.instance =
        <<Home @@ [notify |-> <<[Redis EXCEPT !.type = "lan/redis"]>>],
          [Home EXCEPT !.name = "home/lan"] @@ [notify |-> <<Redis>>]>>]

\* It is accepted all the same, with one notifier for both.
ASSUME \E e \in Envs :
          /\ ParseProblems(Alike, e) = {} /\ ~NamesAreTold(Alike)
          /\ Cardinality(DOMAIN Parse(Alike, e).notify) = 1

=============================================================================
