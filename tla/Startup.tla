------------------------------ MODULE Startup ------------------------------
(***************************************************************************)
(* The command line of the daemon, internal/app: from the configuration    *)
(* file to running instances with their hooks, or to --check-config's      *)
(* summary, or to an error. A running instance asks its retrievers; what   *)
(* becomes of the addresses is in Instance.                                *)
(***************************************************************************)
EXTENDS Config, Retrievers

CONSTANTS
    Documents,     \* the documents the file may hold
    Environments,  \* what its references may stand for
    Builds         \* whether notifiers and pings are compiled in

IsList(list) == list = [k \in 1..Len(list) |-> list[k]] /\ Len(list) \in Nat

\* The instances of a document are listed in an order, and so is what each of
\* them refers to; an interval that is given is a number (0 stands for what is
\* no duration), a bare name is nothing else, and a file defines finitely many
\* notifiers.
ASSUME DocumentAssumption == \A d \in Documents :
    LET list == Instances(d)
    IN  /\ IsList(list) /\ Key(d, "interval", 0) \in Int
        /\ IsFiniteSet(DOMAIN Pool(d, "notify"))
        /\ \A i \in DOMAIN list :
              /\ Key(list[i], "interval", 0) \in Int
              /\ \A kind \in {"retriever", "provider", "notify"} :
                    /\ IsList(Key(list[i], kind, <<>>))
                    /\ \A entry \in Range(Key(list[i], kind, <<>>)) :
                          "short" \in DOMAIN entry => DOMAIN entry = {"short"}

VARIABLES
    doc,           \* the configuration file
    env,           \* the environment, and the secret files
    build,         \* [notify, ping |-> BOOLEAN]
    checkOnly,     \* --check-config
    stage,         \* "load", "build", "validate", "attach", "summary",
                   \* "health", "run", "done" or "panic"
    config,        \* what the file was parsed to
    instances,     \* the instances that were built
    conns,         \* the connection of every notifier
    answer,        \* the latest call of a retriever: [i, r, got], or None
    exit           \* the exit code: "ok" or "config", or None

vars == <<doc, env, build, checkOnly, stage, config, instances, conns, answer,
          exit>>
input == <<doc, env, build, checkOnly>>

Init ==
    /\ doc \in Documents /\ env \in Environments /\ build \in Builds
    /\ checkOnly \in BOOLEAN
    /\ stage = "load"
    /\ config = None /\ instances = <<>> /\ conns = <<>>
    /\ answer = None /\ exit = None

\* fail: the error is printed, and the process ends.
Fail ==
    /\ stage' = "done" /\ exit' = "config"
    /\ conns' = <<>>
    /\ UNCHANGED <<input, config, instances, answer>>

Proceed(from, to) ==
    /\ stage = from /\ stage' = to
    /\ UNCHANGED <<input, answer, exit>>

-----------------------------------------------------------------------------
(* From the file to the instances                                          *)

LoadFails == stage = "load" /\ ParseProblems(doc, env) # {} /\ Fail

LoadConfig ==
    /\ Proceed("load", "build")
    /\ ParseProblems(doc, env) = {}
    /\ config' = Parse(doc, env)
    /\ UNCHANGED <<instances, conns>>

\* variant: the hint of the definition, whatever the instance overrides.
DefinedHint(retriever) ==
    IF retriever.ref = "" THEN Lower(Key(retriever.params, "family", ""))
    ELSE Lower(Key(Pool(doc, "retriever")[retriever.ref], "family", ""))

\* The "family" parameter, as the file spells it.
FamilyHint(retriever) == Lower(Key(retriever.params, "family", ""))

PingProblems(instance) ==
    IF instance.ping_url = "" THEN {}
    ELSE IF ~build.ping THEN {"ping not supported"}
    ELSE Problem(instance.ping_url = "not a URL", "ping_url")

BuildInstanceProblems(instance) ==
    (UNION {BuildProblems("retriever", plugin, build) :
               plugin \in Range(instance.retrievers)})
    \cup (UNION {BuildProblems("provider", plugin, build) :
                    plugin \in Range(instance.providers)})
    \cup PingProblems(instance)

BuildInstance(instance) ==
    [name |-> instance.name, interval |-> instance.interval,
     retrievers |-> [r \in DOMAIN instance.retrievers |->
                        [plugin |-> Built(instance.retrievers[r]),
                         hint |-> FamilyHint(instance.retrievers[r])]],
     providers |-> [p \in DOMAIN instance.providers |->
                       Built(instance.providers[p])],
     hooks |-> IF instance.ping_url = "" THEN <<>> ELSE <<[is |-> "ping"]>>]

InstanceErrors ==
    UNION {BuildInstanceProblems(in) : in \in Range(config.instances)}

BuildFails == stage = "build" /\ InstanceErrors # {} /\ Fail

BuildInstances ==
    /\ Proceed("build", "validate")
    /\ InstanceErrors = {}
    /\ instances' = [i \in DOMAIN config.instances |->
                        BuildInstance(config.instances[i])]
    /\ UNCHANGED <<config, conns>>

\* runner.Validate, which the runner repeats.
Valid ==
    /\ instances # <<>>
    /\ \A in \in Range(instances) :
          in.interval > 0 /\ in.retrievers # <<>> /\ in.providers # <<>>

Validate ==
    /\ stage = "validate"
    /\ IF Valid THEN Proceed("validate", "attach")
                     /\ UNCHANGED <<config, instances, conns>>
                ELSE Fail

-----------------------------------------------------------------------------
(* Notifiers                                                               *)

NotifyErrors ==
    Problem(DOMAIN config.notify # {} /\ ~build.notify, "not supported")
    \cup UNION {BuildProblems("notify", notifier.plugin, build) :
                   notifier \in Range(config.notify)}

AttachFails == stage = "attach" /\ NotifyErrors # {} /\ Fail

Connect(notifier) ==
    [plugin |-> Built(notifier.plugin), from |-> notifier.from]

EventsFor(i, k) == config.instances[i].notify[k].events

NotifyHooks(i) ==
    [k \in DOMAIN config.instances[i].notify |->
        [is |-> "notify",
         from |-> conns'[config.instances[i].notify[k].name].from,
         events |-> EventsFor(i, k)]]

\* Every reference of an instance has its connection; that the map has none
\* would be a nil pointer.
Attached ==
    \A in \in Range(config.instances) : \A ref \in Range(in.notify) :
        ref.name \in DOMAIN config.notify

\* attachNotify: nothing is attached when no notifier is used.
AttachNotify ==
    /\ stage = "attach" /\ NotifyErrors = {}
    /\ conns' = [name \in DOMAIN config.notify |->
                    Connect(config.notify[name])]
    /\ IF DOMAIN config.notify = {} \/ ~Attached
       THEN instances' = instances
       ELSE instances' = [i \in DOMAIN instances |->
               [instances[i] EXCEPT !.hooks = @ \o NotifyHooks(i)]]
    /\ stage' = IF DOMAIN config.notify # {} /\ ~Attached THEN "panic"
                ELSE IF checkOnly THEN "summary" ELSE "health"
    /\ UNCHANGED <<input, config, answer, exit>>

-----------------------------------------------------------------------------
(* The summary of --check-config                                           *)

\* variant: the names are compared as they are spelled.
GivenAsSpelled(params, key) == {name \in DOMAIN params : name = key}

GivenAnyCase(params, key) == Given(params, key)

Shown(params, key) == params[CHOOSE name \in GivenAnyCase(params, key) : TRUE]

\* differ: set to different values, or not set everywhere.
Differ(group, key) ==
    \E p, q \in group :
        \/ (GivenAnyCase(p.params, key) = {})
              # (GivenAnyCase(q.params, key) = {})
        \/ /\ GivenAnyCase(p.params, key) # {}
           /\ GivenAnyCase(q.params, key) # {}
           /\ Shown(p.params, key) # Shown(q.params, key)

\* differences: secrets are listed only when nothing else differs.
Differences(group, type) ==
    LET differing == {key \in DOMAIN Fields(type) : Differ(group, key)}
    IN  IF differing \ Secret # {} THEN differing \ Secret ELSE differing

DisplayValue(params, key) ==
    IF key \in Secret THEN "***" ELSE Shown(params, key)

\* describeProviders: the name, and what sets it apart from the others of its
\* type in the same instance.
Label(providers, k) ==
    LET group == {plugin \in Range(providers) :
                     plugin.type = providers[k].type}
        keys == {key \in Differences(group, providers[k].type) :
                    GivenAnyCase(providers[k].params, key) # {}}
    IN  [name |-> IF providers[k].ref = "" THEN providers[k].type
                                           ELSE providers[k].ref,
         differences |-> [key \in keys |->
                             DisplayValue(providers[k].params, key)]]

\* printConfigSummary, after which the connections are closed.
PrintSummary ==
    /\ stage = "summary" /\ stage' = "done" /\ exit' = "ok"
    /\ conns' = <<>>
    /\ UNCHANGED <<input, config, instances, answer>>

-----------------------------------------------------------------------------
(* Running                                                                 *)

\* The recorder of the health files is the last hook of every instance, unless
\* its directory cannot be prepared.
PrepareHealth ==
    /\ Proceed("health", "run")
    /\ \/ instances' = [i \in DOMAIN instances |->
                           [instances[i] EXCEPT
                               !.hooks = Append(@, [is |-> "health"])]]
       \/ UNCHANGED instances
    /\ UNCHANGED <<config, conns>>

Ask(i, r) ==
    /\ stage = "run"
    /\ \E got \in GetAddresses(instances[i].retrievers[r].plugin) :
          answer' = [i |-> i, r |-> r, got |-> got]
    /\ UNCHANGED <<input, stage, config, instances, conns, exit>>

\* The instances are stopped by a signal, and the connections are closed.
Stop ==
    /\ stage = "run" /\ stage' = "done" /\ exit' = "ok"
    /\ conns' = <<>> /\ answer' = None
    /\ UNCHANGED <<input, config, instances>>

Ended == stage \in {"done", "panic"} /\ UNCHANGED vars

Next ==
    \/ LoadFails \/ LoadConfig \/ BuildFails \/ BuildInstances \/ Validate
    \/ AttachFails \/ AttachNotify
    \/ PrintSummary \/ PrepareHealth \/ Stop \/ Ended
    \/ \E i \in DOMAIN instances : \E r \in DOMAIN instances[i].retrievers :
          Ask(i, r)

Spec == Init /\ [][Next]_vars

-----------------------------------------------------------------------------
(* What the document asks for, said without the resolver                   *)

\* Where an instance wants its events: the definition that an entry names, or
\* the place of the entry itself, with the events of the entry, those of the
\* definition, or the default.
Sink(definition, at, events) ==
    [from |-> [definition |-> definition, at |-> at], events |-> events]

Wanted(i) ==
    LET table == doc.instance[i]
        Defined(name) == Key(doc.notify[name], "events", DefaultEvents)
    IN  IF "notify" \notin DOMAIN table
        THEN {Sink(name, <<0, 0>>, Defined(name)) :
                 name \in DOMAIN Pool(doc, "notify")}
        ELSE {LET entry == table.notify[k]
                  name == Key(entry, "short", Key(entry, "ref", ""))
              IN  IF name = ""
                  THEN Sink("", <<i, k>>, Key(entry, "events", DefaultEvents))
                  ELSE Sink(name, <<0, 0>>,
                            Key(entry, "events", Defined(name))) :
              k \in DOMAIN table.notify}

NotifyHooksOf(i) ==
    {k \in DOMAIN instances[i].hooks : instances[i].hooks[k].is = "notify"}

\* Instances that are told apart by their names have notifiers that are: the
\* name of one that is declared in place is made of that of its instance, its
\* type and its position.
NamesAreTold(document) ==
    NameTwice(Instances(document)) = {} =>
        \A at, other \in InlineAt(document) :
            InlineName(document, at) = InlineName(document, other)
            => at = other

\* The document without the definitions that nothing refers to, and whose name
\* is not generated for another notifier either.
Names(kind) ==
    UNION {{Key(entry, "short", Key(entry, "ref", "")) :
               entry \in Range(Key(table, kind, <<>>))} :
           table \in Range(Instances(doc))}
Generated == {InlineName(doc, at) : at \in InlineAt(doc)}
PublishesToAll ==
    \E table \in Range(Instances(doc)) : "notify" \notin DOMAIN table
Lean ==
    [part \in DOMAIN doc |->
        IF part \in {"retriever", "provider"}
              \cup Problem(~PublishesToAll, "notify")
        THEN [name \in DOMAIN doc[part] \cap (Names(part) \cup Generated) |->
                 doc[part][name]]
        ELSE doc[part]]
WellFormed(definition) ==
    CheckPool([it |-> definition]) = {} /\ EventProblems(definition) = {}

\* The value of a parameter that is given in a table.
Gives(table, key) ==
    \E name \in DOMAIN table \ {"type", "ref", "short"} : Lower(name) = key
Value(table, key) ==
    ExpandString(table[CHOOSE name \in DOMAIN table \ {"type", "ref", "short"} :
                          Lower(name) = key], env)

Layered(kind, entry, type, key) ==
    LET name == Key(entry, "short", Key(entry, "ref", ""))
        below == IF name = "" THEN <<>> ELSE doc[kind][name]
    IN  IF Gives(entry, key) THEN Value(entry, key)
        ELSE IF Gives(below, key) THEN Value(below, key)
        ELSE Fields(type)[key]

\* The document with the definitions written out where they are referred to.
WriteOut(kind, entry) ==
    LET name == Key(entry, "short", Key(entry, "ref", ""))
    IN  IF name = "" THEN entry
        ELSE Overlay(Without(entry, {"short", "ref"}), doc[kind][name])
InPlace ==
    [doc EXCEPT !.instance = [i \in DOMAIN doc.instance |->
        [doc.instance[i] EXCEPT
            !.retriever = [r \in DOMAIN @ |-> WriteOut("retriever", @[r])],
            !.provider = [p \in DOMAIN @ |-> WriteOut("provider", @[p])]]]]

-----------------------------------------------------------------------------
(* Properties                                                              *)

\* runner.Validate never refuses what the configuration accepted: the two
\* agree on what an instance needs.
LoadedIsRunnable == stage = "validate" => Valid

\* attachNotify, and docs/configuration/index.md: an instance publishes to
\* exactly the notifiers its document names for it, once to each, with the
\* events of its entry, of the definition, or the default; not to those that
\* another instance declares, nor through a definition of a similar name. And
\* conns[ref.Name] is never nil.
HooksReachWhatTheyName ==
    /\ stage # "panic"
    /\ stage = "run" => \A i \in DOMAIN instances :
          LET hooks == instances[i].hooks
              at == NotifyHooksOf(i)
          IN  /\ {[from |-> hooks[k].from, events |-> hooks[k].events] :
                     k \in at} = Wanted(i)
              /\ \A j, k \in at : hooks[j].from = hooks[k].from => j = k

\* Config.Notify: a definition that no instance uses is not resolved: what
\* its references stand for and whether this build has its type does not
\* decide whether the document is accepted. Nor does an unused retriever or
\* provider.
UnusedNeedsNothing ==
    stage = "load" /\ (\A kind \in {"retriever", "provider", "notify"} :
                          \A definition \in Range(Pool(doc, kind)) :
                             WellFormed(definition))
    => ((ParseProblems(doc, env) = {}) <=> (ParseProblems(Lean, env) = {}))

\* Overriding fields: a parameter of a plugin that was built has the value the
\* instance gives, else that of the definition, else its default, in whichever
\* case the names are spelled; nothing of another instance.
LayersAreKept ==
    stage = "validate" => \A i \in DOMAIN instances :
        LET table == doc.instance[i]
            IsLayered(kind, entry, plugin) ==
                \A key \in DOMAIN plugin.config :
                    plugin.config[key] = Layered(kind, entry, plugin.type, key)
        IN  /\ \A r \in DOMAIN instances[i].retrievers :
                  IsLayered("retriever", table.retriever[r],
                            instances[i].retrievers[r].plugin)
            /\ \A p \in DOMAIN instances[i].providers :
                  IsLayered("provider", table.provider[p],
                            instances[i].providers[p])

\* docs/configuration/index.md: inline, by reference or in the short form "all
\* of them produce the same result": written out in place, the definitions
\* make the same retrievers, with the same hints, and the same providers.
FormsAgree ==
    stage = "validate" =>
        /\ ParseProblems(InPlace, env) = {}
        /\ LET written == Parse(InPlace, env).instances
           IN  \A i \in DOMAIN instances :
                  LET other == BuildInstance(written[i])
                  IN  /\ instances[i].retrievers = other.retrievers
                      /\ instances[i].providers = other.providers

\* NamedRetriever: what a retriever returns is of the families its "family"
\* asks for, all of them, and a retriever that the instance takes to be pinned
\* to a family never returns another.
AnswersFitTheHint ==
    answer # None /\ answer.got.ok =>
        LET retriever == instances[answer.i].retrievers[answer.r]
            found == answer.got.found
        IN  /\ \A f \in DOMAIN found : found[f] \in Of(f) \cap GlobalUnicast
            /\ retriever.hint \in {"ipv4", "ipv6"} =>
                  DOMAIN found = {retriever.hint}
            /\ retriever.hint = "dual" => DOMAIN found = {"ipv4", "ipv6"}

\* describeProviders: providers of one instance that a parameter sets apart
\* which is no secret do not look the same in the summary.
SummaryTellsApart ==
    stage = "summary" =>
        \A i \in DOMAIN instances :
            LET providers == config.instances[i].providers
            IN  \A j, k \in DOMAIN providers :
                   (/\ instances[i].providers[j].type =
                          instances[i].providers[k].type
                    /\ \E key \in DOMAIN instances[i].providers[j].config :
                          /\ key \notin Secret
                          /\ instances[i].providers[j].config[key] #
                                instances[i].providers[k].config[key])
                   => Label(providers, j) # Label(providers, k)

\* docs/configuration/retrievers.md: the "family" parameter tells the instance
\* which families to look for. decode: names match ignoring case.
HintIsGiven ==
    stage = "validate" => \A i \in DOMAIN instances :
        \A r \in DOMAIN instances[i].retrievers :
            Given(config.instances[i].retrievers[r].params, "family") # {}
            => instances[i].retrievers[r].hint =
                  Lower(instances[i].retrievers[r].plugin.config.family)

=============================================================================
