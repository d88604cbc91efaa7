------------------------------- MODULE Config -------------------------------
(***************************************************************************)
(* The configuration file: internal/config. Parse checks the layout of the *)
(* document, resolves the references of every instance and overlays a      *)
(* definition with the parameters of the instance.                         *)
(*                                                                         *)
(* A document is a function from its keys: interval, the pools retriever,  *)
(* provider and notify, which map names to tables, and instance, a         *)
(* sequence of tables. A table is a function from its keys. The short form *)
(* of a list entry, a bare name, is the table [short |-> name]. An         *)
(* interval is a number, 0 if it is no duration; every other value is a    *)
(* string, and "events" a sequence. A "type" of another type of TOML       *)
(* counts as the empty one: both are refused alike.                        *)
(*                                                                         *)
(* env maps the references that can be expanded, such as ${NAME} or        *)
(* ${file:PATH}, to what they stand for. A string that holds a reference   *)
(* is nothing else.                                                        *)
(***************************************************************************)
EXTENDS Plugins, Integers, SequencesExt

CONSTANTS
    MinInterval,
    DefaultInterval,
    References       \* strings that are references, malformed ones too

ASSUME IntervalAssumption ==
    /\ MinInterval \in Nat \ {0}
    /\ DefaultInterval \in Nat /\ DefaultInterval >= MinInterval

AllEvents == {"status", "provider_status", "retriever_status", "ip_change",
              "cycle", "lifecycle"}
DefaultEvents == <<"status">>

Pool(doc, kind) == Key(doc, kind, <<>>)
Instances(doc) == Key(doc, "instance", <<>>)

Without(table, keys) == [key \in DOMAIN table \ keys |-> table[key]]

-----------------------------------------------------------------------------
(* Layout                                                                  *)

CheckPool(pool) ==
    Problem(\E name \in DOMAIN pool : Key(pool[name], "type", "") = "",
            "type")
    \cup Problem(\E name \in DOMAIN pool : "ref" \in DOMAIN pool[name], "ref")

ShapeProblems(doc) ==
    Problem(DOMAIN doc \ {"interval", "retriever", "provider", "notify",
                          "instance"} # {}, "unknown key")
    \cup UNION {CheckPool(Pool(doc, kind)) :
                   kind \in {"retriever", "provider", "notify"}}

\* A name stands for a table that refers to it.
AsRefs(list) ==
    [k \in DOMAIN list |-> IF "short" \in DOMAIN list[k]
                           THEN [ref |-> list[k].short] ELSE list[k]]

CheckList(list) ==
    Problem(\E k \in DOMAIN list : Key(list[k], "short", "name") = "",
            "empty name")

ParseInterval(table) ==
    Problem(Key(table, "interval", MinInterval) < MinInterval, "interval")

\* parseEvents. A table without the key has its events from elsewhere.
EventProblems(table) ==
    IF "events" \notin DOMAIN table THEN {}
    ELSE Problem(table.events = <<>>, "no events")
         \cup Problem(ToSet(table.events) \ AllEvents # {}, "unknown event")
         \cup Problem(~IsInjective(table.events), "event listed twice")

\* checkNotifyTable: a table with "ref" holds its events besides, one with
\* "type" is a definition of its own.
CheckNotifyTable(table) ==
    IF "ref" \in DOMAIN table
    THEN Problem("type" \in DOMAIN table, "ref and type")
         \cup Problem(DOMAIN table \ {"ref", "type", "events"} # {},
                      "overrides a shared notifier")
         \cup Problem(table.ref = "", "ref")
         \cup EventProblems(table)
    ELSE Problem(Key(table, "type", "") = "", "type")
         \cup EventProblems(table)

CheckInstance(table) ==
    Problem(DOMAIN table \ {"name", "interval", "ping_url", "retriever",
                            "provider", "notify"} # {}, "unknown key")
    \cup ParseInterval(table)
    \cup CheckList(Key(table, "retriever", <<>>))
    \cup CheckList(Key(table, "provider", <<>>))
    \cup CheckList(Key(table, "notify", <<>>))
    \cup UNION {CheckNotifyTable(entry) :
                   entry \in Range(AsRefs(Key(table, "notify", <<>>)))}

-----------------------------------------------------------------------------
(* References, overrides and the environment                               *)

ExpandProblems(params, env) ==
    Problem(\E name \in DOMAIN params :
               params[name] \in References \ DOMAIN env, "reference")

ExpandString(text, env) == IF text \in References THEN env[text] ELSE text

ExpandMap(params, env) ==
    [name \in DOMAIN params |-> ExpandString(params[name], env)]

\* A table, and what it leaves to the one below it.
Overlay(table, below) ==
    [name \in DOMAIN table \cup DOMAIN below |->
        IF name \in DOMAIN table THEN table[name] ELSE below[name]]

\* variant: the definition wins over what the instance says.
MergeUnder(kind, definition, override) ==
    Without(Overlay(definition, override),
            {"type", "ref"} \cup Problem(kind = "notify", "events"))

\* The parameters of a definition, overlaid with those of the instance. They
\* are told apart by the spelling of their names.
Merge(kind, definition, override) ==
    Without(Overlay(override, definition),
            {"type", "ref"} \cup Problem(kind = "notify", "events"))

ByRefProblems(kind, pool, ref, override, env) ==
    IF ref \notin DOMAIN pool THEN {"not defined"}
    ELSE ExpandProblems(Merge(kind, pool[ref], override), env)

ResolvePluginByRef(kind, pool, ref, override, env) ==
    [ref |-> ref, type |-> pool[ref].type,
     params |-> ExpandMap(Merge(kind, pool[ref], override), env)]

InlineProblems(table, env) ==
    IF table.type = "" THEN {"type"}
    ELSE ExpandProblems(Without(table, {"type"}), env)

ResolvePluginInline(table, env) ==
    [ref |-> "", type |-> table.type,
     params |-> ExpandMap(Without(table, {"type"}), env)]

PluginProblems(kind, pool, table, env) ==
    IF Key(table, "ref", "") # ""
    THEN IF "type" \in DOMAIN table THEN {"ref and type"}
         ELSE ByRefProblems(kind, pool, table.ref, table, env)
    ELSE IF "type" \in DOMAIN table THEN InlineProblems(table, env)
                                    ELSE {"neither ref nor type"}

ResolvePlugin(kind, pool, table, env) ==
    IF Key(table, "ref", "") # ""
    THEN ResolvePluginByRef(kind, pool, table.ref, table, env)
    ELSE ResolvePluginInline(table, env)

\* variant: an instance may do without.
ListMayBeEmpty(kind, pool, list, env) ==
    UNION {PluginProblems(kind, pool, table, env) : table \in Range(list)}

ListProblems(kind, pool, list, env) ==
    Problem(list = <<>>, "none listed")
    \cup UNION {PluginProblems(kind, pool, table, env) : table \in Range(list)}

ResolvePlugins(kind, pool, list, env) ==
    [k \in DOMAIN list |-> ResolvePlugin(kind, pool, list[k], env)]

\* Two providers of one definition with the same parameters.
DuplicateProviders(providers) ==
    Problem(\E j, k \in DOMAIN providers :
               /\ j < k /\ providers[k].ref # ""
               /\ providers[j].ref = providers[k].ref
               /\ providers[j].params = providers[k].params,
            "provider repeated")

-----------------------------------------------------------------------------
(* Notifiers                                                               *)

IsInline(entry) == "type" \in DOMAIN entry

\* The name of a notifier that an instance declares in place.
GeneratedName(instance, type, k) ==
    instance \o "/" \o type \o "#" \o ToString(k)

\* namedNotify and resolveInlineNotify, for the entries that have a name or a
\* type; what else is wrong with one, CheckNotifyTable says.
NotifyProblems(pool, name, entries, env) ==
    Problem(\E k \in DOMAIN entries :
               ~IsInline(entries[k]) /\ entries[k].ref \notin DOMAIN pool,
            "not defined")
    \cup Problem(\E j, k \in DOMAIN entries :
                    /\ j < k /\ ~IsInline(entries[j]) /\ ~IsInline(entries[k])
                    /\ entries[j].ref = entries[k].ref,
                 "listed twice")
    \cup UNION {IF IsInline(entries[k])
                THEN InlineProblems(Without(entries[k], {"events"}), env)
                     \cup Problem(GeneratedName(name, entries[k].type, k)
                                  \in DOMAIN pool, "name is taken")
                ELSE {} : k \in DOMAIN entries}

DefinedEvents(pool, name) == Key(pool[name], "events", DefaultEvents)

\* variant: what an instance says of the events is not looked at.
DefinitionRules(pool, entry) == DefinedEvents(pool, entry.ref)

NamedEvents(pool, entry) ==
    Key(entry, "events", DefinedEvents(pool, entry.ref))

\* Without "notify", every definition (in the order of their names).
AllNotifyRefs(pool) ==
    LET names == SetToSeq(DOMAIN pool)
    IN  [k \in DOMAIN names |->
            [name |-> names[k], events |-> DefinedEvents(pool, names[k])]]

ResolveNotify(pool, table) ==
    IF "notify" \notin DOMAIN table THEN AllNotifyRefs(pool)
    ELSE LET entries == AsRefs(table.notify)
         IN  [k \in DOMAIN entries |->
                IF IsInline(entries[k])
                THEN [name |-> GeneratedName(table.name, entries[k].type, k),
                      events |-> Key(entries[k], "events", DefaultEvents)]
                ELSE [name |-> entries[k].ref,
                      events |-> NamedEvents(pool, entries[k])]]

\* Where notifiers are declared in place, by the position of the instance and
\* that in its list.
InlineAt(doc) ==
    UNION {{<<i, k>> : k \in {k \in DOMAIN Key(Instances(doc)[i], "notify",
                                               <<>>) :
                              IsInline(Instances(doc)[i].notify[k])}} :
           i \in DOMAIN Instances(doc)}

InlineName(doc, at) ==
    LET table == Instances(doc)[at[1]]
    IN  GeneratedName(Key(table, "name", ""), table.notify[at[2]].type, at[2])

\* variant: the definitions are resolved whether they are used or not.
EveryDefinition(doc) == DOMAIN Pool(doc, "notify")

\* The definitions that some instance publishes to (recordNotify).
UsedDefinitions(doc) ==
    DOMAIN Pool(doc, "notify") \cap
    UNION {{ref.name : ref \in Range(ResolveNotify(Pool(doc, "notify"),
                                                   table))} :
           table \in Range(Instances(doc))}

\* resolveNotifiers: a later one of the same generated name replaces one.
\* "from" is where it was declared, for the properties.
ResolveNotifiers(doc, env) ==
    LET pool == Pool(doc, "notify")
        inline == {InlineName(doc, at) : at \in InlineAt(doc)}
        Latest(name) == CHOOSE at \in InlineAt(doc) :
            /\ InlineName(doc, at) = name
            /\ \A other \in InlineAt(doc) :
                  InlineName(doc, other) = name => other[1] <= at[1]
    IN  [name \in UsedDefinitions(doc) \cup inline |->
            IF name \in inline
            THEN LET at == Latest(name)
                     entry == Without(Instances(doc)[at[1]].notify[at[2]],
                                      {"events"})
                 IN  [plugin |-> ResolvePluginInline(entry, env),
                      from |-> [definition |-> "", at |-> at]]
            ELSE [plugin |-> ResolvePluginByRef("notify", pool, name, <<>>,
                                                env),
                  from |-> [definition |-> name, at |-> <<0, 0>>]]]

-----------------------------------------------------------------------------
(* Instances, and the whole document                                       *)

InstanceProblems(doc, table, env) ==
    CheckInstance(table)
    \cup Problem(Key(table, "name", "") = "", "name")
    \cup Problem(Key(table, "ping_url", "") \in References \ DOMAIN env,
                 "reference")
    \cup ListProblems("retriever", Pool(doc, "retriever"),
                      AsRefs(Key(table, "retriever", <<>>)), env)
    \cup ListProblems("provider", Pool(doc, "provider"),
                      AsRefs(Key(table, "provider", <<>>)), env)

\* What is found only when the entries themselves are in order.
EntryProblems(doc, table, env) ==
    DuplicateProviders(ResolvePlugins("provider", Pool(doc, "provider"),
                                      AsRefs(Key(table, "provider", <<>>)),
                                      env))
    \cup NotifyProblems(Pool(doc, "notify"), table.name,
                        AsRefs(Key(table, "notify", <<>>)), env)

ResolveInstance(doc, table, env) ==
    [name |-> table.name,
     interval |-> Key(table, "interval",
                      Key(doc, "interval", DefaultInterval)),
     ping_url |-> ExpandString(Key(table, "ping_url", ""), env),
     retrievers |-> ResolvePlugins("retriever", Pool(doc, "retriever"),
                                   AsRefs(Key(table, "retriever", <<>>)), env),
     providers |-> ResolvePlugins("provider", Pool(doc, "provider"),
                                  AsRefs(Key(table, "provider", <<>>)), env),
     notify |-> ResolveNotify(Pool(doc, "notify"), table)]

NameTwice(tables) ==
    Problem(\E j, k \in DOMAIN tables :
               j < k /\ Key(tables[j], "name", "") = Key(tables[k], "name", ""),
            "name used twice")

\* What stops the resolver from going on does not hide the rest in the code;
\* here it does, because a document with a problem is refused all the same.
ParseProblems(doc, env) ==
    LET tables == Instances(doc)
        early == ShapeProblems(doc)
                 \cup (UNION {EventProblems(definition) :
                                 definition \in Range(Pool(doc, "notify"))})
                 \cup ParseInterval(doc)
                 \cup Problem(tables = <<>>, "no instances")
                 \cup (UNION {InstanceProblems(doc, table, env) :
                                 table \in Range(tables)})
                 \cup NameTwice(tables)
        late == UNION {EntryProblems(doc, table, env) :
                          table \in Range(tables)}
    IN  IF early # {} THEN early
        ELSE IF late # {} THEN late
        ELSE UNION {ByRefProblems("notify", Pool(doc, "notify"), name, <<>>,
                                  env) : name \in UsedDefinitions(doc)}

Parse(doc, env) ==
    [instances |-> [i \in DOMAIN Instances(doc) |->
                       ResolveInstance(doc, Instances(doc)[i], env)],
     notify |-> ResolveNotifiers(doc, env)]

=============================================================================
