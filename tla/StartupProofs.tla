---------------------------- MODULE StartupProofs ----------------------------
(***************************************************************************)
(* Theorems about Startup, for all documents, environments and builds.     *)
(***************************************************************************)
EXTENDS Startup, FiniteSetTheorems, SequenceTheorems, WellFoundedInduction,
        TLAPS

HasConfig    == stage \in {"build", "validate", "attach", "summary", "health",
                           "run"}
HasInstances == HasConfig /\ stage # "build"

Fields5 == {"name", "interval", "retrievers", "providers", "hooks"}

\* Every plugin that the instance i names could be built.
IsBuildable(i) ==
    LET table == config.instances[i]
    IN  /\ \A r \in DOMAIN table.retrievers :
              BuildProblems("retriever", table.retrievers[r], build) = {}
        /\ \A p \in DOMAIN table.providers :
              BuildProblems("provider", table.providers[p], build) = {}

\* The parts of a built instance that attaching hooks leaves as they are.
IsBuilt(i) ==
    LET built == BuildInstance(config.instances[i])
    IN  /\ DOMAIN instances[i] = Fields5
        /\ instances[i].interval = built.interval
        /\ instances[i].retrievers = built.retrievers
        /\ instances[i].providers = built.providers

Answered ==
    /\ stage = "run"
    /\ answer.i \in DOMAIN instances
    /\ answer.r \in DOMAIN instances[answer.i].retrievers
    /\ answer.got \in
          GetAddresses(instances[answer.i].retrievers[answer.r].plugin)

Inv ==
    /\ doc \in Documents
    /\ HasConfig => ParseProblems(doc, env) = {} /\ config = Parse(doc, env)
    /\ HasInstances =>
          /\ DOMAIN instances = DOMAIN config.instances
          /\ \A i \in DOMAIN instances : IsBuildable(i) /\ IsBuilt(i)
    /\ answer = None \/ Answered

LEMMA InitInv == Init => Inv
  BY DEF Init, Inv, HasConfig, HasInstances

\* Hooks are added to the instances, and nothing else of them changes.
LEMMA HooksOnly ==
  ASSUME NEW built, DOMAIN built = Fields5, NEW hooks
  PROVE  LET new == [built EXCEPT !.hooks = hooks]
         IN  /\ DOMAIN new = Fields5
             /\ new.interval = built.interval
             /\ new.retrievers = built.retrievers
             /\ new.providers = built.providers
  BY DEF Fields5

LEMMA NoErrors ==
  ASSUME InstanceErrors = {}, NEW i \in DOMAIN config.instances
  PROVE  IsBuildable(i)
<1> DEFINE table == config.instances[i]
<1>1. BuildInstanceProblems(table) = {}
  <2>1. table \in Range(config.instances)
    BY DEF Range
  <2>2. BuildInstanceProblems(table) \subseteq InstanceErrors
    BY <2>1 DEF InstanceErrors
  <2> QED
    BY <2>2
<1>2. ASSUME NEW r \in DOMAIN table.retrievers
      PROVE  BuildProblems("retriever", table.retrievers[r], build) = {}
  BY <1>1 DEF BuildInstanceProblems, Range
<1>3. ASSUME NEW p \in DOMAIN table.providers
      PROVE  BuildProblems("provider", table.providers[p], build) = {}
  <2>1. table.providers[p] \in Range(table.providers)
    BY DEF Range
  <2> QED
    BY <1>1, <2>1 DEF BuildInstanceProblems
<1> QED
  BY <1>2, <1>3 DEF IsBuildable

LEMMA NextInv ==
  ASSUME Inv, [Next]_vars
  PROVE  Inv'
<1> USE DEF HasConfig, HasInstances
<1>1. CASE LoadFails \/ BuildFails \/ AttachFails
  BY <1>1 DEF LoadFails, BuildFails, AttachFails, Fail, Inv, Answered, input
<1>2. CASE LoadConfig
  BY <1>2 DEF LoadConfig, Proceed, Inv, Answered, input
<1>3. CASE BuildInstances
  <2>1. config' = config /\ doc' = doc /\ env' = env /\ build' = build
        /\ stage = "build" /\ stage' = "validate" /\ answer' = answer
    BY <1>3 DEF BuildInstances, Proceed, input
  <2>2. DOMAIN instances' = DOMAIN config'.instances
        /\ \A i \in DOMAIN instances' :
              instances'[i] = BuildInstance(config'.instances[i])
    BY <1>3, <2>1 DEF BuildInstances
  <2>3. \A i \in DOMAIN instances' : IsBuildable(i)
    BY <1>3, <2>1, <2>2, NoErrors DEF BuildInstances
  <2>4. \A i \in DOMAIN instances' : IsBuildable(i)'
    BY <2>1, <2>3 DEF IsBuildable
  <2>5. \A i \in DOMAIN instances' : IsBuilt(i)'
    BY <2>2 DEF IsBuilt, BuildInstance, Fields5
  <2> QED
    BY <2>1, <2>2, <2>4, <2>5 DEF Inv, Answered
<1>4. ASSUME UNCHANGED <<input, config, answer>>, HasInstances, HasInstances',
             answer = None, DOMAIN instances' = DOMAIN instances,
             ASSUME NEW i \in DOMAIN instances
             PROVE  \/ instances'[i] = instances[i]
                    \/ \E hooks : instances'[i] =
                                    [instances[i] EXCEPT !.hooks = hooks]
      PROVE  Inv'
  <2>1. \A i \in DOMAIN instances' : IsBuildable(i)'
    BY <1>4 DEF Inv, IsBuildable, input
  <2>2. ASSUME NEW i \in DOMAIN instances' PROVE IsBuilt(i)'
    <3>1. IsBuilt(i) /\ config' = config
      BY <1>4, <2>2 DEF Inv
    <3>2. CASE instances'[i] = instances[i]
      BY <3>1, <3>2 DEF IsBuilt
    <3>3. ASSUME NEW hooks,
                 instances'[i] = [instances[i] EXCEPT !.hooks = hooks]
          PROVE  IsBuilt(i)'
      BY <3>1, <3>3, HooksOnly DEF IsBuilt
    <3> QED
      BY <1>4, <2>2, <3>2, <3>3
  <2> QED
    BY <1>4, <2>1, <2>2 DEF Inv, input
<1>5. CASE Validate
  <2>1. CASE Valid
    BY <1>4, <1>5, <2>1 DEF Validate, Proceed, Inv, Answered, input
  <2>2. CASE ~Valid
    BY <1>5, <2>2 DEF Validate, Fail, Inv, Answered, input
  <2> QED
    BY <2>1, <2>2
<1>6. CASE AttachNotify
  <2>1. CASE stage' = "panic"
    BY <1>6, <2>1 DEF AttachNotify, Inv, Answered, input
  <2>2. CASE stage' # "panic"
    BY <1>4, <1>6, <2>2 DEF AttachNotify, Inv, Answered, input
  <2> QED
    BY <2>1, <2>2
<1>7. CASE PrintSummary \/ Stop
  BY <1>7 DEF PrintSummary, Stop, Inv, Answered, input
<1>8. CASE PrepareHealth
  BY <1>4, <1>8 DEF PrepareHealth, Proceed, Inv, Answered, input
<1>9. ASSUME NEW i \in DOMAIN instances,
             NEW r \in DOMAIN instances[i].retrievers, Ask(i, r)
      PROVE  Inv'
  <2>1. UNCHANGED <<doc, env, build, checkOnly, stage, config, instances>>
    BY <1>9 DEF Ask, input
  <2>2. Answered'
    BY <1>9, <2>1 DEF Ask, Answered
  <2>3. \A j \in DOMAIN instances :
           IsBuildable(j)' = IsBuildable(j) /\ IsBuilt(j)' = IsBuilt(j)
    BY <2>1 DEF IsBuildable, IsBuilt
  <2> QED
    BY <2>1, <2>2, <2>3 DEF Inv
<1>10. CASE UNCHANGED vars
  BY <1>10 DEF vars, Inv, Answered, IsBuildable, IsBuilt
<1> QED
  BY <1>1, <1>2, <1>3, <1>5, <1>6, <1>7, <1>8, <1>9, <1>10 DEF Next, Ended

THEOREM InvHolds == Spec => []Inv
  BY InitInv, NextInv, PTL DEF Spec

-----------------------------------------------------------------------------
(* Problems, names and parameters                                          *)

LEMMA NoProblem ==
  ASSUME NEW wrong, NEW word, Problem(wrong, word) = {}
  PROVE  ~wrong
  BY DEF Problem

LEMMA EmptyFunction ==
  ASSUME NEW f, f = [x \in DOMAIN f |-> f[x]], DOMAIN f = {}
  PROVE  f = <<>>
  OBVIOUS

\* One more spelling, at most, stands for the name of a parameter.
LEMMA Spelled ==
  ASSUME NEW params, NEW key
  PROVE  Given(params, key) \subseteq {"Family", "Zone", "IPv4", key}
  BY DEF Given, Lower, Key, Spellings

LEMMA AtMostOne ==
  ASSUME NEW S, IsFiniteSet(S), ~(Cardinality(S) > 1),
         NEW a \in S, NEW b \in S
  PROVE  a = b
<1>1. Cardinality(S) \in Nat
  BY FS_CardinalityType
<1>2. CASE Cardinality(S) = 0
  BY <1>2, FS_EmptySet
<1>3. CASE Cardinality(S) = 1
  BY <1>3, FS_Singleton
<1> QED
  BY <1>1, <1>2, <1>3

\* What a block that can be decoded gives for a parameter is given once.
LEMMA GivenOnce ==
  ASSUME NEW fields, NEW params, DecodeProblems(fields, params) = {},
         NEW key \in DOMAIN fields,
         NEW a \in Given(params, key), NEW b \in Given(params, key)
  PROVE  a = b
<1>1. ~(Cardinality(Given(params, key)) > 1)
  BY DEF DecodeProblems, Problem
<1>2. IsFiniteSet({"Family", "Zone", "IPv4", key})
  <2>1. IsFiniteSet({} \cup {"Family"})
    BY FS_EmptySet, FS_AddElement
  <2>2. IsFiniteSet(({} \cup {"Family"}) \cup {"Zone"})
    BY <2>1, FS_AddElement
  <2>3. IsFiniteSet((({} \cup {"Family"}) \cup {"Zone"}) \cup {"IPv4"})
    BY <2>2, FS_AddElement
  <2>4. IsFiniteSet(((({} \cup {"Family"}) \cup {"Zone"}) \cup {"IPv4"})
                       \cup {key})
    BY <2>3, FS_AddElement
  <2>5. {"Family", "Zone", "IPv4", key} =
           ((({} \cup {"Family"}) \cup {"Zone"}) \cup {"IPv4"}) \cup {key}
    OBVIOUS
  <2> QED
    BY <2>4, <2>5
<1>3. IsFiniteSet(Given(params, key))
  BY <1>2, Spelled, FS_Subset
<1> QED
  BY <1>1, <1>3, AtMostOne

-----------------------------------------------------------------------------
(* The summary                                                             *)

LEMMA DifferentValues ==
  ASSUME NEW group, NEW p \in group, NEW q \in group, NEW fields,
         NEW key \in DOMAIN fields,
         Decode(fields, p.params)[key] # Decode(fields, q.params)[key]
  PROVE  /\ Differ(group, key)
         /\ GivenAnyCase(p.params, key) # {} \/ GivenAnyCase(q.params, key) # {}
         /\ GivenAnyCase(p.params, key) # {} /\ GivenAnyCase(q.params, key) # {}
               => Shown(p.params, key) # Shown(q.params, key)
  BY DEF Decode, Differ, Shown, GivenAnyCase

\* Two providers of an instance that were built with different values have
\* different labels, unless the values are secret.
LEMMA LabelsDiffer ==
  ASSUME NEW providers, NEW j \in DOMAIN providers, NEW k \in DOMAIN providers,
         providers[j].type = providers[k].type,
         NEW key \in DOMAIN Fields(providers[j].type), key \notin Secret,
         Decode(Fields(providers[j].type), providers[j].params)[key]
            # Decode(Fields(providers[k].type), providers[k].params)[key]
  PROVE  Label(providers, j) # Label(providers, k)
<1> DEFINE type  == providers[j].type
           group == {plugin \in Range(providers) : plugin.type = type}
           P     == providers[j].params
           Q     == providers[k].params
           Keys(params) == {name \in Differences(group, type) :
                               GivenAnyCase(params, name) # {}}
           Row(params) == [name \in Keys(params) |-> DisplayValue(params, name)]
<1>1. providers[j] \in group /\ providers[k] \in group
  BY DEF Range
<1>2. /\ Differ(group, key)
      /\ GivenAnyCase(P, key) # {} \/ GivenAnyCase(Q, key) # {}
      /\ GivenAnyCase(P, key) # {} /\ GivenAnyCase(Q, key) # {}
            => Shown(P, key) # Shown(Q, key)
  <2> HIDE DEF group, type
  <2> QED
    BY <1>1, DifferentValues DEF type
<1>3. key \in Differences(group, type)
  BY <1>2 DEF Differences
<1>4. Row(P) # Row(Q)
  <2>1. CASE GivenAnyCase(P, key) # {} /\ GivenAnyCase(Q, key) # {}
    <3>1. key \in DOMAIN Row(P) /\ Row(P)[key] = Shown(P, key)
      BY <1>3, <2>1 DEF DisplayValue
    <3>2. key \in DOMAIN Row(Q) /\ Row(Q)[key] = Shown(Q, key)
      BY <1>3, <2>1 DEF DisplayValue
    <3> QED
      BY <1>2, <2>1, <3>1, <3>2
  <2>2. CASE ~(GivenAnyCase(P, key) # {} /\ GivenAnyCase(Q, key) # {})
    <3>1. (key \in Keys(P)) # (key \in Keys(Q))
      BY <1>2, <1>3, <2>2
    <3>2. Keys(P) = DOMAIN Row(P) /\ Keys(Q) = DOMAIN Row(Q)
      OBVIOUS
    <3> HIDE DEF Keys, Row
    <3> QED
      BY <3>1, <3>2
  <2> QED
    BY <2>1, <2>2
<1>5. Label(providers, j).differences = Row(P)
      /\ Label(providers, k).differences = Row(Q)
  BY DEF Label
<1> QED
  BY <1>4, <1>5

LEMMA BuiltFields ==
  ASSUME NEW plugin
  PROVE  /\ Built(plugin).type = plugin.type
         /\ Built(plugin).config = Decode(Fields(plugin.type), plugin.params)
  BY DEF Built

\* printConfigSummary: providers that a parameter sets apart which is no secret
\* do not look the same, whatever the rest of their instance is.
THEOREM SummaryIsUnambiguous == Spec => []SummaryTellsApart
<1>1. Inv => SummaryTellsApart
  <2> SUFFICES ASSUME Inv, stage = "summary", NEW i \in DOMAIN instances,
                      NEW j \in DOMAIN config.instances[i].providers,
                      NEW k \in DOMAIN config.instances[i].providers,
                      instances[i].providers[j].type =
                         instances[i].providers[k].type,
                      NEW key \in DOMAIN instances[i].providers[j].config,
                      key \notin Secret,
                      instances[i].providers[j].config[key] #
                         instances[i].providers[k].config[key]
               PROVE  Label(config.instances[i].providers, j)
                         # Label(config.instances[i].providers, k)
    BY DEF SummaryTellsApart
  <2> DEFINE providers == config.instances[i].providers
  <2>1. IsBuilt(i)
    BY DEF Inv, HasInstances, HasConfig
  <2>2. \A n \in DOMAIN providers :
           instances[i].providers[n] = Built(providers[n])
    BY <2>1 DEF IsBuilt, BuildInstance
  <2>3. \A n \in DOMAIN providers :
           /\ instances[i].providers[n].type = providers[n].type
           /\ instances[i].providers[n].config =
                 Decode(Fields(providers[n].type), providers[n].params)
    BY <2>2, BuiltFields
  <2>4. key \in DOMAIN Fields(providers[j].type)
    BY <2>3 DEF Decode
  <2>5. /\ j \in DOMAIN providers /\ k \in DOMAIN providers
        /\ providers[j].type = providers[k].type
        /\ Decode(Fields(providers[j].type), providers[j].params)[key]
              # Decode(Fields(providers[k].type), providers[k].params)[key]
    BY <2>3
  <2> HIDE DEF providers
  <2>6. Label(providers, j) # Label(providers, k)
    BY <2>4, <2>5, LabelsDiffer
  <2> QED
    BY <2>6 DEF providers
<1> QED
  BY InvHolds, <1>1, PTL

-----------------------------------------------------------------------------
(* What a document that is accepted has                                    *)

IsAccepted(d, e) ==
    /\ ShapeProblems(d) = {} /\ ParseInterval(d) = {}
    /\ Instances(d) # <<>> /\ NameTwice(Instances(d)) = {}
    /\ \A definition \in Range(Pool(d, "notify")) :
          EventProblems(definition) = {}
    /\ \A table \in Range(Instances(d)) :
          InstanceProblems(d, table, e) = {} /\ EntryProblems(d, table, e) = {}
    /\ \A name \in UsedDefinitions(d) :
          ByRefProblems("notify", Pool(d, "notify"), name, <<>>, e) = {}

\* A document is accepted if and only if each of its parts is.
LEMMA AcceptedIff ==
  ASSUME NEW d, NEW e
  PROVE  ParseProblems(d, e) = {} <=> IsAccepted(d, e)
<1> DEFINE tables == Instances(d)
           events == UNION {EventProblems(definition) :
                               definition \in Range(Pool(d, "notify"))}
           each   == UNION {InstanceProblems(d, table, e) :
                               table \in Range(tables)}
           none   == Problem(tables = <<>>, "no instances")
           early  == ShapeProblems(d) \cup events \cup ParseInterval(d)
                     \cup none \cup each \cup NameTwice(tables)
           late   == UNION {EntryProblems(d, table, e) :
                               table \in Range(tables)}
           used   == UNION {ByRefProblems("notify", Pool(d, "notify"), name,
                                          <<>>, e) :
                               name \in UsedDefinitions(d)}
<1>1. ParseProblems(d, e) = IF early # {} THEN early
                            ELSE IF late # {} THEN late ELSE used
  BY DEF ParseProblems
<1>2. none = {} <=> tables # <<>>
  BY DEF Problem
<1>3. events = {} <=> \A definition \in Range(Pool(d, "notify")) :
                         EventProblems(definition) = {}
  OBVIOUS
<1>4. each = {} <=> \A table \in Range(tables) :
                       InstanceProblems(d, table, e) = {}
  OBVIOUS
<1>5. late = {} <=> \A table \in Range(tables) : EntryProblems(d, table, e) = {}
  OBVIOUS
<1>6. used = {} <=> \A name \in UsedDefinitions(d) :
                       ByRefProblems("notify", Pool(d, "notify"), name, <<>>,
                                     e) = {}
  OBVIOUS
<1> HIDE DEF events, each, none, late, used
<1>7. ParseProblems(d, e) = {} <=> early = {} /\ late = {} /\ used = {}
  BY <1>1
<1>8. early = {} <=> /\ ShapeProblems(d) = {} /\ events = {}
                     /\ ParseInterval(d) = {} /\ none = {} /\ each = {}
                     /\ NameTwice(tables) = {}
  OBVIOUS
<1> QED
  BY <1>2, <1>3, <1>4, <1>5, <1>6, <1>7, <1>8 DEF IsAccepted

LEMMA Accepted ==
  ASSUME NEW d, NEW e, ParseProblems(d, e) = {}
  PROVE  /\ ShapeProblems(d) = {} /\ ParseInterval(d) = {}
         /\ Instances(d) # <<>>
         /\ \A i \in DOMAIN Instances(d) :
               InstanceProblems(d, Instances(d)[i], e) = {}
<1>1. IsAccepted(d, e)
  BY AcceptedIff
<1>2. ASSUME NEW i \in DOMAIN Instances(d)
      PROVE  InstanceProblems(d, Instances(d)[i], e) = {}
  <2>1. Instances(d)[i] \in Range(Instances(d))
    BY DEF Range
  <2> QED
    BY <1>1, <2>1 DEF IsAccepted
<1> QED
  BY <1>1, <1>2 DEF IsAccepted

LEMMA AcceptedInstance ==
  ASSUME NEW d, NEW e, NEW table, InstanceProblems(d, table, e) = {}
  PROVE  /\ ParseInterval(table) = {}
         /\ CheckList(Key(table, "retriever", <<>>)) = {}
         /\ CheckList(Key(table, "provider", <<>>)) = {}
         /\ ListProblems("retriever", Pool(d, "retriever"),
                         AsRefs(Key(table, "retriever", <<>>)), e) = {}
         /\ ListProblems("provider", Pool(d, "provider"),
                         AsRefs(Key(table, "provider", <<>>)), e) = {}
<1>1. CheckInstance(table) = {}
  BY DEF InstanceProblems
<1>2. /\ ParseInterval(table) = {}
      /\ CheckList(Key(table, "retriever", <<>>)) = {}
      /\ CheckList(Key(table, "provider", <<>>)) = {}
  BY <1>1 DEF CheckInstance
<1>3. /\ ListProblems("retriever", Pool(d, "retriever"),
                      AsRefs(Key(table, "retriever", <<>>)), e) = {}
      /\ ListProblems("provider", Pool(d, "provider"),
                      AsRefs(Key(table, "provider", <<>>)), e) = {}
  BY DEF InstanceProblems
<1> QED
  BY <1>2, <1>3

LEMMA ListIsUsable ==
  ASSUME NEW kind, NEW pool, NEW list, NEW e,
         ListProblems(kind, pool, AsRefs(list), e) = {}
  PROVE  /\ DOMAIN list # {}
         /\ \A k \in DOMAIN list :
               PluginProblems(kind, pool, AsRefs(list)[k], e) = {}
<1>1. Problem(AsRefs(list) = <<>>, "none listed") = {}
  BY DEF ListProblems
<1>2. DOMAIN list # {}
  <2>1. /\ AsRefs(list) = [k \in DOMAIN AsRefs(list) |-> AsRefs(list)[k]]
        /\ DOMAIN AsRefs(list) = DOMAIN list
    BY DEF AsRefs
  <2>2. AsRefs(list) # <<>>
    BY <1>1, NoProblem
  <2> QED
    BY <2>1, <2>2, EmptyFunction
<1>3. ASSUME NEW k \in DOMAIN list
      PROVE  PluginProblems(kind, pool, AsRefs(list)[k], e) = {}
  <2>1. AsRefs(list)[k] \in Range(AsRefs(list))
    BY DEF Range, AsRefs
  <2>2. UNION {PluginProblems(kind, pool, table, e) :
                  table \in Range(AsRefs(list))} = {}
    BY DEF ListProblems
  <2> QED
    BY <2>1, <2>2
<1> QED
  BY <1>2, <1>3

LEMMA IntervalIsSet ==
  ASSUME NEW table, ParseInterval(table) = {}, NEW default \in Int, default > 0,
         Key(table, "interval", 0) \in Int
  PROVE  Key(table, "interval", default) \in Int
         /\ Key(table, "interval", default) > 0
<1>1. ~(Key(table, "interval", MinInterval) < MinInterval)
  BY NoProblem DEF ParseInterval
<1> QED
  BY <1>1, IntervalAssumption DEF Key

LEMMA Resolved ==
  ASSUME NEW d, NEW table, NEW e
  PROVE  LET resolved == ResolveInstance(d, table, e)
         IN  /\ resolved.interval = Key(table, "interval",
                                        Key(d, "interval", DefaultInterval))
             /\ resolved.retrievers =
                   ResolvePlugins("retriever", Pool(d, "retriever"),
                                  AsRefs(Key(table, "retriever", <<>>)), e)
             /\ resolved.providers =
                   ResolvePlugins("provider", Pool(d, "provider"),
                                  AsRefs(Key(table, "provider", <<>>)), e)
  BY DEF ResolveInstance

\* What an instance of the document is resolved to, and built from.
LEMMA Instance ==
  ASSUME Inv, HasInstances, NEW i \in DOMAIN instances
  PROVE  LET table == Instances(doc)[i]
             lists == config.instances[i]
         IN  /\ i \in DOMAIN Instances(doc)
             /\ InstanceProblems(doc, table, env) = {}
             /\ lists.interval = Key(table, "interval",
                                     Key(doc, "interval", DefaultInterval))
             /\ lists.retrievers =
                   ResolvePlugins("retriever", Pool(doc, "retriever"),
                                  AsRefs(Key(table, "retriever", <<>>)), env)
             /\ lists.providers =
                   ResolvePlugins("provider", Pool(doc, "provider"),
                                  AsRefs(Key(table, "provider", <<>>)), env)
             /\ instances[i].interval = lists.interval
             /\ instances[i].retrievers =
                   [r \in DOMAIN lists.retrievers |->
                       [plugin |-> Built(lists.retrievers[r]),
                        hint |-> FamilyHint(lists.retrievers[r])]]
             /\ instances[i].providers =
                   [p \in DOMAIN lists.providers |-> Built(lists.providers[p])]
<1> DEFINE table == Instances(doc)[i]
<1>1. /\ ParseProblems(doc, env) = {} /\ config = Parse(doc, env)
      /\ DOMAIN instances = DOMAIN config.instances
      /\ IsBuilt(i)
  BY DEF Inv, HasInstances
<1>2. i \in DOMAIN Instances(doc)
      /\ config.instances[i] = ResolveInstance(doc, table, env)
  <2>1. config.instances = [n \in DOMAIN Instances(doc) |->
                               ResolveInstance(doc, Instances(doc)[n], env)]
    BY <1>1 DEF Parse
  <2> QED
    BY <1>1, <2>1
<1>3. InstanceProblems(doc, table, env) = {}
  BY <1>1, <1>2, Accepted
<1>4. /\ config.instances[i].interval =
            Key(table, "interval", Key(doc, "interval", DefaultInterval))
      /\ config.instances[i].retrievers =
            ResolvePlugins("retriever", Pool(doc, "retriever"),
                           AsRefs(Key(table, "retriever", <<>>)), env)
      /\ config.instances[i].providers =
            ResolvePlugins("provider", Pool(doc, "provider"),
                           AsRefs(Key(table, "provider", <<>>)), env)
  BY <1>2, Resolved
<1>5. /\ instances[i].interval = config.instances[i].interval
      /\ instances[i].retrievers =
            [r \in DOMAIN config.instances[i].retrievers |->
                [plugin |-> Built(config.instances[i].retrievers[r]),
                 hint |-> FamilyHint(config.instances[i].retrievers[r])]]
      /\ instances[i].providers =
            [p \in DOMAIN config.instances[i].providers |->
                Built(config.instances[i].providers[p])]
  <2> DEFINE lists == config.instances[i]
  <2>1. /\ instances[i].interval = BuildInstance(lists).interval
        /\ instances[i].retrievers = BuildInstance(lists).retrievers
        /\ instances[i].providers = BuildInstance(lists).providers
    BY <1>1 DEF IsBuilt
  <2> QED
    BY <2>1 DEF BuildInstance
<1> QED
  BY <1>2, <1>3, <1>4, <1>5

\* runner.Validate, and with it runner.New, accepts whatever the configuration
\* accepted, for every document and environment.
THEOREM AcceptedIsRunnable == Spec => []LoadedIsRunnable
<1>1. Inv => LoadedIsRunnable
  <2> SUFFICES ASSUME Inv, stage = "validate"
               PROVE  Valid
    BY DEF LoadedIsRunnable
  <2> DEFINE tables == Instances(doc)
             default == Key(doc, "interval", DefaultInterval)
  <2>1. /\ doc \in Documents /\ ParseProblems(doc, env) = {}
        /\ config = Parse(doc, env)
        /\ DOMAIN instances = DOMAIN config.instances
        /\ \A i \in DOMAIN instances : IsBuilt(i)
    BY DEF Inv, HasConfig, HasInstances
  <2>2. DOMAIN instances = DOMAIN tables
    BY <2>1 DEF Parse
  <2>3. instances # <<>>
    <3>1. tables # <<>> /\ tables = [i \in 1..Len(tables) |-> tables[i]]
      BY <2>1, Accepted, DocumentAssumption DEF IsList
    <3>2. DOMAIN tables # {}
      BY <3>1, EmptyFunction
    <3> QED
      BY <2>2, <3>2
  <2>4. default \in Int /\ default > 0
    BY <2>1, Accepted, IntervalIsSet, IntervalAssumption, DocumentAssumption
  <2>5. ASSUME NEW i \in DOMAIN instances
        PROVE  /\ instances[i].interval > 0
               /\ instances[i].retrievers # <<>>
               /\ instances[i].providers # <<>>
    <3> DEFINE table == tables[i]
    <3>1. /\ InstanceProblems(doc, table, env) = {}
          /\ instances[i].interval = Key(table, "interval", default)
          /\ DOMAIN instances[i].retrievers =
                DOMAIN AsRefs(Key(table, "retriever", <<>>))
          /\ DOMAIN instances[i].providers =
                DOMAIN AsRefs(Key(table, "provider", <<>>))
      BY Instance DEF HasInstances, HasConfig, ResolvePlugins
    <3>2. Key(table, "interval", 0) \in Int
      BY <2>1, <2>2, DocumentAssumption
    <3>3. instances[i].interval > 0
      BY <2>4, <3>1, <3>2, AcceptedInstance, IntervalIsSet
    <3>4. /\ DOMAIN Key(table, "retriever", <<>>) # {}
          /\ DOMAIN Key(table, "provider", <<>>) # {}
      BY <3>1, AcceptedInstance, ListIsUsable
    <3> QED
      BY <3>1, <3>3, <3>4 DEF AsRefs
  <2> QED
    BY <2>3, <2>5 DEF Valid, Range
<1> QED
  BY InvHolds, <1>1, PTL

-----------------------------------------------------------------------------
(* What retrievers return                                                  *)

LEMMA LowestExists ==
  ASSUME NEW all, all \subseteq Addresses, all # {}
  PROVE  \E a \in all : \A b \in all : b = a \/ Less(a, b)
<1> DEFINE Places == {k \in 1..8 : Ordered[k] \in all}
<1>1. DOMAIN Ordered = 1..8
  BY DEF Ordered
<1>2. Places # {} /\ Places \subseteq Nat
  BY <1>1 DEF Addresses
<1>3. PICK k \in Places : \A m \in Places : ~(m < k)
  <2>1. IsWellFoundedOn(OpToRel(<, Nat), Nat)
    BY NatLessThanWellFounded
  <2>2. PICK x \in Places : \A y \in Places : ~(<<y, x>> \in OpToRel(<, Nat))
    BY <1>2, <2>1, WFMin
  <2> QED
    BY <1>2, <2>2 DEF OpToRel
<1>4. ASSUME NEW b \in all
      PROVE  b = Ordered[k] \/ Less(Ordered[k], b)
  <2>1. PICK m \in 1..8 : b = Ordered[m]
    BY <1>1 DEF Addresses
  <2>2. m \in Places
    BY <2>1
  <2>3. m = k \/ k < m
    BY <1>3, <2>2
  <2> QED
    BY <1>1, <2>1, <2>3 DEF Less
<1> QED
  BY <1>4

LEMMA RetrieverIsKnown ==
  ASSUME NEW plugin, BuildProblems("retriever", plugin, build) = {}
  PROVE  /\ plugin.type \in RetrieverTypes
         /\ DecodeProblems(Fields(plugin.type), plugin.params) = {}
<1>1. Registered("retriever", build) = RetrieverTypes
  BY DEF Registered
<1> QED
  BY <1>1 DEF BuildProblems

\* What a retriever is configured for is what the instance takes it to be,
\* wherever its parameters have "family".
LEMMA HintIsFamily ==
  ASSUME NEW plugin, DecodeProblems(Fields(plugin.type), plugin.params) = {},
         "family" \in DOMAIN plugin.params
  PROVE  /\ "family" \in DOMAIN Fields(plugin.type)
         /\ Lower(Built(plugin).config.family) = FamilyHint(plugin)
<1> DEFINE fields == Fields(plugin.type)
<1>1. Lower("family") = "family"
  BY DEF Lower, Key, Spellings
<1>2. "family" \in Given(plugin.params, "family")
  BY <1>1 DEF Given
<1>3. "family" \in DOMAIN fields
  BY <1>1, NoProblem DEF DecodeProblems
<1>4. (CHOOSE name \in Given(plugin.params, "family") : TRUE) = "family"
  BY <1>2, <1>3, GivenOnce
<1>5. Built(plugin).config["family"] = plugin.params["family"]
  BY <1>2, <1>3, <1>4 DEF Built, Decode
<1> QED
  BY <1>3, <1>5 DEF FamilyHint, Key

LEMMA WebAnswersFit ==
  ASSUME NEW parameters, NEW got \in WebAnswers(parameters), got.ok
  PROVE  /\ DOMAIN got.found = Families(parameters)
         /\ \A f \in DOMAIN got.found :
               got.found[f] \in Of(f) \cap GlobalUnicast
  BY DEF WebAnswers, Success, Failure, ParseAddr

LEMMA InterfaceAnswersFit ==
  ASSUME NEW parameters, NEW got \in InterfaceAnswers(parameters), got.ok
  PROVE  /\ DOMAIN got.found = Families(parameters)
         /\ \A f \in DOMAIN got.found :
               got.found[f] \in Of(f) \cap GlobalUnicast
<1>1. PICK interface \in SUBSET Addresses :
         got = IF \A f \in Families(parameters) :
                     Candidates(parameters, interface, f) # {}
               THEN Success([f \in Families(parameters) |->
                                SelectAddr(parameters, interface, f)])
               ELSE Failure
  BY DEF InterfaceAnswers
<1>2. /\ \A f \in Families(parameters) :
            Candidates(parameters, interface, f) # {}
      /\ got = Success([f \in Families(parameters) |->
                           SelectAddr(parameters, interface, f)])
  BY <1>1 DEF Failure
<1>3. ASSUME NEW f \in Families(parameters)
      PROVE  SelectAddr(parameters, interface, f) \in Of(f) \cap GlobalUnicast
  <2> DEFINE all == Candidates(parameters, interface, f)
  <2>1. all # {} /\ all \subseteq Addresses
    BY <1>2 DEF Candidates
  <2>2. SelectAddr(parameters, interface, f) \in all
    BY <2>1, LowestExists DEF SelectAddr
  <2> QED
    BY <2>2 DEF Candidates, IsPublic
<1> QED
  BY <1>2, <1>3 DEF Success

\* NamedRetriever: an answer is of the families that the instance takes the
\* retriever to be pinned to, for every service and interface.
THEOREM AnswersAreOfTheFamily == Spec => []AnswersFitTheHint
<1>1. Inv => AnswersFitTheHint
  <2> SUFFICES ASSUME Inv, Answered, answer.got.ok
               PROVE  LET retriever == instances[answer.i].retrievers[answer.r]
                          found == answer.got.found
                      IN  /\ \A f \in DOMAIN found :
                                found[f] \in Of(f) \cap GlobalUnicast
                          /\ retriever.hint \in {"ipv4", "ipv6"} =>
                                DOMAIN found = {retriever.hint}
                          /\ retriever.hint = "dual" =>
                                DOMAIN found = {"ipv4", "ipv6"}
    BY DEF AnswersFitTheHint, Inv
  <2> DEFINE retriever == instances[answer.i].retrievers[answer.r]
             named == config.instances[answer.i].retrievers[answer.r]
             got == answer.got
  <2>1. /\ retriever.plugin = Built(named)
        /\ retriever.hint = FamilyHint(named)
        /\ BuildProblems("retriever", named, build) = {}
    <3>1. /\ HasInstances /\ answer.i \in DOMAIN instances
          /\ answer.r \in DOMAIN instances[answer.i].retrievers
          /\ IsBuildable(answer.i)
      BY DEF Answered, Inv, HasInstances, HasConfig
    <3>2. instances[answer.i].retrievers =
             [r \in DOMAIN config.instances[answer.i].retrievers |->
                 [plugin |-> Built(config.instances[answer.i].retrievers[r]),
                  hint |->
                    FamilyHint(config.instances[answer.i].retrievers[r])]]
      BY <3>1, Instance
    <3>3. answer.r \in DOMAIN config.instances[answer.i].retrievers
      BY <3>1, <3>2
    <3>4. retriever = [plugin |-> Built(named), hint |-> FamilyHint(named)]
      BY <3>2, <3>3
    <3>5. BuildProblems("retriever", named, build) = {}
      BY <3>1, <3>3 DEF IsBuildable
    <3> QED
      BY <3>4, <3>5
  <2>2. /\ named.type \in RetrieverTypes
        /\ DecodeProblems(Fields(named.type), named.params) = {}
        /\ retriever.plugin.type = named.type
    BY <2>1, RetrieverIsKnown, BuiltFields
  <2>3. got \in GetAddresses(retriever.plugin)
    BY DEF Answered
  <2>4. CASE named.type = "2ip"
    <3>1. got \in TwoIPAnswers
      BY <2>2, <2>3, <2>4 DEF GetAddresses, WebRetrievers
    <3>2. DOMAIN got.found = {"ipv4"}
          /\ got.found["ipv4"] \in GlobalUnicast \cap Of("ipv4")
      BY <3>1 DEF TwoIPAnswers, Success, Failure, ParseAddr
    <3>3. "family" \notin DOMAIN Fields("2ip")
      BY DEF Fields, WebRetrievers
    <3>4. retriever.hint = Lower("")
      BY <2>1, <2>2, <2>4, <3>3, HintIsFamily DEF FamilyHint, Key
    <3>5. Lower("") = ""
      BY DEF Lower, Key, Spellings
    <3> QED
      BY <3>2, <3>4, <3>5
  <2>5. CASE named.type # "2ip"
    <3>1. \/ got \in WebAnswers(retriever.plugin.config)
          \/ got \in InterfaceAnswers(retriever.plugin.config)
      BY <2>2, <2>3, <2>5 DEF GetAddresses, WebRetrievers, RetrieverTypes
    <3>2. /\ DOMAIN got.found = Families(retriever.plugin.config)
          /\ \A f \in DOMAIN got.found :
                got.found[f] \in Of(f) \cap GlobalUnicast
      BY <3>1, WebAnswersFit, InterfaceAnswersFit
    <3>3. \/ retriever.hint = Lower(retriever.plugin.config.family)
          \/ retriever.hint = ""
      <4>1. Lower("") = ""
        BY DEF Lower, Key, Spellings
      <4> QED
        BY <2>1, <2>2, <4>1, HintIsFamily DEF FamilyHint, Key
    <3> QED
      BY <3>2, <3>3 DEF Families
  <2> QED
    BY <2>4, <2>5
<1> QED
  BY InvHolds, <1>1, PTL

-----------------------------------------------------------------------------
(* Parameters, in layers                                                   *)

Own(table) == DOMAIN table \ {"type", "ref", "short"}

\* Layered, with the table below in place of its name.
Over(below, entry, fields, key) ==
    IF Gives(entry, key) THEN Value(entry, key)
    ELSE IF Gives(below, key) THEN Value(below, key)
    ELSE fields[key]

\* The parameters that a table has, overlaid on those of another.
Overlays(params, entry, below, key) ==
    /\ Given(params, key) =
          {name \in Own(entry) \cup Own(below) : Lower(name) = key}
    /\ \A name \in Given(params, key) :
          params[name] = ExpandString(IF name \in Own(entry)
                                      THEN entry[name] ELSE below[name], env)

LEMMA LayersDecode ==
  ASSUME NEW fields, NEW params, DecodeProblems(fields, params) = {},
         NEW key \in DOMAIN fields, NEW entry, NEW below,
         Overlays(params, entry, below, key)
  PROVE  Decode(fields, params)[key] = Over(below, entry, fields, key)
<1>1. CASE Gives(entry, key)
  <2> DEFINE name == CHOOSE n \in Own(entry) : Lower(n) = key
  <2>1. name \in Own(entry) /\ Lower(name) = key
    BY <1>1 DEF Gives, Own
  <2>2. name \in Given(params, key)
    BY <2>1 DEF Overlays
  <2>3. (CHOOSE n \in Given(params, key) : TRUE) = name
    BY <2>2, GivenOnce
  <2>4. Decode(fields, params)[key] = ExpandString(entry[name], env)
    BY <2>1, <2>2, <2>3 DEF Decode, Overlays
  <2> QED
    BY <1>1, <2>4 DEF Over, Value, Own
<1>2. CASE ~Gives(entry, key) /\ Gives(below, key)
  <2> DEFINE name == CHOOSE n \in Own(below) : Lower(n) = key
  <2>1. name \in Own(below) /\ Lower(name) = key /\ name \notin Own(entry)
    BY <1>2 DEF Gives, Own
  <2>2. name \in Given(params, key)
    BY <2>1 DEF Overlays
  <2>3. (CHOOSE n \in Given(params, key) : TRUE) = name
    BY <2>2, GivenOnce
  <2>4. Decode(fields, params)[key] = ExpandString(below[name], env)
    BY <2>1, <2>2, <2>3 DEF Decode, Overlays
  <2> QED
    BY <1>2, <2>4 DEF Over, Value, Own
<1>3. CASE ~Gives(entry, key) /\ ~Gives(below, key)
  <2>1. Given(params, key) = {}
    BY <1>3 DEF Overlays, Gives, Own
  <2> QED
    BY <1>3, <2>1 DEF Over, Decode
<1> QED
  BY <1>1, <1>2, <1>3

Reserved == {"type", "ref", "short"}

LEMMA ReservedAreNoFields ==
  ASSUME NEW type \in RetrieverTypes \cup ProviderTypes
  PROVE  DOMAIN Fields(type) \cap Reserved = {}
  BY DEF RetrieverTypes, ProviderTypes, WebRetrievers, Fields, Reserved

LEMMA ReservedStand ==
  ASSUME NEW name \in Reserved
  PROVE  Lower(name) = name
  BY DEF Reserved, Lower, Key, Spellings

LEMMA OverlaidByRef ==
  ASSUME NEW kind \in {"retriever", "provider"}, NEW pool, NEW ref,
         NEW entry, NEW key, key \notin Reserved
  PROVE  Overlays(ResolvePluginByRef(kind, pool, ref, entry, env).params,
                  entry, pool[ref], key)
<1> DEFINE below == pool[ref]
           params == ExpandMap(Merge(kind, below, entry), env)
<1>1. Problem(kind = "notify", "events") = {}
  BY DEF Problem
<1>2. /\ DOMAIN params = (DOMAIN entry \cup DOMAIN below) \ {"type", "ref"}
      /\ \A name \in DOMAIN params :
            params[name] = ExpandString(IF name \in DOMAIN entry
                                        THEN entry[name] ELSE below[name], env)
  BY <1>1 DEF ExpandMap, Merge, Without, Overlay
<1>3. \A name : Lower(name) = key => name \notin Reserved
  BY ReservedStand
<1>4. Overlays(params, entry, below, key)
  BY <1>2, <1>3 DEF Overlays, Given, Own, Reserved
<1> QED
  BY <1>4 DEF ResolvePluginByRef

LEMMA OverlaidInline ==
  ASSUME NEW entry, NEW key, key \notin Reserved
  PROVE  Overlays(ResolvePluginInline(entry, env).params, entry, <<>>, key)
<1> DEFINE params == ExpandMap(Without(entry, {"type"}), env)
<1>1. /\ DOMAIN params = DOMAIN entry \ {"type"}
      /\ \A name \in DOMAIN params :
            params[name] = ExpandString(entry[name], env)
  BY DEF ExpandMap, Without
<1>2. \A name : Lower(name) = key => name \notin Reserved
  BY ReservedStand
<1>3. Own(<<>>) = {}
  BY DEF Own
<1>4. Overlays(params, entry, <<>>, key)
  BY <1>1, <1>2, <1>3 DEF Overlays, Given, Own, Reserved
<1> QED
  BY <1>4 DEF ResolvePluginInline

Resolve(kind, list, k) ==
    ResolvePlugin(kind, Pool(doc, kind), AsRefs(list)[k], env)

\* An entry of a list that can be resolved, and built.
Usable(kind, list, k) ==
    LET plugin == Resolve(kind, list, k)
    IN  /\ kind \in {"retriever", "provider"} /\ k \in DOMAIN list
        /\ CheckList(list) = {}
        /\ ListProblems(kind, Pool(doc, kind), AsRefs(list), env) = {}
        /\ "short" \in DOMAIN list[k] => DOMAIN list[k] = {"short"}
        /\ plugin.type \in RetrieverTypes \cup ProviderTypes
        /\ DecodeProblems(Fields(plugin.type), plugin.params) = {}

\* The definition an entry refers to, by a bare name or by "ref".
RefName(entry) == Key(entry, "short", Key(entry, "ref", ""))
Refers(entry) == RefName(entry) # ""

\* What is known of an entry that refers to a definition, and of one that is a
\* definition itself.
ByName(kind, list, k) ==
    LET entry == list[k]
        table == AsRefs(list)[k]
        pool  == Pool(doc, kind)
        name  == RefName(entry)
    IN  /\ table = IF "short" \in DOMAIN entry
                   THEN [ref |-> entry.short] ELSE entry
        /\ Key(table, "ref", "") # "" /\ "type" \notin DOMAIN table
        /\ name \in DOMAIN pool /\ doc[kind][name] = pool[name]
        /\ ExpandProblems(Merge(kind, pool[name], table), env) = {}
        /\ Resolve(kind, list, k) =
              ResolvePluginByRef(kind, pool, name, table, env)

Inline(kind, list, k) ==
    LET entry == list[k]
    IN  /\ Key(entry, "ref", "") = ""
        /\ AsRefs(list)[k] = entry /\ "short" \notin DOMAIN entry
        /\ PluginProblems(kind, Pool(doc, kind), entry, env) = {}
        /\ Resolve(kind, list, k) = ResolvePluginInline(entry, env)

\* The three ways to write an entry, and what it is resolved to.
LEMMA EntryForms ==
  ASSUME NEW kind, NEW list, NEW k, Usable(kind, list, k)
  PROVE  /\ RefName(list[k]) # "" => ByName(kind, list, k)
         /\ RefName(list[k]) = "" => Inline(kind, list, k)
<1> DEFINE entry == list[k]
           table == AsRefs(list)[k]
           pool  == Pool(doc, kind)
           name  == RefName(entry)
           plugin == Resolve(kind, list, k)
<1>1. /\ k \in DOMAIN list /\ CheckList(list) = {}
      /\ ListProblems(kind, pool, AsRefs(list), env) = {}
  BY DEF Usable
<1>2. PluginProblems(kind, pool, table, env) = {}
  BY <1>1, ListIsUsable
<1>3. table = IF "short" \in DOMAIN entry THEN [ref |-> entry.short] ELSE entry
  BY <1>1 DEF AsRefs
<1>4. "short" \in DOMAIN entry => entry.short # ""
  <2>1. ~(\E n \in DOMAIN list : Key(list[n], "short", "name") = "")
    BY <1>1, NoProblem DEF CheckList
  <2> QED
    BY <1>1, <2>1 DEF Key
<1>5. Key(table, "ref", "") = name
  <2>1. CASE "short" \in DOMAIN entry
    BY <1>3, <2>1 DEF Key, RefName
  <2>2. CASE "short" \notin DOMAIN entry
    <3>1. table = entry /\ name = Key(entry, "ref", "")
      BY <1>3, <2>2 DEF Key, RefName
    <3> QED
      BY <3>1
  <2> QED
    BY <2>1, <2>2
<1>6. ASSUME name # ""
      PROVE  /\ Key(table, "ref", "") # "" /\ "type" \notin DOMAIN table
             /\ name \in DOMAIN pool /\ doc[kind][name] = pool[name]
             /\ ExpandProblems(Merge(kind, pool[name], table), env) = {}
             /\ plugin = ResolvePluginByRef(kind, pool, name, table, env)
  <2>1. Key(table, "ref", "") # "" /\ table.ref = name
    <3>1. Key(table, "ref", "") # ""
      BY <1>5, <1>6
    <3>2. Key(table, "ref", "") = table.ref
      BY <3>1 DEF Key
    <3> QED
      BY <1>5, <3>1, <3>2
  <2>2. "type" \notin DOMAIN table
        /\ ByRefProblems(kind, pool, name, table, env) = {}
    BY <1>2, <2>1 DEF PluginProblems
  <2>3. name \in DOMAIN pool
        /\ ExpandProblems(Merge(kind, pool[name], table), env) = {}
    <3> HIDE DEF pool, name, table
    <3> QED
      BY <2>2 DEF ByRefProblems
  <2>4. doc[kind][name] = pool[name]
    <3>1. pool = IF kind \in DOMAIN doc THEN doc[kind] ELSE <<>>
      BY DEF Pool, Key
    <3>2. DOMAIN pool # {}
      BY <2>3
    <3> HIDE DEF pool, name
    <3>3. kind \in DOMAIN doc
      BY <3>1, <3>2
    <3> QED
      BY <3>1, <3>3
  <2>5. plugin = ResolvePluginByRef(kind, pool, name, table, env)
    BY <2>1 DEF ResolvePlugin, Resolve
  <2> QED
    BY <2>1, <2>2, <2>3, <2>4, <2>5
<1>7. ASSUME name = ""
      PROVE  Inline(kind, list, k)
  <2>1. "short" \notin DOMAIN entry /\ table = entry
    BY <1>3, <1>4, <1>7 DEF Key, RefName
  <2>2. plugin = ResolvePluginInline(entry, env)
    BY <1>5, <1>7, <2>1 DEF ResolvePlugin, Resolve
  <2>3. Key(entry, "ref", "") = ""
        /\ PluginProblems(kind, pool, entry, env) = {}
    BY <1>2, <1>5, <1>7, <2>1
  <2> QED
    BY <2>1, <2>2, <2>3 DEF Inline
<1>8. name # "" => ByName(kind, list, k)
  BY <1>3, <1>6 DEF ByName
<1> QED
  BY <1>7, <1>8

\* Whichever way it is written, the parameters of an entry are in layers.
LEMMA EntryIsLayered ==
  ASSUME NEW kind, NEW list, NEW k, Usable(kind, list, k)
  PROVE  LET plugin == Resolve(kind, list, k)
         IN  \A key \in DOMAIN Fields(plugin.type) :
                Decode(Fields(plugin.type), plugin.params)[key] =
                   Layered(kind, list[k], plugin.type, key)
<1> DEFINE plugin == Resolve(kind, list, k)
           entry == list[k]
           table == AsRefs(list)[k]
           pool  == Pool(doc, kind)
           name  == RefName(entry)
<1>1. /\ kind \in {"retriever", "provider"}
      /\ "short" \in DOMAIN entry => DOMAIN entry = {"short"}
      /\ plugin.type \in RetrieverTypes \cup ProviderTypes
      /\ DecodeProblems(Fields(plugin.type), plugin.params) = {}
  BY DEF Usable
<1> SUFFICES ASSUME NEW key \in DOMAIN Fields(plugin.type)
             PROVE  Decode(Fields(plugin.type), plugin.params)[key] =
                       Layered(kind, entry, plugin.type, key)
  OBVIOUS
<1>2. key \notin Reserved
  BY <1>1, ReservedAreNoFields
<1>3. CASE name # ""
  <2>1. /\ table = IF "short" \in DOMAIN entry
                   THEN [ref |-> entry.short] ELSE entry
        /\ plugin = ResolvePluginByRef(kind, pool, name, table, env)
        /\ doc[kind][name] = pool[name]
    <3>1. ByName(kind, list, k)
      BY <1>3, EntryForms
    <3> QED
      BY <3>1 DEF ByName
  <2>2. Overlays(plugin.params, table, pool[name], key)
    <3> HIDE DEF table, pool, name, plugin
    <3> QED
      BY <1>1, <1>2, <2>1, OverlaidByRef
  <2>3. Own(table) = Own(entry)
        /\ \A n \in Own(entry) : table[n] = entry[n]
    BY <1>1, <2>1 DEF Own
  <2> HIDE DEF table, entry, pool, name, plugin
  <2>4. Overlays(plugin.params, entry, pool[name], key)
    BY <2>2, <2>3 DEF Overlays
  <2>5. Decode(Fields(plugin.type), plugin.params)[key] =
           Over(pool[name], entry, Fields(plugin.type), key)
    BY <1>1, <2>4, LayersDecode
  <2>6. Layered(kind, entry, plugin.type, key) =
           Over(pool[name], entry, Fields(plugin.type), key)
    BY <1>3, <2>1 DEF Layered, Over, name, RefName
  <2> QED
    BY <2>5, <2>6
<1>4. CASE name = ""
  <2>1. plugin = ResolvePluginInline(entry, env)
    BY <1>4, EntryForms DEF Inline
  <2> HIDE DEF entry, name, plugin
  <2>2. Overlays(plugin.params, entry, <<>>, key)
    BY <1>2, <2>1, OverlaidInline
  <2>3. Decode(Fields(plugin.type), plugin.params)[key] =
           Over(<<>>, entry, Fields(plugin.type), key)
    BY <1>1, <2>2, LayersDecode
  <2>4. Layered(kind, entry, plugin.type, key) =
           Over(<<>>, entry, Fields(plugin.type), key)
    BY <1>4 DEF Layered, Over, name, RefName
  <2> QED
    BY <2>3, <2>4
<1> QED
  BY <1>3, <1>4

LEMMA ProviderIsKnown ==
  ASSUME NEW plugin, BuildProblems("provider", plugin, build) = {}
  PROVE  /\ plugin.type \in ProviderTypes
         /\ DecodeProblems(Fields(plugin.type), plugin.params) = {}
<1>1. Registered("provider", build) = ProviderTypes
  BY Zenon DEF Registered
<1> QED
  BY <1>1 DEF BuildProblems

\* The lists of an instance: where they are in the document, and that each of
\* their entries can be resolved and built.
LEMMA ListsOfInstance ==
  ASSUME Inv, stage = "validate", NEW i \in DOMAIN instances,
         NEW kind \in {"retriever", "provider"}
  PROVE  LET list == doc.instance[i][kind]
         IN  /\ Key(Instances(doc)[i], kind, <<>>) = list
             /\ CheckList(list) = {}
             /\ ListProblems(kind, Pool(doc, kind), AsRefs(list), env) = {}
             /\ \A k \in DOMAIN list :
                   /\ "short" \in DOMAIN list[k] => DOMAIN list[k] = {"short"}
                   /\ BuildProblems(kind,
                         ResolvePlugin(kind, Pool(doc, kind), AsRefs(list)[k],
                                       env), build) = {}
<1> DEFINE table == Instances(doc)[i]
           list  == Key(table, kind, <<>>)
<1>1. /\ HasInstances /\ i \in DOMAIN Instances(doc)
      /\ InstanceProblems(doc, table, env) = {}
      /\ IsBuildable(i) /\ doc \in Documents
  BY Instance DEF Inv, HasInstances, HasConfig
<1>2. /\ CheckList(list) = {}
      /\ ListProblems(kind, Pool(doc, kind), AsRefs(list), env) = {}
  BY <1>1, AcceptedInstance
<1>3. list = doc.instance[i][kind]
  <2>1. DOMAIN list # {}
    BY <1>2, ListIsUsable
  <2>2. list = table[kind]
    BY <2>1 DEF Key
  <2>3. table = doc.instance[i]
    BY <1>1 DEF Instances, Key
  <2> QED
    BY <2>2, <2>3
<1>4. ASSUME NEW k \in DOMAIN list
      PROVE  /\ "short" \in DOMAIN list[k] => DOMAIN list[k] = {"short"}
             /\ BuildProblems(kind,
                   ResolvePlugin(kind, Pool(doc, kind), AsRefs(list)[k], env),
                   build) = {}
  <2>1. list[k] \in Range(list)
    BY DEF Range
  <2>2. "short" \in DOMAIN list[k] => DOMAIN list[k] = {"short"}
    BY <1>1, <2>1, DocumentAssumption
  <2>3. DOMAIN ResolvePlugins(kind, Pool(doc, kind), AsRefs(list), env)
           = DOMAIN list
        /\ ResolvePlugins(kind, Pool(doc, kind), AsRefs(list), env)[k]
           = ResolvePlugin(kind, Pool(doc, kind), AsRefs(list)[k], env)
    BY DEF ResolvePlugins, AsRefs
  <2>4. CASE kind = "retriever"
    <3>1. config.instances[i].retrievers =
             ResolvePlugins(kind, Pool(doc, kind), AsRefs(list), env)
      BY <1>1, <2>4, Instance
    <3> QED
      BY <1>1, <2>2, <2>3, <2>4, <3>1 DEF IsBuildable
  <2>5. CASE kind = "provider"
    <3>1. config.instances[i].providers =
             ResolvePlugins(kind, Pool(doc, kind), AsRefs(list), env)
      BY <1>1, <2>5, Instance
    <3> QED
      BY <1>1, <2>2, <2>3, <2>5, <3>1 DEF IsBuildable
  <2> QED
    BY <2>4, <2>5
<1> QED
  BY <1>2, <1>3, <1>4

LEMMA ListIsBuilt ==
  ASSUME Inv, stage = "validate", NEW i \in DOMAIN instances,
         NEW kind \in {"retriever", "provider"}
  PROVE  LET list == doc.instance[i][kind]
         IN  DOMAIN list # {} /\ \A k \in DOMAIN list : Usable(kind, list, k)
<1> DEFINE list == doc.instance[i][kind]
<1>1. /\ CheckList(list) = {}
      /\ ListProblems(kind, Pool(doc, kind), AsRefs(list), env) = {}
      /\ \A k \in DOMAIN list :
            /\ "short" \in DOMAIN list[k] => DOMAIN list[k] = {"short"}
            /\ BuildProblems(kind, Resolve(kind, list, k), build) = {}
  BY ListsOfInstance DEF Resolve
<1>2. ASSUME NEW k \in DOMAIN list
      PROVE  Usable(kind, list, k)
  <2>1. BuildProblems(kind, Resolve(kind, list, k), build) = {}
    BY <1>1
  <2>2. /\ Resolve(kind, list, k).type \in RetrieverTypes \cup ProviderTypes
        /\ DecodeProblems(Fields(Resolve(kind, list, k).type),
                          Resolve(kind, list, k).params) = {}
    BY <2>1, RetrieverIsKnown, ProviderIsKnown
  <2> QED
    BY <1>1, <2>2 DEF Usable
<1>3. DOMAIN list # {}
  BY <1>1, ListIsUsable
<1> QED
  BY <1>2, <1>3

\* What an entry of an instance was built to, in the words of the document.
LEMMA BuiltFromEntry ==
  ASSUME Inv, stage = "validate", NEW i \in DOMAIN instances
  PROVE  /\ \A r \in DOMAIN instances[i].retrievers :
               /\ r \in DOMAIN doc.instance[i].retriever
               /\ instances[i].retrievers[r].plugin =
                     Built(ResolvePlugin("retriever", Pool(doc, "retriever"),
                              AsRefs(doc.instance[i].retriever)[r], env))
               /\ instances[i].retrievers[r].hint =
                     FamilyHint(ResolvePlugin("retriever",
                              Pool(doc, "retriever"),
                              AsRefs(doc.instance[i].retriever)[r], env))
         /\ \A p \in DOMAIN instances[i].providers :
               /\ p \in DOMAIN doc.instance[i].provider
               /\ instances[i].providers[p] =
                     Built(ResolvePlugin("provider", Pool(doc, "provider"),
                              AsRefs(doc.instance[i].provider)[p], env))
<1> DEFINE lists == config.instances[i]
           Plugin(kind, n) == ResolvePlugin(kind, Pool(doc, kind),
                                            AsRefs(doc.instance[i][kind])[n],
                                            env)
<1>1. /\ lists.retrievers =
            ResolvePlugins("retriever", Pool(doc, "retriever"),
                           AsRefs(doc.instance[i].retriever), env)
      /\ lists.providers =
            ResolvePlugins("provider", Pool(doc, "provider"),
                           AsRefs(doc.instance[i].provider), env)
      /\ instances[i].retrievers =
            [r \in DOMAIN lists.retrievers |->
                [plugin |-> Built(lists.retrievers[r]),
                 hint |-> FamilyHint(lists.retrievers[r])]]
      /\ instances[i].providers =
            [p \in DOMAIN lists.providers |-> Built(lists.providers[p])]
  <2>1. HasInstances
    BY DEF HasInstances, HasConfig
  <2> QED
    BY <2>1, Instance, ListsOfInstance
<1>2. /\ DOMAIN lists.retrievers = DOMAIN doc.instance[i].retriever
      /\ \A r \in DOMAIN lists.retrievers :
            lists.retrievers[r] = Plugin("retriever", r)
      /\ DOMAIN lists.providers = DOMAIN doc.instance[i].provider
      /\ \A p \in DOMAIN lists.providers :
            lists.providers[p] = Plugin("provider", p)
  BY <1>1 DEF ResolvePlugins, AsRefs
<1>3. ASSUME NEW r \in DOMAIN instances[i].retrievers
      PROVE  /\ r \in DOMAIN doc.instance[i].retriever
             /\ instances[i].retrievers[r].plugin =
                   Built(Plugin("retriever", r))
             /\ instances[i].retrievers[r].hint =
                   FamilyHint(Plugin("retriever", r))
  <2>1. r \in DOMAIN lists.retrievers
        /\ instances[i].retrievers[r] = [plugin |-> Built(lists.retrievers[r]),
                                    hint |-> FamilyHint(lists.retrievers[r])]
    BY <1>1
  <2> QED
    BY <1>2, <2>1
<1>4. ASSUME NEW p \in DOMAIN instances[i].providers
      PROVE  /\ p \in DOMAIN doc.instance[i].provider
             /\ instances[i].providers[p] = Built(Plugin("provider", p))
  <2>1. p \in DOMAIN lists.providers
        /\ instances[i].providers[p] = Built(lists.providers[p])
    BY <1>1
  <2> QED
    BY <1>2, <2>1
<1> QED
  BY <1>3, <1>4

\* resolvePluginByRef, decode: a parameter of a plugin that was built is that
\* of its own entry, else of its definition, else the default, for every
\* document, environment and spelling.
THEOREM ParametersAreLayered == Spec => []LayersAreKept
<1>1. Inv => LayersAreKept
  <2> SUFFICES ASSUME Inv, stage = "validate", NEW i \in DOMAIN instances
               PROVE  /\ \A r \in DOMAIN instances[i].retrievers :
                         LET plugin == instances[i].retrievers[r].plugin
                         IN  \A key \in DOMAIN plugin.config :
                                plugin.config[key] =
                                   Layered("retriever",
                                           doc.instance[i].retriever[r],
                                           plugin.type, key)
                      /\ \A p \in DOMAIN instances[i].providers :
                         LET plugin == instances[i].providers[p]
                         IN  \A key \in DOMAIN plugin.config :
                                plugin.config[key] =
                                   Layered("provider",
                                           doc.instance[i].provider[p],
                                           plugin.type, key)
    BY DEF LayersAreKept
  <2>1. ASSUME NEW kind \in {"retriever", "provider"},
               NEW k \in DOMAIN doc.instance[i][kind]
        PROVE  LET plugin == Built(ResolvePlugin(kind, Pool(doc, kind),
                                      AsRefs(doc.instance[i][kind])[k], env))
               IN  \A key \in DOMAIN plugin.config :
                      plugin.config[key] =
                         Layered(kind, doc.instance[i][kind][k], plugin.type,
                                 key)
    <3> DEFINE list   == doc.instance[i][kind]
               plugin == Resolve(kind, list, k)
    <3>1. Usable(kind, list, k)
      BY ListIsBuilt
    <3>2. \A key \in DOMAIN Fields(plugin.type) :
             Decode(Fields(plugin.type), plugin.params)[key] =
                Layered(kind, list[k], plugin.type, key)
      BY <3>1, EntryIsLayered
    <3>3. DOMAIN Built(plugin).config = DOMAIN Fields(plugin.type)
      BY DEF Built, Decode
    <3>4. \A key \in DOMAIN Built(plugin).config :
             Built(plugin).config[key] =
                Layered(kind, list[k], Built(plugin).type, key)
      <4> HIDE DEF list, plugin
      <4> QED
        BY <3>2, <3>3, BuiltFields
    <3> QED
      BY <3>4 DEF Resolve
  <2>2. ASSUME NEW r \in DOMAIN instances[i].retrievers
        PROVE  LET plugin == instances[i].retrievers[r].plugin
               IN  \A key \in DOMAIN plugin.config :
                      plugin.config[key] =
                         Layered("retriever", doc.instance[i].retriever[r],
                                 plugin.type, key)
    BY <2>1, BuiltFromEntry
  <2>3. ASSUME NEW p \in DOMAIN instances[i].providers
        PROVE  LET plugin == instances[i].providers[p]
               IN  \A key \in DOMAIN plugin.config :
                      plugin.config[key] =
                         Layered("provider", doc.instance[i].provider[p],
                                 plugin.type, key)
    BY <2>1, BuiltFromEntry
  <2> QED
    BY <2>2, <2>3
<1> QED
  BY InvHolds, <1>1, PTL

-----------------------------------------------------------------------------
(* Definitions that are written out in place                               *)

\* Written out, an entry is what it was, but for the name it referred to.
SameEntry(kind, list, k) ==
    LET out   == WriteOut(kind, list[k])
        other == ResolvePlugin(kind, Pool(doc, kind), out, env)
    IN  /\ "short" \notin DOMAIN out
        /\ PluginProblems(kind, Pool(doc, kind), out, env) = {}
        /\ other.ref = ""
        /\ other.type = Resolve(kind, list, k).type
        /\ other.params = Resolve(kind, list, k).params

LEMMA InlineParts ==
  ASSUME NEW table, NEW e
  PROVE  LET plugin == ResolvePluginInline(table, e)
         IN  /\ plugin.ref = "" /\ plugin.type = table.type
             /\ plugin.params = ExpandMap(Without(table, {"type"}), e)
  BY DEF ResolvePluginInline

LEMMA ByRefParts ==
  ASSUME NEW kind, NEW pool, NEW ref, NEW table, NEW e
  PROVE  LET plugin == ResolvePluginByRef(kind, pool, ref, table, e)
         IN  /\ plugin.type = pool[ref].type
             /\ plugin.params = ExpandMap(Merge(kind, pool[ref], table), e)
  BY DEF ResolvePluginByRef

LEMMA InlineSame ==
  ASSUME NEW kind, NEW list, NEW k, Usable(kind, list, k), ~Refers(list[k])
  PROVE  SameEntry(kind, list, k)
<1>1. Inline(kind, list, k)
  BY EntryForms DEF Refers
<1>2. WriteOut(kind, list[k]) = list[k]
  BY DEF WriteOut, Refers, RefName
<1>3. ResolvePlugin(kind, Pool(doc, kind), list[k], env) =
         ResolvePluginInline(list[k], env)
  BY <1>1 DEF Inline, ResolvePlugin
<1>4. ResolvePluginInline(list[k], env).ref = ""
  BY DEF ResolvePluginInline
<1> QED
  BY <1>1, <1>2, <1>3, <1>4 DEF Inline, SameEntry

LEMMA ByNameSame ==
  ASSUME NEW kind, NEW list, NEW k, Usable(kind, list, k),
         CheckPool(Pool(doc, kind)) = {}, Refers(list[k])
  PROVE  SameEntry(kind, list, k)
<1> DEFINE entry  == list[k]
           table  == AsRefs(list)[k]
           pool   == Pool(doc, kind)
           name   == RefName(entry)
           below  == pool[name]
           plugin == Resolve(kind, list, k)
           own    == Without(entry, {"short", "ref"})
           out    == WriteOut(kind, entry)
<1>1. /\ table = IF "short" \in DOMAIN entry
                 THEN [ref |-> entry.short] ELSE entry
      /\ Key(table, "ref", "") # "" /\ "type" \notin DOMAIN table
      /\ name \in DOMAIN pool /\ doc[kind][name] = below
      /\ ExpandProblems(Merge(kind, below, table), env) = {}
      /\ plugin = ResolvePluginByRef(kind, pool, name, table, env)
  <2>1. ByName(kind, list, k)
    BY EntryForms DEF Refers
  <2> QED
    BY <2>1 DEF ByName
<1>2. /\ kind \in {"retriever", "provider"}
      /\ "short" \in DOMAIN entry => DOMAIN entry = {"short"}
      /\ plugin.type \in RetrieverTypes \cup ProviderTypes
      /\ DecodeProblems(Fields(plugin.type), plugin.params) = {}
  BY DEF Usable
<1>3. out = Overlay(own, below)
  BY <1>1 DEF WriteOut, Refers, RefName
<1>4. /\ "type" \in DOMAIN below /\ below.type # ""
      /\ "ref" \notin DOMAIN below
  <2>1. /\ ~\E n \in DOMAIN pool : Key(pool[n], "type", "") = ""
        /\ ~\E n \in DOMAIN pool : "ref" \in DOMAIN pool[n]
    BY NoProblem DEF CheckPool
  <2> HIDE DEF pool, name
  <2>2. Key(below, "type", "") # "" /\ "ref" \notin DOMAIN below
    BY <1>1, <2>1
  <2> QED
    BY <2>2 DEF Key
<1>5. /\ plugin.type = below.type
      /\ plugin.params = ExpandMap(Merge(kind, below, table), env)
  <2>1. plugin = ResolvePluginByRef(kind, pool, name, table, env)
        /\ below = pool[name]
    BY <1>1
  <2> HIDE DEF plugin, table, pool, name, below
  <2> QED
    BY <2>1, ByRefParts
<1>6. Problem(kind = "notify", "events") = {}
  BY <1>2 DEF Problem
<1>7. "short" \notin DOMAIN below
  <2>1. "short" \in DOMAIN below => "short" \in DOMAIN plugin.params
    BY <1>5, <1>6 DEF ExpandMap, Merge, Without, Overlay
  <2>2. ~\E n \in DOMAIN plugin.params :
            Lower(n) \notin DOMAIN Fields(plugin.type)
    BY <1>2, NoProblem DEF DecodeProblems
  <2>3. Lower("short") = "short" /\ "short" \notin DOMAIN Fields(plugin.type)
    BY <1>2, ReservedStand, ReservedAreNoFields DEF Reserved
  <2> QED
    BY <2>1, <2>2, <2>3
<1>8. /\ DOMAIN own = DOMAIN table \ {"ref"}
      /\ "type" \notin DOMAIN own /\ "short" \notin DOMAIN own
      /\ \A n \in DOMAIN own : own[n] = table[n]
  BY <1>1, <1>2 DEF Without
<1>9. Without(out, {"type"}) = Merge(kind, below, table)
  <2> HIDE DEF own, table, below, out
  <2>1. Overlay(own, below) =
           [n \in DOMAIN own \cup DOMAIN below |->
               IF n \in DOMAIN own THEN own[n] ELSE below[n]]
    BY DEF Overlay
  <2>2. (DOMAIN own \cup DOMAIN below) \ {"type"} =
           (DOMAIN table \cup DOMAIN below) \ {"type", "ref"}
    BY <1>4, <1>8
  <2>3. Without(out, {"type"}) =
           [n \in (DOMAIN table \cup DOMAIN below) \ {"type", "ref"} |->
               IF n \in DOMAIN table THEN table[n] ELSE below[n]]
    BY <1>3, <1>8, <2>1, <2>2 DEF Without
  <2>4. Merge(kind, below, table) =
           [n \in (DOMAIN table \cup DOMAIN below) \ {"type", "ref"} |->
               IF n \in DOMAIN table THEN table[n] ELSE below[n]]
    BY <1>6 DEF Merge, Without, Overlay
  <2> QED
    BY <2>3, <2>4
<1> HIDE DEF entry, table, pool, name, below, plugin, own, out
<1>10. /\ "short" \notin DOMAIN out /\ "ref" \notin DOMAIN out
       /\ "type" \in DOMAIN out /\ out.type = below.type
  BY <1>3, <1>4, <1>7, <1>8 DEF Overlay
<1>11. PluginProblems(kind, pool, out, env) = {}
  BY <1>1, <1>4, <1>9, <1>10 DEF PluginProblems, InlineProblems, Key
<1>12. ResolvePlugin(kind, pool, out, env) = ResolvePluginInline(out, env)
  BY <1>10 DEF ResolvePlugin, Key
<1>13. /\ "short" \notin DOMAIN out
       /\ PluginProblems(kind, pool, out, env) = {}
       /\ ResolvePlugin(kind, pool, out, env).ref = ""
       /\ ResolvePlugin(kind, pool, out, env).type = plugin.type
       /\ ResolvePlugin(kind, pool, out, env).params = plugin.params
  BY <1>5, <1>9, <1>10, <1>11, <1>12, InlineParts
<1> QED
  BY <1>13 DEF SameEntry, entry, pool, plugin, out

LEMMA EntrySame ==
  ASSUME NEW kind, NEW list, NEW k, Usable(kind, list, k),
         CheckPool(Pool(doc, kind)) = {}
  PROVE  SameEntry(kind, list, k)
  BY InlineSame, ByNameSame

\* The list of entries written out.
OutOf(kind, list) == [k \in DOMAIN list |-> WriteOut(kind, list[k])]

LEMMA PoolsAreChecked ==
  ASSUME NEW d, ShapeProblems(d) = {},
         NEW kind \in {"retriever", "provider", "notify"}
  PROVE  CheckPool(Pool(d, kind)) = {}
<1> DEFINE pools == {CheckPool(Pool(d, k)) :
                        k \in {"retriever", "provider", "notify"}}
<1>1. UNION pools = {}
  BY DEF ShapeProblems
<1>2. CheckPool(Pool(d, kind)) \in pools
  OBVIOUS
<1> HIDE DEF pools
<1> QED
  BY <1>1, <1>2

IsInPlace(plugin) == plugin.ref = ""

\* A list that is written out has no problems of its own.
LEMMA ListSame ==
  ASSUME NEW kind, NEW list, DOMAIN list # {},
         CheckPool(Pool(doc, kind)) = {},
         \A k \in DOMAIN list : Usable(kind, list, k)
  PROVE  LET out == OutOf(kind, list)
         IN  /\ AsRefs(out) = out /\ CheckList(out) = {}
             /\ ListProblems(kind, Pool(doc, kind), AsRefs(out), env) = {}
             /\ \A k \in DOMAIN list :
                   LET other == ResolvePlugins(kind, Pool(doc, kind),
                                               AsRefs(out), env)[k]
                   IN  /\ IsInPlace(other)
                       /\ other.type = Resolve(kind, list, k).type
                       /\ other.params = Resolve(kind, list, k).params
<1> DEFINE out  == OutOf(kind, list)
           pool == Pool(doc, kind)
<1>1. DOMAIN out = DOMAIN list
      /\ \A k \in DOMAIN list : out[k] = WriteOut(kind, list[k])
  BY DEF OutOf
<1>2. ASSUME NEW k \in DOMAIN list
      PROVE  /\ "short" \notin DOMAIN out[k]
             /\ PluginProblems(kind, pool, out[k], env) = {}
             /\ IsInPlace(ResolvePlugin(kind, pool, out[k], env))
             /\ ResolvePlugin(kind, pool, out[k], env).type =
                   Resolve(kind, list, k).type
             /\ ResolvePlugin(kind, pool, out[k], env).params =
                   Resolve(kind, list, k).params
  <2>1. SameEntry(kind, list, k)
    BY EntrySame
  <2> QED
    BY <1>1, <2>1 DEF SameEntry, IsInPlace
<1>3. AsRefs(out) = out
  <2>1. out = [k \in DOMAIN list |-> out[k]]
    BY DEF OutOf
  <2> HIDE DEF out
  <2> QED
    BY <1>1, <1>2, <2>1 DEF AsRefs
<1>4. CheckList(out) = {}
  <2>1. \A k \in DOMAIN out : Key(out[k], "short", "name") = "name"
    BY <1>1, <1>2 DEF Key
  <2>2. ~\E k \in DOMAIN out : Key(out[k], "short", "name") = ""
    BY <2>1
  <2> QED
    BY <2>2 DEF CheckList, Problem
<1>5. ListProblems(kind, pool, AsRefs(out), env) = {}
  <2>1. out # <<>>
    BY <1>1
  <2> HIDE DEF out, pool
  <2>2. \A table \in Range(out) : PluginProblems(kind, pool, table, env) = {}
    BY <1>1, <1>2 DEF Range
  <2>3. UNION {PluginProblems(kind, pool, table, env) :
                  table \in Range(out)} = {}
    BY <2>2
  <2> QED
    BY <1>3, <2>1, <2>3 DEF ListProblems, Problem
<1>6. \A k \in DOMAIN list : ResolvePlugins(kind, pool, AsRefs(out), env)[k] =
                                ResolvePlugin(kind, pool, out[k], env)
  <2> HIDE DEF out, pool
  <2> QED
    BY <1>1, <1>3 DEF ResolvePlugins
<1> QED
  BY <1>2, <1>3, <1>4, <1>5, <1>6

\* A table with other lists, and nothing else of it changed.
Rewritten(table, new) ==
    /\ DOMAIN new = DOMAIN table
    /\ \A key \in DOMAIN table \ {"retriever", "provider"} :
          new[key] = table[key]

LEMMA RewrittenKeys ==
  ASSUME NEW table, NEW new, Rewritten(table, new),
         NEW key, key \notin {"retriever", "provider"}, NEW default
  PROVE  Key(new, key, default) = Key(table, key, default)
  BY DEF Rewritten, Key

Nameless(table) == Problem(Key(table, "name", "") = "", "name")
PingReference(table, e) ==
    Problem(Key(table, "ping_url", "") \in References \ DOMAIN e, "reference")
UnknownKeys(table) ==
    Problem(DOMAIN table \ {"name", "interval", "ping_url", "retriever",
                            "provider", "notify"} # {}, "unknown key")
NotifyTables(table) ==
    UNION {CheckNotifyTable(entry) :
              entry \in Range(AsRefs(Key(table, "notify", <<>>)))}

LEMMA InstanceIff ==
  ASSUME NEW d, NEW table, NEW e
  PROVE  InstanceProblems(d, table, e) = {} <=>
            /\ UnknownKeys(table) = {} /\ ParseInterval(table) = {}
            /\ CheckList(Key(table, "retriever", <<>>)) = {}
            /\ CheckList(Key(table, "provider", <<>>)) = {}
            /\ CheckList(Key(table, "notify", <<>>)) = {}
            /\ NotifyTables(table) = {}
            /\ Nameless(table) = {} /\ PingReference(table, e) = {}
            /\ ListProblems("retriever", Pool(d, "retriever"),
                            AsRefs(Key(table, "retriever", <<>>)), e) = {}
            /\ ListProblems("provider", Pool(d, "provider"),
                            AsRefs(Key(table, "provider", <<>>)), e) = {}
<1>1. InstanceProblems(d, table, e) =
         CheckInstance(table) \cup Nameless(table) \cup PingReference(table, e)
         \cup ListProblems("retriever", Pool(d, "retriever"),
                           AsRefs(Key(table, "retriever", <<>>)), e)
         \cup ListProblems("provider", Pool(d, "provider"),
                           AsRefs(Key(table, "provider", <<>>)), e)
  BY Zenon DEF InstanceProblems, Nameless, PingReference
<1>2. CheckInstance(table) =
         UnknownKeys(table) \cup ParseInterval(table)
         \cup CheckList(Key(table, "retriever", <<>>))
         \cup CheckList(Key(table, "provider", <<>>))
         \cup CheckList(Key(table, "notify", <<>>)) \cup NotifyTables(table)
  BY Zenon DEF CheckInstance, UnknownKeys, NotifyTables
<1> QED
  BY <1>1, <1>2

\* The lists apart, a rewritten instance is as it was.
LEMMA RewrittenInstance ==
  ASSUME NEW d, NEW other, NEW e, NEW table, NEW new, Rewritten(table, new),
         InstanceProblems(d, table, e) = {},
         CheckList(Key(new, "retriever", <<>>)) = {},
         CheckList(Key(new, "provider", <<>>)) = {},
         ListProblems("retriever", Pool(other, "retriever"),
                      AsRefs(Key(new, "retriever", <<>>)), e) = {},
         ListProblems("provider", Pool(other, "provider"),
                      AsRefs(Key(new, "provider", <<>>)), e) = {}
  PROVE  InstanceProblems(other, new, e) = {}
<1>1. /\ UnknownKeys(table) = {} /\ ParseInterval(table) = {}
      /\ CheckList(Key(table, "notify", <<>>)) = {}
      /\ NotifyTables(table) = {}
      /\ Nameless(table) = {} /\ PingReference(table, e) = {}
  BY InstanceIff
<1>2. UnknownKeys(new) = UnknownKeys(table)
  BY DEF UnknownKeys, Rewritten
<1>3. ParseInterval(new) = ParseInterval(table)
  BY RewrittenKeys DEF ParseInterval
<1>4. Key(new, "notify", <<>>) = Key(table, "notify", <<>>)
  BY RewrittenKeys
<1>5. \A key : key \notin {"retriever", "provider"} =>
         \A default : Key(new, key, default) = Key(table, key, default)
  BY RewrittenKeys
<1>6. "name" \notin {"retriever", "provider"}
      /\ "ping_url" \notin {"retriever", "provider"}
  OBVIOUS
<1>7. Nameless(new) = Nameless(table)
  BY <1>5, <1>6, Zenon DEF Nameless
<1>8. PingReference(new, e) = PingReference(table, e)
  BY <1>5, <1>6, Zenon DEF PingReference
<1>9. NotifyTables(new) = NotifyTables(table)
  BY <1>4 DEF NotifyTables
<1> QED
  BY <1>1, <1>2, <1>3, <1>4, <1>7, <1>8, <1>9, InstanceIff

LEMMA RewrittenNotify ==
  ASSUME NEW table, NEW new, Rewritten(table, new), "name" \in DOMAIN table,
         NEW pool
  PROVE  /\ new.name = table.name
         /\ Key(new, "notify", <<>>) = Key(table, "notify", <<>>)
         /\ ResolveNotify(pool, new) = ResolveNotify(pool, table)
<1>1. new.name = table.name
  BY DEF Rewritten
<1>2. "notify" \in DOMAIN table =>
         "notify" \in DOMAIN new /\ new.notify = table.notify
  BY DEF Rewritten
<1>3. "notify" \in DOMAIN new => "notify" \in DOMAIN table
  BY DEF Rewritten
<1> QED
  BY <1>1, <1>2, <1>3, Zenon DEF ResolveNotify, Key

\* What InPlace is: the same document, but for the lists of its instances.
LEMMA InPlaceTables ==
  ASSUME Inv, stage = "validate"
  PROVE  /\ \A part \in DOMAIN doc \ {"instance"} : InPlace[part] = doc[part]
         /\ DOMAIN InPlace = DOMAIN doc /\ "instance" \in DOMAIN doc
         /\ DOMAIN Instances(InPlace) = DOMAIN Instances(doc)
         /\ DOMAIN Instances(doc) # {}
         /\ DOMAIN Instances(doc) = DOMAIN instances
         /\ \A i \in DOMAIN Instances(doc) :
               LET new == Instances(InPlace)[i]
               IN  /\ Rewritten(Instances(doc)[i], new)
                   /\ Key(new, "retriever", <<>>) =
                         OutOf("retriever", doc.instance[i].retriever)
                   /\ Key(new, "provider", <<>>) =
                         OutOf("provider", doc.instance[i].provider)
<1>1. /\ Instances(doc) # <<>> /\ doc \in Documents
      /\ DOMAIN instances = DOMAIN Instances(doc)
  <2>1. /\ ParseProblems(doc, env) = {} /\ config = Parse(doc, env)
        /\ DOMAIN instances = DOMAIN config.instances /\ doc \in Documents
    BY DEF Inv, HasConfig, HasInstances
  <2> QED
    BY <2>1, Accepted DEF Parse
<1>2. "instance" \in DOMAIN doc /\ Instances(doc) = doc.instance
  BY <1>1 DEF Instances, Key
<1>3. DOMAIN Instances(doc) # {}
  <2>1. Instances(doc) = [i \in 1..Len(Instances(doc)) |-> Instances(doc)[i]]
    BY <1>1, DocumentAssumption DEF IsList
  <2> QED
    BY <1>1, <2>1, EmptyFunction
<1>4. /\ DOMAIN InPlace = DOMAIN doc
      /\ \A part \in DOMAIN doc \ {"instance"} : InPlace[part] = doc[part]
      /\ InPlace.instance = [i \in DOMAIN doc.instance |->
            [doc.instance[i] EXCEPT
                !.retriever = OutOf("retriever", @),
                !.provider = OutOf("provider", @)]]
  BY <1>2 DEF InPlace, OutOf
<1>5. Instances(InPlace) = InPlace.instance
  BY <1>2, <1>4 DEF Instances, Key
<1>6. ASSUME NEW i \in DOMAIN Instances(doc)
      PROVE  /\ Rewritten(Instances(doc)[i], Instances(InPlace)[i])
             /\ Key(Instances(InPlace)[i], "retriever", <<>>) =
                   OutOf("retriever", doc.instance[i].retriever)
             /\ Key(Instances(InPlace)[i], "provider", <<>>) =
                   OutOf("provider", doc.instance[i].provider)
  <2> DEFINE table == doc.instance[i]
  <2>1. "retriever" \in DOMAIN table /\ "provider" \in DOMAIN table
    <3>1. \A kind \in {"retriever", "provider"} :
             /\ Key(table, kind, <<>>) = table[kind]
             /\ DOMAIN table[kind] # {}
      BY <1>1, <1>2, <1>6, ListsOfInstance, ListIsBuilt
    <3>2. \A kind \in {"retriever", "provider"} : kind \in DOMAIN table
      BY <3>1 DEF Key
    <3> QED
      BY <3>2
  <2>2. Instances(InPlace)[i] =
           [table EXCEPT !.retriever = OutOf("retriever", table.retriever),
                         !.provider = OutOf("provider", table.provider)]
    BY <1>2, <1>4, <1>5, <1>6
  <2> QED
    BY <1>2, <2>1, <2>2 DEF Rewritten, Key
<1> QED
  BY <1>1, <1>2, <1>3, <1>4, <1>5, <1>6

NameOf(table) == Key(table, "name", "")

LEMMA NamesTwice ==
  ASSUME NEW tables, NEW others, DOMAIN others = DOMAIN tables,
         \A i \in DOMAIN tables : NameOf(others[i]) = NameOf(tables[i])
  PROVE  NameTwice(others) = NameTwice(tables)
<1>1. /\ NameTwice(others) =
            Problem(\E j, k \in DOMAIN others :
                       j < k /\ NameOf(others[j]) = NameOf(others[k]),
                    "name used twice")
      /\ NameTwice(tables) =
            Problem(\E j, k \in DOMAIN tables :
                       j < k /\ NameOf(tables[j]) = NameOf(tables[k]),
                    "name used twice")
  BY Zenon DEF NameTwice, NameOf
<1>2. (\E j, k \in DOMAIN others :
         j < k /\ NameOf(others[j]) = NameOf(others[k]))
      <=> (\E j, k \in DOMAIN tables :
             j < k /\ NameOf(tables[j]) = NameOf(tables[k]))
  OBVIOUS
<1> QED
  BY <1>1, <1>2 DEF Problem

\* The document with its definitions written out is accepted.
LEMMA InPlaceAccepted ==
  ASSUME Inv, stage = "validate"
  PROVE  ParseProblems(InPlace, env) = {}
<1>1. IsAccepted(doc, env)
  BY AcceptedIff DEF Inv, HasConfig
<1>2. \A part : part # "instance" =>
         \A default : Key(InPlace, part, default) = Key(doc, part, default)
  BY InPlaceTables DEF Key
<1>3. \A kind \in {"retriever", "provider", "notify"} :
         Pool(InPlace, kind) = Pool(doc, kind)
  BY <1>2 DEF Pool
<1>4. ShapeProblems(InPlace) = ShapeProblems(doc)
  BY <1>3, InPlaceTables DEF ShapeProblems
<1>5. ParseInterval(InPlace) = ParseInterval(doc)
  BY <1>2 DEF ParseInterval
<1>6. Instances(InPlace) # <<>>
  BY InPlaceTables
<1>7. /\ DOMAIN Instances(InPlace) = DOMAIN Instances(doc)
      /\ \A i \in DOMAIN Instances(doc) :
            Rewritten(Instances(doc)[i], Instances(InPlace)[i])
  BY InPlaceTables
<1>8. NameTwice(Instances(InPlace)) = NameTwice(Instances(doc))
  <2>1. \A i \in DOMAIN Instances(doc) :
           NameOf(Instances(InPlace)[i]) = NameOf(Instances(doc)[i])
    <3>1. \A i \in DOMAIN Instances(doc) : \A default :
             Key(Instances(InPlace)[i], "name", default) =
                Key(Instances(doc)[i], "name", default)
      BY <1>7, RewrittenKeys
    <3> QED
      BY <3>1, Zenon DEF NameOf
  <2> QED
    BY <1>7, <2>1, NamesTwice
<1>9. ASSUME NEW i \in DOMAIN Instances(doc)
      PROVE  /\ InstanceProblems(InPlace, Instances(InPlace)[i], env) = {}
             /\ EntryProblems(InPlace, Instances(InPlace)[i], env) = {}
             /\ \A pool : ResolveNotify(pool, Instances(InPlace)[i]) =
                             ResolveNotify(pool, Instances(doc)[i])
  <2> DEFINE table == Instances(doc)[i]
             new   == Instances(InPlace)[i]
  <2>1. /\ InstanceProblems(doc, table, env) = {}
        /\ EntryProblems(doc, table, env) = {}
    <3>1. table \in Range(Instances(doc))
      BY DEF Range
    <3> QED
      BY <1>1, <3>1 DEF IsAccepted
  <2>2. ASSUME NEW kind \in {"retriever", "provider"}
        PROVE  LET out == Key(new, kind, <<>>)
               IN  /\ CheckList(out) = {}
                   /\ ListProblems(kind, Pool(InPlace, kind), AsRefs(out), env)
                         = {}
                   /\ \A k \in DOMAIN AsRefs(out) :
                         IsInPlace(ResolvePlugins(kind, Pool(InPlace, kind),
                                                  AsRefs(out), env)[k])
    <3> DEFINE list == doc.instance[i][kind]
    <3>1. Key(new, kind, <<>>) = OutOf(kind, list)
      BY InPlaceTables
    <3>2. DOMAIN list # {} /\ \A k \in DOMAIN list : Usable(kind, list, k)
      BY InPlaceTables, ListIsBuilt
    <3>3. CheckPool(Pool(doc, kind)) = {}
      BY <1>1, PoolsAreChecked DEF IsAccepted
    <3>4. DOMAIN AsRefs(OutOf(kind, list)) = DOMAIN list
      BY DEF AsRefs, OutOf
    <3>5. Pool(InPlace, kind) = Pool(doc, kind)
      BY <1>3
    <3> HIDE DEF list, new
    <3> QED
      BY <3>1, <3>2, <3>3, <3>4, <3>5, ListSame
  <2>3. Rewritten(table, new)
    BY <1>7
  <2>4. InstanceProblems(InPlace, new, env) = {}
    <3> HIDE DEF table, new
    <3> QED
      BY <2>1, <2>2, <2>3, RewrittenInstance
  <2>5. "name" \in DOMAIN table
    <3>1. Nameless(table) = {}
      BY <2>1, InstanceIff
    <3> QED
      BY <3>1, NoProblem DEF Nameless, Key
  <2>6. /\ new.name = table.name
        /\ Key(new, "notify", <<>>) = Key(table, "notify", <<>>)
        /\ \A pool : ResolveNotify(pool, new) = ResolveNotify(pool, table)
    BY <2>3, <2>5, RewrittenNotify
  <2>7. EntryProblems(InPlace, new, env) = {}
    <3> DEFINE providers == ResolvePlugins(
                               "provider", Pool(InPlace, "provider"),
                               AsRefs(Key(new, "provider", <<>>)), env)
    <3>1. \A k \in DOMAIN providers : IsInPlace(providers[k])
      BY <2>2 DEF ResolvePlugins
    <3>2. DuplicateProviders(providers) = {}
      <4> HIDE DEF providers
      <4> QED
        BY <3>1, Zenon DEF DuplicateProviders, Problem, IsInPlace
    <3>3. NotifyProblems(Pool(InPlace, "notify"), new.name,
                         AsRefs(Key(new, "notify", <<>>)), env) = {}
      BY <1>3, <2>1, <2>6 DEF EntryProblems
    <3> QED
      BY <3>2, <3>3 DEF EntryProblems
  <2> QED
    BY <2>4, <2>6, <2>7
<1>10. UsedDefinitions(InPlace) = UsedDefinitions(doc)
  <2> DEFINE Uses(table) ==
                {ref.name : ref \in Range(ResolveNotify(Pool(doc, "notify"),
                                                        table))}
             A == Instances(InPlace)
             B == Instances(doc)
  <2>1. ASSUME NEW i \in DOMAIN B
        PROVE  Uses(A[i]) = Uses(B[i])
    <3>1. ResolveNotify(Pool(doc, "notify"), A[i]) =
             ResolveNotify(Pool(doc, "notify"), B[i])
      BY <1>9
    <3> QED
      BY <3>1
  <2>2. UsedDefinitions(InPlace) =
           DOMAIN Pool(doc, "notify") \cap UNION {Uses(t) : t \in Range(A)}
    BY <1>3 DEF UsedDefinitions
  <2>3. UsedDefinitions(doc) =
           DOMAIN Pool(doc, "notify") \cap UNION {Uses(t) : t \in Range(B)}
    BY DEF UsedDefinitions
  <2>4. DOMAIN A = DOMAIN B
    BY <1>7
  <2> HIDE DEF Uses, A, B
  <2>5. {Uses(t) : t \in Range(A)} = {Uses(t) : t \in Range(B)}
    <3>1. Range(A) = {A[i] : i \in DOMAIN B}
      BY <2>4 DEF Range
    <3>2. Range(B) = {B[i] : i \in DOMAIN B}
      BY DEF Range
    <3>3. {Uses(t) : t \in Range(A)} = {Uses(A[i]) : i \in DOMAIN B}
      BY <3>1
    <3>4. {Uses(t) : t \in Range(B)} = {Uses(B[i]) : i \in DOMAIN B}
      BY <3>2
    <3> QED
      BY <2>1, <3>3, <3>4
  <2> QED
    BY <2>2, <2>3, <2>5
<1>11. ASSUME NEW table \in Range(Instances(InPlace))
       PROVE  InstanceProblems(InPlace, table, env) = {}
              /\ EntryProblems(InPlace, table, env) = {}
  <2>1. PICK i \in DOMAIN Instances(InPlace) : table = Instances(InPlace)[i]
    BY DEF Range
  <2> QED
    BY <1>7, <1>9, <2>1
<1>12. IsAccepted(InPlace, env)
  BY <1>1, <1>3, <1>4, <1>5, <1>6, <1>8, <1>10, <1>11 DEF IsAccepted
<1> QED
  BY <1>12, AcceptedIff

LEMMA SameBuilt ==
  ASSUME NEW plugin, NEW other, other.type = plugin.type,
         other.params = plugin.params
  PROVE  Built(other) = Built(plugin) /\ FamilyHint(other) = FamilyHint(plugin)
  BY DEF Built, FamilyHint

\* The lists of an instance that is written out are resolved to the same
\* plugins, but for the name.
LEMMA WrittenLists ==
  ASSUME Inv, stage = "validate", NEW i \in DOMAIN Instances(doc),
         NEW kind \in {"retriever", "provider"}
  PROVE  LET list  == doc.instance[i][kind]
             other == ResolvePlugins(kind, Pool(InPlace, kind),
                         AsRefs(Key(Instances(InPlace)[i], kind, <<>>)), env)
         IN  /\ DOMAIN other = DOMAIN list
             /\ \A k \in DOMAIN list :
                   /\ other[k].type = Resolve(kind, list, k).type
                   /\ other[k].params = Resolve(kind, list, k).params
<1> DEFINE list == doc.instance[i][kind]
<1>1. Key(Instances(InPlace)[i], kind, <<>>) = OutOf(kind, list)
  BY InPlaceTables
<1>2. DOMAIN list # {} /\ \A k \in DOMAIN list : Usable(kind, list, k)
  BY InPlaceTables, ListIsBuilt
<1>3. CheckPool(Pool(doc, kind)) = {}
  <2>1. ShapeProblems(doc) = {}
    BY AcceptedIff DEF Inv, HasConfig, IsAccepted
  <2> QED
    BY <2>1, PoolsAreChecked
<1>4. Pool(InPlace, kind) = Pool(doc, kind)
  BY InPlaceTables DEF Pool, Key
<1>5. DOMAIN ResolvePlugins(kind, Pool(doc, kind),
                            AsRefs(OutOf(kind, list)), env) = DOMAIN list
  BY DEF ResolvePlugins, AsRefs, OutOf
<1> HIDE DEF list
<1> QED
  BY <1>1, <1>2, <1>3, <1>4, <1>5, ListSame DEF list

LEMMA InstanceFields ==
  ASSUME NEW instance
  PROVE  /\ BuildInstance(instance).retrievers =
               [r \in DOMAIN instance.retrievers |->
                   [plugin |-> Built(instance.retrievers[r]),
                    hint |-> FamilyHint(instance.retrievers[r])]]
         /\ BuildInstance(instance).providers =
               [p \in DOMAIN instance.providers |->
                   Built(instance.providers[p])]
  BY Zenon DEF BuildInstance

\* What was built, by the entries of the document.
LEMMA BuiltLists ==
  ASSUME Inv, stage = "validate", NEW i \in DOMAIN instances
  PROVE  /\ instances[i].retrievers =
               [r \in DOMAIN doc.instance[i].retriever |->
                  [plugin |-> Built(Resolve("retriever",
                                       doc.instance[i].retriever, r)),
                   hint |-> FamilyHint(Resolve("retriever",
                                          doc.instance[i].retriever, r))]]
         /\ instances[i].providers =
               [p \in DOMAIN doc.instance[i].provider |->
                  Built(Resolve("provider", doc.instance[i].provider, p))]
<1> DEFINE lists == config.instances[i]
<1>1. /\ lists.retrievers =
            ResolvePlugins("retriever", Pool(doc, "retriever"),
                           AsRefs(doc.instance[i].retriever), env)
      /\ lists.providers =
            ResolvePlugins("provider", Pool(doc, "provider"),
                           AsRefs(doc.instance[i].provider), env)
      /\ instances[i].retrievers =
            [r \in DOMAIN lists.retrievers |->
                [plugin |-> Built(lists.retrievers[r]),
                 hint |-> FamilyHint(lists.retrievers[r])]]
      /\ instances[i].providers =
            [p \in DOMAIN lists.providers |-> Built(lists.providers[p])]
  <2>1. HasInstances
    BY DEF HasInstances, HasConfig
  <2> QED
    BY <2>1, Instance, ListsOfInstance
<1>2. /\ DOMAIN lists.retrievers = DOMAIN doc.instance[i].retriever
      /\ \A r \in DOMAIN lists.retrievers :
            lists.retrievers[r] = Resolve("retriever",
                                          doc.instance[i].retriever, r)
      /\ DOMAIN lists.providers = DOMAIN doc.instance[i].provider
      /\ \A p \in DOMAIN lists.providers :
            lists.providers[p] = Resolve("provider",
                                         doc.instance[i].provider, p)
  BY <1>1 DEF ResolvePlugins, AsRefs, Resolve
<1> HIDE DEF lists
<1> QED
  BY <1>1, <1>2

\* docs/configuration/index.md, "all of them produce the same result": what an
\* instance refers to and what it says in place make the same plugins, for
\* every document that is accepted.
THEOREM FormsAreOne == Spec => []FormsAgree
<1>1. ASSUME Inv, stage = "validate" PROVE FormsAgree
  <2> DEFINE written == Parse(InPlace, env).instances
  <2>1. ASSUME NEW i \in DOMAIN instances
        PROVE  /\ instances[i].retrievers = BuildInstance(written[i]).retrievers
               /\ instances[i].providers = BuildInstance(written[i]).providers
    <3> DEFINE Other(kind) == ResolvePlugins(kind, Pool(InPlace, kind),
                         AsRefs(Key(Instances(InPlace)[i], kind, <<>>)), env)
               Old(kind, k) == Resolve(kind, doc.instance[i][kind], k)
    <3>1. i \in DOMAIN Instances(doc) /\ i \in DOMAIN Instances(InPlace)
      BY <1>1, <2>1, InPlaceTables
    <3>2. written[i] = ResolveInstance(InPlace, Instances(InPlace)[i], env)
      BY <3>1 DEF Parse
    <3>3. /\ written[i].retrievers = Other("retriever")
          /\ written[i].providers = Other("provider")
      <4> HIDE DEF written
      <4> QED
        BY <3>2, Resolved
    <3>4. ASSUME NEW kind \in {"retriever", "provider"}
          PROVE  /\ DOMAIN Other(kind) = DOMAIN doc.instance[i][kind]
                 /\ \A k \in DOMAIN doc.instance[i][kind] :
                       /\ Built(Other(kind)[k]) = Built(Old(kind, k))
                       /\ FamilyHint(Other(kind)[k]) =
                             FamilyHint(Old(kind, k))
      BY <1>1, <3>1, WrittenLists, SameBuilt
    <3>5. /\ instances[i].retrievers =
               [r \in DOMAIN doc.instance[i].retriever |->
                   [plugin |-> Built(Old("retriever", r)),
                    hint |-> FamilyHint(Old("retriever", r))]]
          /\ instances[i].providers =
               [p \in DOMAIN doc.instance[i].provider |->
                   Built(Old("provider", p))]
      BY <1>1, <2>1, BuiltLists
    <3>6. /\ BuildInstance(written[i]).retrievers =
               [r \in DOMAIN Other("retriever") |->
                   [plugin |-> Built(Other("retriever")[r]),
                    hint |-> FamilyHint(Other("retriever")[r])]]
          /\ BuildInstance(written[i]).providers =
               [p \in DOMAIN Other("provider") |->
                   Built(Other("provider")[p])]
      <4> HIDE DEF written, Other
      <4> QED
        BY <3>3, InstanceFields
    <3> HIDE DEF written, Other, Old
    <3> QED
      BY <3>4, <3>5, <3>6
  <2> QED
    BY <1>1, <2>1, InPlaceAccepted DEF FormsAgree
<1>2. Inv => FormsAgree
  BY <1>1 DEF FormsAgree
<1> QED
  BY <1>2, InvHolds, PTL

-----------------------------------------------------------------------------
(* Definitions that nothing refers to                                      *)

\* A pool without some of its definitions, none of which is in "used".
Trims(pool, kept, used) ==
    /\ DOMAIN kept \subseteq DOMAIN pool
    /\ \A name \in DOMAIN kept : kept[name] = pool[name]
    /\ DOMAIN pool \cap used \subseteq DOMAIN kept

LEMMA LeanPools ==
  /\ DOMAIN Lean = DOMAIN doc /\ Instances(Lean) = Instances(doc)
  /\ ParseInterval(Lean) = ParseInterval(doc)
  /\ \A kind \in {"retriever", "provider", "notify"} :
        Trims(Pool(doc, kind), Pool(Lean, kind), Names(kind) \cup Generated)
  /\ PublishesToAll => Pool(Lean, "notify") = Pool(doc, "notify")
<1> DEFINE trimmed == {"retriever", "provider"}
                         \cup Problem(~PublishesToAll, "notify")
           Trimmed(part) == [name \in DOMAIN doc[part]
                                         \cap (Names(part) \cup Generated) |->
                                doc[part][name]]
<1>1. Lean = [part \in DOMAIN doc |-> IF part \in trimmed THEN Trimmed(part)
                                                          ELSE doc[part]]
  BY Zenon DEF Lean
<1>2. trimmed \subseteq {"retriever", "provider", "notify"}
      /\ (PublishesToAll => "notify" \notin trimmed)
  BY DEF Problem
<1> HIDE DEF trimmed
<1>3. /\ DOMAIN Lean = DOMAIN doc
      /\ \A part \in DOMAIN doc \ trimmed : Lean[part] = doc[part]
      /\ \A part \in DOMAIN doc \cap trimmed : Lean[part] = Trimmed(part)
  BY <1>1
<1>4. \A part : part \notin trimmed =>
         \A default : Key(Lean, part, default) = Key(doc, part, default)
  BY <1>3 DEF Key
<1>5. /\ Instances(Lean) = Instances(doc)
      /\ ParseInterval(Lean) = ParseInterval(doc)
  BY <1>2, <1>4 DEF Instances, ParseInterval
<1>6. ASSUME NEW kind \in {"retriever", "provider", "notify"}
      PROVE  Trims(Pool(doc, kind), Pool(Lean, kind),
                   Names(kind) \cup Generated)
  <2>1. CASE kind \in trimmed /\ kind \in DOMAIN doc
    <3>1. Pool(doc, kind) = doc[kind] /\ Pool(Lean, kind) = Trimmed(kind)
      BY <1>3, <2>1 DEF Pool, Key
    <3> QED
      BY <3>1 DEF Trims
  <2>2. CASE kind \notin trimmed \/ kind \notin DOMAIN doc
    <3>1. Pool(Lean, kind) = Pool(doc, kind)
      BY <1>3, <1>4, <2>2 DEF Pool, Key
    <3> QED
      BY <3>1 DEF Trims
  <2> QED
    BY <2>1, <2>2
<1> QED
  BY <1>2, <1>3, <1>4, <1>5, <1>6 DEF Pool

\* An entry whose "ref" names a definition.
Named(table) == Key(table, "ref", "") # ""

LEMMA NamedHasRef ==
  ASSUME NEW table, Named(table)
  PROVE  "ref" \in DOMAIN table
  BY Zenon DEF Named, Key

LEMMA NamedForm ==
  ASSUME NEW kind, NEW pool, NEW table, NEW e, Named(table)
  PROVE  /\ PluginProblems(kind, pool, table, e) =
               IF "type" \in DOMAIN table THEN {"ref and type"}
               ELSE ByRefProblems(kind, pool, table.ref, table, e)
         /\ ResolvePlugin(kind, pool, table, e) =
               ResolvePluginByRef(kind, pool, table.ref, table, e)
  BY Zenon DEF PluginProblems, ResolvePlugin, Named

LEMMA UnnamedForm ==
  ASSUME NEW kind, NEW pool, NEW other, NEW table, NEW e, ~Named(table)
  PROVE  /\ PluginProblems(kind, pool, table, e) =
               PluginProblems(kind, other, table, e)
         /\ ResolvePlugin(kind, pool, table, e) =
               ResolvePlugin(kind, other, table, e)
  BY Zenon DEF PluginProblems, ResolvePlugin, Named

\* What refers only to definitions that are kept has the same problems and is
\* resolved to the same.
LEMMA PluginKept ==
  ASSUME NEW kind, NEW pool, NEW kept, NEW used, Trims(pool, kept, used),
         NEW table, NEW e, Named(table) => table.ref \in used
  PROVE  /\ PluginProblems(kind, kept, table, e) =
               PluginProblems(kind, pool, table, e)
         /\ PluginProblems(kind, pool, table, e) = {} =>
               ResolvePlugin(kind, kept, table, e) =
                  ResolvePlugin(kind, pool, table, e)
<1>1. CASE ~Named(table)
  BY <1>1, UnnamedForm
<1>2. CASE Named(table)
  <2> DEFINE ref == table.ref
  <2>1. CASE ref \in DOMAIN pool
    <3>1. ref \in DOMAIN kept /\ kept[ref] = pool[ref]
      BY <1>2, <2>1 DEF Trims
    <3>2. /\ ByRefProblems(kind, kept, ref, table, e) =
                ByRefProblems(kind, pool, ref, table, e)
          /\ ResolvePluginByRef(kind, kept, ref, table, e) =
                ResolvePluginByRef(kind, pool, ref, table, e)
      BY <2>1, <3>1 DEF ByRefProblems, ResolvePluginByRef
    <3>3. PluginProblems(kind, kept, table, e) =
             PluginProblems(kind, pool, table, e)
      BY <1>2, <3>2, NamedForm
    <3>4. ResolvePlugin(kind, kept, table, e) =
             ResolvePlugin(kind, pool, table, e)
      BY <1>2, <3>2, NamedForm
    <3> QED
      BY <3>3, <3>4
  <2>2. CASE ref \notin DOMAIN pool
    <3>1. ref \notin DOMAIN kept
      BY <2>2 DEF Trims
    <3>2. /\ ByRefProblems(kind, kept, ref, table, e) = {"not defined"}
          /\ ByRefProblems(kind, pool, ref, table, e) = {"not defined"}
      BY <2>2, <3>1 DEF ByRefProblems
    <3> QED
      BY <1>2, <3>2, NamedForm
  <2> QED
    BY <2>1, <2>2
<1> QED
  BY <1>1, <1>2

LEMMA ListKept ==
  ASSUME NEW kind, NEW pool, NEW kept, NEW used, Trims(pool, kept, used),
         NEW list, NEW e,
         \A k \in DOMAIN list :
            Named(AsRefs(list)[k]) => AsRefs(list)[k].ref \in used
  PROVE  /\ ListProblems(kind, kept, AsRefs(list), e) =
               ListProblems(kind, pool, AsRefs(list), e)
         /\ ListProblems(kind, pool, AsRefs(list), e) = {} =>
               ResolvePlugins(kind, kept, AsRefs(list), e) =
                  ResolvePlugins(kind, pool, AsRefs(list), e)
<1> DEFINE refs == AsRefs(list)
<1>1. DOMAIN refs = DOMAIN list
  BY DEF AsRefs
<1> HIDE DEF refs
<1>2. \A k \in DOMAIN refs :
         /\ PluginProblems(kind, kept, refs[k], e) =
               PluginProblems(kind, pool, refs[k], e)
         /\ PluginProblems(kind, pool, refs[k], e) = {} =>
               ResolvePlugin(kind, kept, refs[k], e) =
                  ResolvePlugin(kind, pool, refs[k], e)
  BY <1>1, PluginKept DEF refs
<1>3. {PluginProblems(kind, kept, table, e) : table \in Range(refs)} =
      {PluginProblems(kind, pool, table, e) : table \in Range(refs)}
  <2>1. \A table \in Range(refs) : PluginProblems(kind, kept, table, e) =
                                      PluginProblems(kind, pool, table, e)
    BY <1>2 DEF Range
  <2> QED
    BY <2>1
<1>4. ListProblems(kind, kept, refs, e) = ListProblems(kind, pool, refs, e)
  BY <1>3 DEF ListProblems
<1>5. ASSUME ListProblems(kind, pool, refs, e) = {}
      PROVE  ResolvePlugins(kind, kept, refs, e) =
                ResolvePlugins(kind, pool, refs, e)
  <2>1. \A k \in DOMAIN list : PluginProblems(kind, pool, refs[k], e) = {}
    BY <1>5, ListIsUsable DEF refs
  <2> QED
    BY <1>1, <1>2, <2>1 DEF ResolvePlugins
<1> QED
  BY <1>4, <1>5 DEF refs

\* What an entry refers to is kept.
LEMMA EntryIsNamed ==
  ASSUME NEW kind, NEW table \in Range(Instances(doc)),
         NEW k \in DOMAIN Key(table, kind, <<>>)
  PROVE  RefName(Key(table, kind, <<>>)[k]) \in Names(kind)
<1> DEFINE Of1(t) == {RefName(entry) : entry \in Range(Key(t, kind, <<>>))}
<1>1. Names(kind) = UNION {Of1(t) : t \in Range(Instances(doc))}
  BY Zenon DEF Names, RefName
<1>2. RefName(Key(table, kind, <<>>)[k]) \in Of1(table)
  BY DEF Range
<1> HIDE DEF Of1
<1> QED
  BY <1>1, <1>2

LEMMA RefIsName ==
  ASSUME NEW list, NEW k \in DOMAIN list, "ref" \in DOMAIN AsRefs(list)[k]
  PROVE  AsRefs(list)[k].ref = RefName(list[k])
<1>1. AsRefs(list)[k] = IF "short" \in DOMAIN list[k]
                        THEN [ref |-> list[k].short] ELSE list[k]
  BY DEF AsRefs
<1>2. CASE "short" \in DOMAIN list[k]
  <2>1. RefName(list[k]) = list[k].short
    BY <1>2, Zenon DEF RefName, Key
  <2> QED
    BY <1>1, <1>2, <2>1
<1>3. CASE "short" \notin DOMAIN list[k]
  <2>1. AsRefs(list)[k] = list[k]
    BY <1>1, <1>3
  <2>2. "ref" \in DOMAIN list[k]
    BY <2>1
  <2>3. RefName(list[k]) = list[k].ref
    BY <1>3, <2>2, Zenon DEF RefName, Key
  <2> QED
    BY <2>1, <2>3
<1> QED
  BY <1>2, <1>3

LEMMA InstanceKept ==
  ASSUME NEW table \in Range(Instances(doc))
  PROVE  /\ InstanceProblems(Lean, table, env) =
               InstanceProblems(doc, table, env)
         /\ InstanceProblems(doc, table, env) = {} =>
               \A kind \in {"retriever", "provider"} :
                  ResolvePlugins(kind, Pool(Lean, kind),
                                 AsRefs(Key(table, kind, <<>>)), env) =
                  ResolvePlugins(kind, Pool(doc, kind),
                                 AsRefs(Key(table, kind, <<>>)), env)
<1> DEFINE Lists(kind, d) == ListProblems(kind, Pool(d, kind),
                                AsRefs(Key(table, kind, <<>>)), env)
<1>1. ASSUME NEW kind \in {"retriever", "provider"}
      PROVE  /\ Lists(kind, Lean) = Lists(kind, doc)
             /\ Lists(kind, doc) = {} =>
                   ResolvePlugins(kind, Pool(Lean, kind),
                                  AsRefs(Key(table, kind, <<>>)), env) =
                   ResolvePlugins(kind, Pool(doc, kind),
                                  AsRefs(Key(table, kind, <<>>)), env)
  <2> DEFINE list == Key(table, kind, <<>>)
             used == Names(kind) \cup Generated
  <2>1. Trims(Pool(doc, kind), Pool(Lean, kind), used)
    BY LeanPools
  <2>2. ASSUME NEW k \in DOMAIN list, Named(AsRefs(list)[k])
        PROVE  AsRefs(list)[k].ref \in used
    <3>1. AsRefs(list)[k].ref = RefName(list[k])
      BY <2>2, NamedHasRef, RefIsName
    <3>2. RefName(list[k]) \in Names(kind)
      BY EntryIsNamed
    <3> QED
      BY <3>1, <3>2
  <2>3. \A k \in DOMAIN list :
           Named(AsRefs(list)[k]) => AsRefs(list)[k].ref \in used
    BY <2>2
  <2> HIDE DEF list, used
  <2>4. /\ ListProblems(kind, Pool(Lean, kind), AsRefs(list), env) =
              ListProblems(kind, Pool(doc, kind), AsRefs(list), env)
        /\ ListProblems(kind, Pool(doc, kind), AsRefs(list), env) = {} =>
              ResolvePlugins(kind, Pool(Lean, kind), AsRefs(list), env) =
                 ResolvePlugins(kind, Pool(doc, kind), AsRefs(list), env)
    BY <2>1, <2>3, ListKept
  <2> QED
    BY <2>4 DEF list
<1>2. InstanceProblems(Lean, table, env) = InstanceProblems(doc, table, env)
  <2> DEFINE rest == CheckInstance(table) \cup Nameless(table)
                     \cup PingReference(table, env)
  <2>1. /\ InstanceProblems(doc, table, env) =
              rest \cup Lists("retriever", doc) \cup Lists("provider", doc)
        /\ InstanceProblems(Lean, table, env) =
              rest \cup Lists("retriever", Lean) \cup Lists("provider", Lean)
    BY Zenon DEF InstanceProblems, Nameless, PingReference
  <2> HIDE DEF rest, Lists
  <2> QED
    BY <1>1, <2>1
<1>3. InstanceProblems(doc, table, env) = {} =>
         \A kind \in {"retriever", "provider"} : Lists(kind, doc) = {}
  BY AcceptedInstance
<1> HIDE DEF Lists
<1> QED
  BY <1>1, <1>2, <1>3

\* The entry k of a list of notifiers: its name is that of a definition, or is
\* generated.
LEMMA NotifyEntry ==
  ASSUME NEW table \in Range(Instances(doc)),
         InstanceProblems(doc, table, env) = {},
         NEW k \in DOMAIN Key(table, "notify", <<>>)
  PROVE  LET entry == AsRefs(Key(table, "notify", <<>>))[k]
         IN  /\ ~IsInline(entry) => entry.ref \in Names("notify")
             /\ IsInline(entry) =>
                   GeneratedName(table.name, entry.type, k) \in Generated
<1> DEFINE list  == Key(table, "notify", <<>>)
           entry == AsRefs(list)[k]
<1>1. NotifyTables(table) = {} /\ Nameless(table) = {}
  BY InstanceIff
<1>2. DOMAIN AsRefs(list) = DOMAIN list
      /\ entry = IF "short" \in DOMAIN list[k] THEN [ref |-> list[k].short]
                                               ELSE list[k]
  BY DEF AsRefs
<1>3. CheckNotifyTable(entry) = {}
  <2>1. entry \in Range(AsRefs(list))
    BY <1>2 DEF Range
  <2> HIDE DEF entry, list
  <2> QED
    BY <1>1, <2>1 DEF NotifyTables, list
<1>4. ASSUME ~IsInline(entry)
      PROVE  entry.ref \in Names("notify")
  <2>1. "ref" \in DOMAIN entry
    <3>1. SUFFICES ASSUME "ref" \notin DOMAIN entry PROVE FALSE
      OBVIOUS
    <3> HIDE DEF entry
    <3>2. Problem(Key(entry, "type", "") = "", "type") = {}
      BY <1>3, <3>1 DEF CheckNotifyTable
    <3>3. Key(entry, "type", "") = ""
      BY <1>4, Zenon DEF IsInline, Key
    <3> QED
      BY <3>2, <3>3, NoProblem
  <2>2. entry.ref = RefName(list[k])
    BY <2>1, RefIsName
  <2> QED
    BY <2>2, EntryIsNamed
<1>5. ASSUME IsInline(entry)
      PROVE  GeneratedName(table.name, entry.type, k) \in Generated
  <2>1. PICK i \in DOMAIN Instances(doc) : Instances(doc)[i] = table
    BY DEF Range
  <2>2. entry = list[k]
    BY <1>2, <1>5 DEF IsInline
  <2>3. "notify" \in DOMAIN table /\ list = table.notify
    BY DEF Key
  <2>4. "name" \in DOMAIN table
    BY <1>1, NoProblem, Zenon DEF Nameless, Key
  <2> DEFINE Places(n) == {<<n, m>> : m \in
                 {m \in DOMAIN Key(Instances(doc)[n], "notify", <<>>) :
                     IsInline(Instances(doc)[n].notify[m])}}
  <2>5. <<i, k>> \in InlineAt(doc)
    <3>1. InlineAt(doc) = UNION {Places(n) : n \in DOMAIN Instances(doc)}
      BY DEF InlineAt
    <3>2. <<i, k>> \in Places(i)
      BY <1>5, <2>1, <2>2, <2>3
    <3> HIDE DEF Places
    <3> QED
      BY <2>1, <3>1, <3>2
  <2>6. InlineName(doc, <<i, k>>) = GeneratedName(table.name, entry.type, k)
    <3>1. /\ <<i, k>>[1] = i /\ <<i, k>>[2] = k
          /\ Key(table, "name", "") = table.name
          /\ table.notify[k] = entry
      BY <2>2, <2>3, <2>4 DEF Key
    <3> HIDE DEF entry, list
    <3> QED
      BY <2>1, <3>1, Zenon DEF InlineName
  <2> QED
    BY <2>5, <2>6 DEF Generated
<1> QED
  BY <1>4, <1>5

LEMMA NotifyKept ==
  ASSUME NEW pool, NEW kept, NEW used, Trims(pool, kept, used),
         NEW name, NEW entries, NEW e,
         \A k \in DOMAIN entries :
            /\ ~IsInline(entries[k]) => entries[k].ref \in used
            /\ IsInline(entries[k]) =>
                  GeneratedName(name, entries[k].type, k) \in used
  PROVE  NotifyProblems(kept, name, entries, e) =
            NotifyProblems(pool, name, entries, e)
<1> DEFINE Missing(p) == Problem(\E k \in DOMAIN entries :
                ~IsInline(entries[k]) /\ entries[k].ref \notin DOMAIN p,
                                 "not defined")
           Taken(p, k) == Problem(GeneratedName(name, entries[k].type, k)
                                     \in DOMAIN p, "name is taken")
           Inside(k) == InlineProblems(Without(entries[k], {"events"}), e)
           Each(p) == {IF IsInline(entries[k]) THEN Inside(k) \cup Taken(p, k)
                       ELSE {} : k \in DOMAIN entries}
           twice == Problem(\E j, k \in DOMAIN entries :
                       /\ j < k /\ ~IsInline(entries[j])
                       /\ ~IsInline(entries[k])
                       /\ entries[j].ref = entries[k].ref,
                    "listed twice")
<1>1. \A p : NotifyProblems(p, name, entries, e) =
                Missing(p) \cup twice \cup UNION Each(p)
  BY DEF NotifyProblems
<1>2. \A n \in used : n \in DOMAIN pool <=> n \in DOMAIN kept
  BY DEF Trims
<1>3. Missing(kept) = Missing(pool)
  BY <1>2 DEF Problem
<1>4. \A k \in DOMAIN entries :
         IsInline(entries[k]) => Taken(kept, k) = Taken(pool, k)
  BY <1>2 DEF Problem
<1> HIDE DEF Missing, Taken, Inside, twice
<1>5. Each(kept) = Each(pool)
  BY <1>4
<1> QED
  BY <1>1, <1>3, <1>5

LEMMA EntryKept ==
  ASSUME NEW table \in Range(Instances(doc)),
         InstanceProblems(doc, table, env) = {}
  PROVE  EntryProblems(Lean, table, env) = EntryProblems(doc, table, env)
<1> DEFINE list    == AsRefs(Key(table, "notify", <<>>))
           used    == Names("notify") \cup Generated
           Same(d) == ResolvePlugins("provider", Pool(d, "provider"),
                         AsRefs(Key(table, "provider", <<>>)), env)
<1>1. Same(Lean) = Same(doc)
  BY InstanceKept
<1>2. DOMAIN list = DOMAIN Key(table, "notify", <<>>)
  BY DEF AsRefs
<1>3. \A k \in DOMAIN list :
         /\ ~IsInline(list[k]) => list[k].ref \in used
         /\ IsInline(list[k]) =>
               GeneratedName(table.name, list[k].type, k) \in used
  BY <1>2, NotifyEntry
<1>4. Trims(Pool(doc, "notify"), Pool(Lean, "notify"), used)
  BY LeanPools
<1> HIDE DEF list, used
<1>5. NotifyProblems(Pool(Lean, "notify"), table.name, list, env) =
         NotifyProblems(Pool(doc, "notify"), table.name, list, env)
  BY <1>3, <1>4, NotifyKept
<1>6. \A d : EntryProblems(d, table, env) =
                DuplicateProviders(Same(d)) \cup
                NotifyProblems(Pool(d, "notify"), table.name, list, env)
  BY DEF EntryProblems, list
<1> HIDE DEF Same
<1> QED
  BY <1>1, <1>5, <1>6

NotifyNames(pool, table) ==
    {ref.name : ref \in Range(ResolveNotify(pool, table))}

\* The names of an instance that lists its notifiers do not depend on what is
\* defined.
LEMMA ListedNames ==
  ASSUME NEW pool, NEW table, "notify" \in DOMAIN table
  PROVE  LET list == AsRefs(table.notify)
         IN  NotifyNames(pool, table) =
                {IF IsInline(list[k])
                 THEN GeneratedName(table.name, list[k].type, k)
                 ELSE list[k].ref : k \in DOMAIN list}
<1> DEFINE list == AsRefs(table.notify)
           refs == ResolveNotify(pool, table)
           Name(k) == IF IsInline(list[k])
                      THEN GeneratedName(table.name, list[k].type, k)
                      ELSE list[k].ref
<1>1. refs = [k \in DOMAIN list |->
                IF IsInline(list[k])
                THEN [name |-> GeneratedName(table.name, list[k].type, k),
                      events |-> Key(list[k], "events", DefaultEvents)]
                ELSE [name |-> list[k].ref,
                      events |-> NamedEvents(pool, list[k])]]
  BY Zenon DEF ResolveNotify
<1> HIDE DEF list, refs
<1>2. DOMAIN refs = DOMAIN list /\ \A k \in DOMAIN list : refs[k].name = Name(k)
  BY <1>1
<1> HIDE DEF Name
<1>3. NotifyNames(pool, table) = {Name(k) : k \in DOMAIN list}
  BY <1>2 DEF NotifyNames, Range, refs
<1> QED
  BY <1>3 DEF Name, list

LEMMA UsedKept ==
  ASSUME \A table \in Range(Instances(doc)) :
            InstanceProblems(doc, table, env) = {}
  PROVE  /\ UsedDefinitions(Lean) = UsedDefinitions(doc)
         /\ \A name \in UsedDefinitions(doc) :
               ByRefProblems("notify", Pool(Lean, "notify"), name, <<>>, env) =
               ByRefProblems("notify", Pool(doc, "notify"), name, <<>>, env)
<1> DEFINE pool == Pool(doc, "notify")
           kept == Pool(Lean, "notify")
           used == Names("notify") \cup Generated
           All(p) == {NotifyNames(p, table) : table \in Range(Instances(doc))}
<1>1. /\ UsedDefinitions(doc) = DOMAIN pool \cap UNION All(pool)
      /\ UsedDefinitions(Lean) = DOMAIN kept \cap UNION All(kept)
  BY LeanPools DEF UsedDefinitions, NotifyNames
<1>2. CASE PublishesToAll
  <2>1. kept = pool
    BY <1>2, LeanPools
  <2> HIDE DEF pool, kept, All
  <2>2. UsedDefinitions(Lean) = UsedDefinitions(doc)
    BY <1>1, <2>1
  <2> QED
    BY <2>1, <2>2 DEF pool, kept
<1>3. CASE ~PublishesToAll
  <2>1. Trims(pool, kept, used)
    BY LeanPools
  <2>2. ASSUME NEW table \in Range(Instances(doc))
        PROVE  /\ NotifyNames(kept, table) = NotifyNames(pool, table)
               /\ NotifyNames(pool, table) \subseteq used
    <3> DEFINE list == AsRefs(table.notify)
    <3>1. "notify" \in DOMAIN table
      BY <1>3 DEF PublishesToAll
    <3>2. Key(table, "notify", <<>>) = table.notify
      BY <3>1 DEF Key
    <3>3. DOMAIN list = DOMAIN table.notify
      BY DEF AsRefs
    <3>4. \A k \in DOMAIN list :
             /\ ~IsInline(list[k]) => list[k].ref \in used
             /\ IsInline(list[k]) =>
                   GeneratedName(table.name, list[k].type, k) \in used
      BY <3>2, <3>3, NotifyEntry
    <3> DEFINE names == {IF IsInline(list[k])
                         THEN GeneratedName(table.name, list[k].type, k)
                         ELSE list[k].ref : k \in DOMAIN list}
    <3>5. NotifyNames(kept, table) = names
      BY <3>1, ListedNames
    <3>6. NotifyNames(pool, table) = names
      BY <3>1, ListedNames
    <3> HIDE DEF list, used
    <3>7. names \subseteq used
      BY <3>4
    <3> HIDE DEF names
    <3> QED
      BY <3>5, <3>6, <3>7
  <2> HIDE DEF pool, kept, used
  <2>3. All(kept) = All(pool)
    BY <2>2
  <2>4. UNION All(pool) \subseteq used
    BY <2>2
  <2> HIDE DEF All
  <2>5. UsedDefinitions(Lean) = UsedDefinitions(doc)
    BY <1>1, <2>1, <2>3, <2>4 DEF Trims
  <2>6. ASSUME NEW name \in UsedDefinitions(doc)
        PROVE  ByRefProblems("notify", kept, name, <<>>, env) =
                  ByRefProblems("notify", pool, name, <<>>, env)
    <3>1. /\ name \in DOMAIN kept /\ name \in DOMAIN pool
          /\ kept[name] = pool[name]
      BY <1>1, <2>1, <2>5 DEF Trims
    <3> QED
      BY <3>1 DEF ByRefProblems
  <2> QED
    BY <2>5, <2>6 DEF pool, kept
<1> QED
  BY <1>2, <1>3

Typeless(definition) == Key(definition, "type", "") = ""

LEMMA CheckedPool ==
  ASSUME NEW pool
  PROVE  CheckPool(pool) = {} <=>
            \A name \in DOMAIN pool :
               ~Typeless(pool[name]) /\ "ref" \notin DOMAIN pool[name]
<1>1. CheckPool(pool) =
         Problem(\E name \in DOMAIN pool : Typeless(pool[name]), "type")
         \cup Problem(\E name \in DOMAIN pool : "ref" \in DOMAIN pool[name],
                      "ref")
  BY Zenon DEF CheckPool, Typeless
<1> QED
  BY <1>1 DEF Problem

LEMMA WellFormedPool ==
  ASSUME NEW pool,
         \A definition \in Range(pool) : WellFormed(definition)
  PROVE  /\ CheckPool(pool) = {}
         /\ \A definition \in Range(pool) : EventProblems(definition) = {}
<1>1. ASSUME NEW name \in DOMAIN pool
      PROVE  ~Typeless(pool[name]) /\ "ref" \notin DOMAIN pool[name]
  <2>1. CheckPool([it |-> pool[name]]) = {}
    BY DEF WellFormed, Range
  <2>2. /\ DOMAIN [it |-> pool[name]] = {"it"}
        /\ [it |-> pool[name]].it = pool[name]
    OBVIOUS
  <2> QED
    BY <2>1, <2>2, CheckedPool
<1> QED
  BY <1>1, CheckedPool DEF WellFormed

\* Config.Notify, resolvePluginByRef: whether a document is accepted does not
\* depend on the definitions that nothing refers to, as long as they are in
\* order themselves, for every document and environment.
THEOREM UnusedIsIgnored == Spec => []UnusedNeedsNothing
<1> DEFINE kinds == {"retriever", "provider", "notify"}
<1>1. ASSUME \A kind \in kinds : \A definition \in Range(Pool(doc, kind)) :
                WellFormed(definition)
      PROVE  IsAccepted(doc, env) <=> IsAccepted(Lean, env)
  <2>1. ASSUME NEW kind \in kinds
        PROVE  \A definition \in Range(Pool(Lean, kind)) :
                  WellFormed(definition)
    <3>1. Trims(Pool(doc, kind), Pool(Lean, kind), Names(kind) \cup Generated)
      BY LeanPools
    <3>2. Range(Pool(Lean, kind)) \subseteq Range(Pool(doc, kind))
      BY <3>1 DEF Trims, Range
    <3> QED
      BY <1>1, <3>2
  <2>2. \A kind \in kinds : /\ CheckPool(Pool(doc, kind)) = {}
                            /\ CheckPool(Pool(Lean, kind)) = {}
    BY <1>1, <2>1, WellFormedPool
  <2>3. /\ \A definition \in Range(Pool(doc, "notify")) :
              EventProblems(definition) = {}
        /\ \A definition \in Range(Pool(Lean, "notify")) :
              EventProblems(definition) = {}
    BY <1>1, <2>1, WellFormedPool
  <2>4. ShapeProblems(Lean) = ShapeProblems(doc)
    <3>1. {CheckPool(Pool(Lean, kind)) : kind \in kinds} =
          {CheckPool(Pool(doc, kind)) : kind \in kinds}
      BY <2>2
    <3> QED
      BY <3>1, LeanPools DEF ShapeProblems
  <2>5. /\ Instances(Lean) = Instances(doc)
        /\ ParseInterval(Lean) = ParseInterval(doc)
    BY LeanPools
  <2>6. \A table \in Range(Instances(doc)) :
           /\ InstanceProblems(Lean, table, env) =
                 InstanceProblems(doc, table, env)
           /\ InstanceProblems(doc, table, env) = {} =>
                 EntryProblems(Lean, table, env) =
                    EntryProblems(doc, table, env)
    BY InstanceKept, EntryKept
  <2>7. (\A table \in Range(Instances(doc)) :
            InstanceProblems(doc, table, env) = {}) =>
        /\ UsedDefinitions(Lean) = UsedDefinitions(doc)
        /\ \A name \in UsedDefinitions(doc) :
              ByRefProblems("notify", Pool(Lean, "notify"), name, <<>>, env) =
              ByRefProblems("notify", Pool(doc, "notify"), name, <<>>, env)
    BY UsedKept
  <2> QED
    BY <2>3, <2>4, <2>5, <2>6, <2>7 DEF IsAccepted
<1>2. UnusedNeedsNothing
  BY <1>1, AcceptedIff DEF UnusedNeedsNothing
<1> QED
  BY <1>2, PTL

-----------------------------------------------------------------------------
(* Hooks                                                                   *)

Health == [is |-> "health"]

\* The hooks that are neither the pings before the notifiers nor the recorder
\* after them are those of the notifiers, in their order.
LEMMA HooksBetween ==
  ASSUME NEW pings, pings = <<>> \/ pings = <<[is |-> "ping"]>>,
         NEW sent, IsList(sent),
         \A k \in DOMAIN sent : sent[k].is = "notify",
         NEW hooks, \/ hooks = pings \o sent
                    \/ hooks = Append(pings \o sent, Health)
  PROVE  /\ Len(pings) \in Nat
         /\ {k \in DOMAIN hooks : hooks[k].is = "notify"} =
               {Len(pings) + k : k \in DOMAIN sent}
         /\ \A k \in DOMAIN sent : hooks[Len(pings) + k] = sent[k]
<1> DEFINE all == {[is |-> "ping"], Health} \cup Range(sent)
           p   == Len(pings)
           n   == Len(sent)
<1>1. sent \in Seq(all) /\ DOMAIN sent = 1..n /\ n \in Nat
  <2>1. sent = [k \in 1..n |-> sent[k]] /\ n \in Nat
    BY DEF IsList
  <2>2. DOMAIN sent = 1..n
    BY <2>1
  <2>3. \A k \in 1..n : sent[k] \in all
    BY <2>2 DEF Range
  <2>4. sent \in [1..n -> all]
    BY <2>1, <2>3
  <2> QED
    BY <2>1, <2>2, <2>4, SeqDef
<1>2. pings \in Seq(all) /\ p \in Nat /\ p <= 1
      /\ \A k \in 1..p : pings[k] = [is |-> "ping"]
  <2>1. CASE pings = <<>>
    BY <2>1, EmptySeq
  <2>2. CASE pings = <<[is |-> "ping"]>>
    <3> DEFINE hook == [is |-> "ping"]
    <3>1. hook \in all
      OBVIOUS
    <3> HIDE DEF hook, all
    <3>2. <<hook>> \in Seq(all) /\ Len(<<hook>>) = 1 /\ <<hook>>[1] = hook
      BY <3>1
    <3> QED
      BY <2>2, <3>2 DEF hook
  <2> QED
    BY <2>1, <2>2
<1>3. Health \in all /\ Health.is # "notify" /\ [is |-> "ping"].is # "notify"
  BY DEF Health
<1> HIDE DEF all
<1>4. /\ pings \o sent \in Seq(all) /\ Len(pings \o sent) = p + n
      /\ \A k \in 1..(p + n) : (pings \o sent)[k] =
            IF k <= p THEN pings[k] ELSE sent[k - p]
  BY <1>1, <1>2, ConcatProperties
<1>5. /\ DOMAIN hooks = 1..(p + n) \/ DOMAIN hooks = 1..(p + n + 1)
      /\ \A k \in 1..(p + n) : hooks[k] = (pings \o sent)[k]
      /\ \A k \in DOMAIN hooks : k > p + n => hooks[k] = Health
  <2>1. CASE hooks = pings \o sent
    <3>1. DOMAIN hooks = 1..(p + n)
      BY <1>1, <1>2, <1>4, <2>1, LenProperties
    <3> QED
      BY <1>1, <1>2, <2>1, <3>1
  <2>2. CASE hooks = Append(pings \o sent, Health)
    <3>1. /\ Len(hooks) = p + n + 1 /\ DOMAIN hooks = 1..(p + n + 1)
          /\ \A k \in 1..(p + n) : hooks[k] = (pings \o sent)[k]
          /\ hooks[p + n + 1] = Health
      BY <1>1, <1>2, <1>3, <1>4, <2>2, AppendProperties, LenProperties
    <3> QED
      BY <1>1, <1>2, <3>1
  <2> QED
    BY <2>1, <2>2
<1> HIDE DEF p, n
<1>6. PICK m \in Nat : m >= p + n /\ DOMAIN hooks = 1..m
  BY <1>1, <1>2, <1>5
<1>7. ASSUME NEW k \in 1..n
      PROVE  p + k \in DOMAIN hooks /\ hooks[p + k] = sent[k]
  <2>1. p + k \in 1..(p + n) /\ ~(p + k <= p) /\ (p + k) - p = k
    BY <1>1, <1>2
  <2>2. hooks[p + k] = (pings \o sent)[p + k]
    BY <1>5, <2>1
  <2>3. (pings \o sent)[p + k] = sent[k]
    BY <1>4, <2>1
  <2>4. p + k \in 1..m
    BY <1>1, <1>2, <1>6, <2>1
  <2> QED
    BY <1>6, <2>2, <2>3, <2>4
<1>8. ASSUME NEW k \in DOMAIN hooks, hooks[k].is = "notify"
      PROVE  \E j \in 1..n : k = p + j
  <2>1. k \in 1..m
    BY <1>6
  <2>2. ~(k > p + n)
    BY <1>3, <1>5, <1>8
  <2>3. k \in 1..(p + n)
    BY <1>1, <1>2, <2>1, <2>2
  <2>4. ~(k <= p)
    <3>1. SUFFICES ASSUME k <= p PROVE FALSE
      OBVIOUS
    <3>2. hooks[k] = pings[k]
      BY <1>4, <1>5, <2>3, <3>1
    <3>3. k \in 1..p
      BY <1>2, <2>3, <3>1
    <3> QED
      BY <1>2, <1>3, <1>8, <3>2, <3>3
  <2>5. k - p \in 1..n /\ k = p + (k - p)
    BY <1>1, <1>2, <2>3, <2>4
  <2> QED
    BY <2>5
<1>9. {k \in DOMAIN hooks : hooks[k].is = "notify"} = {p + k : k \in 1..n}
  <2>1. \A k \in 1..n : hooks[p + k].is = "notify"
    BY <1>1, <1>7
  <2> QED
    BY <1>7, <1>8, <2>1
<1> QED
  BY <1>1, <1>2, <1>7, <1>9 DEF p

\* The names of the definitions, in some order.
LEMMA AllNames ==
  ASSUME NEW S, IsFiniteSet(S)
  PROVE  LET names == SetToSeq(S)
         IN  /\ Cardinality(S) \in Nat /\ DOMAIN names = 1..Cardinality(S)
             /\ IsInjective(names) /\ Range(names) = S
<1> DEFINE n == Cardinality(S)
           names == SetToSeq(S)
<1>1. n \in Nat /\ ExistsBijection(1..n, S)
  BY FS_CardinalityType
<1>2. \E f \in [1..n -> S] : IsInjective(f)
  BY <1>1 DEF ExistsBijection, Bijection, Injection
<1>3. names \in [1..n -> S] /\ IsInjective(names)
  BY <1>2, Zenon DEF SetToSeq
<1>4. names \in Surjection(1..n, S)
  <2>1. names \in Injection(1..n, S)
    BY <1>3 DEF Injection
  <2>2. Cardinality(1..n) = n
    BY <1>1, FS_Interval
  <2> QED
    BY <2>1, <2>2, FS_Injection
<1>5. Range(names) = S
  BY <1>3, <1>4 DEF Surjection, Range
<1> QED
  BY <1>1, <1>3, <1>5

\* An instance of a document that is accepted.
AcceptedTable(table) ==
    /\ table \in Range(Instances(doc))
    /\ InstanceProblems(doc, table, env) = {}
    /\ EntryProblems(doc, table, env) = {}
    /\ \A entry \in Range(Key(table, "notify", <<>>)) :
          "short" \in DOMAIN entry => DOMAIN entry = {"short"}

Blank(entry) == entry.ref = ""

\* What is known of an entry of its list of notifiers: one that names a
\* definition, and one that is a notifier itself.
LEMMA NotifyForms ==
  ASSUME NEW table, AcceptedTable(table),
         NEW k \in DOMAIN Key(table, "notify", <<>>)
  PROVE  LET listed == Key(table, "notify", <<>>)[k]
             entry  == AsRefs(Key(table, "notify", <<>>))[k]
         IN  /\ ~IsInline(entry) =>
                   /\ Refers(listed) /\ entry.ref = RefName(listed)
                   /\ entry.ref \in DOMAIN Pool(doc, "notify")
                   /\ \A default : Key(entry, "events", default) =
                                      Key(listed, "events", default)
             /\ IsInline(entry) =>
                   /\ ~Refers(listed) /\ entry = listed
                   /\ GeneratedName(table.name, entry.type, k)
                         \notin DOMAIN Pool(doc, "notify")
<1> DEFINE list   == Key(table, "notify", <<>>)
           listed == list[k]
           entry  == AsRefs(list)[k]
           pool   == Pool(doc, "notify")
<1>1. /\ NotifyTables(table) = {} /\ CheckList(list) = {}
  BY InstanceIff DEF AcceptedTable
<1>2. /\ DOMAIN AsRefs(list) = DOMAIN list
      /\ entry = IF "short" \in DOMAIN listed THEN [ref |-> listed.short]
                                              ELSE listed
  BY DEF AsRefs
<1>3. CheckNotifyTable(entry) = {}
  <2>1. entry \in Range(AsRefs(list))
    BY <1>2 DEF Range
  <2> HIDE DEF entry, list
  <2> QED
    BY <1>1, <2>1 DEF NotifyTables, list
<1>4. NotifyProblems(pool, table.name, AsRefs(list), env) = {}
  BY DEF AcceptedTable, EntryProblems
<1>5. /\ ~IsInline(entry) => entry.ref \in DOMAIN pool
      /\ IsInline(entry) =>
            GeneratedName(table.name, entry.type, k) \notin DOMAIN pool
  <2> DEFINE refs == AsRefs(list)
             missing == \E n \in DOMAIN refs :
                           ~IsInline(refs[n]) /\ refs[n].ref \notin DOMAIN pool
             Taken(n) == GeneratedName(table.name, refs[n].type, n)
                            \in DOMAIN pool
             Each(n) == IF IsInline(refs[n])
                        THEN InlineProblems(Without(refs[n], {"events"}), env)
                             \cup Problem(Taken(n), "name is taken")
                        ELSE {}
             each == {Each(n) : n \in DOMAIN refs}
  <2>1. Problem(missing, "not defined") = {} /\ UNION each = {}
    BY <1>4 DEF NotifyProblems
  <2>2. ~missing
    BY <2>1, NoProblem
  <2>3. \A n \in DOMAIN refs : IsInline(refs[n]) =>
                                  Problem(Taken(n), "name is taken") = {}
    <3>1. \A n \in DOMAIN refs : Each(n) \in each
      OBVIOUS
    <3> HIDE DEF each
    <3>2. \A n \in DOMAIN refs : Each(n) = {}
      BY <2>1, <3>1
    <3> HIDE DEF refs, Taken
    <3> QED
      BY <3>2
  <2>4. k \in DOMAIN refs
    BY <1>2
  <2> HIDE DEF refs
  <2> QED
    BY <2>2, <2>3, <2>4, NoProblem DEF refs
<1>6. ASSUME ~IsInline(entry)
      PROVE  /\ Refers(listed) /\ entry.ref = RefName(listed)
             /\ \A default : Key(entry, "events", default) =
                                Key(listed, "events", default)
  <2>1. "ref" \in DOMAIN entry
    <3>1. SUFFICES ASSUME "ref" \notin DOMAIN entry PROVE FALSE
      OBVIOUS
    <3> HIDE DEF entry
    <3>2. Problem(Key(entry, "type", "") = "", "type") = {}
      BY <1>3, <3>1 DEF CheckNotifyTable
    <3>3. Key(entry, "type", "") = ""
      BY <1>6, Zenon DEF IsInline, Key
    <3> QED
      BY <3>2, <3>3, NoProblem
  <2>2. entry.ref = RefName(listed)
    BY <2>1, RefIsName
  <2>3. ~Blank(entry)
    <3> HIDE DEF entry
    <3>1. Problem(Blank(entry), "ref") = {}
      BY <1>3, <2>1, Zenon DEF CheckNotifyTable, Blank
    <3> QED
      BY <3>1, NoProblem
  <2>4. Refers(listed)
    <3> HIDE DEF entry, listed
    <3> QED
      BY <2>2, <2>3, Zenon DEF Blank, Refers
  <2>5. \A default : Key(entry, "events", default) =
                        Key(listed, "events", default)
    <3>1. CASE "short" \in DOMAIN listed
      <4>1. DOMAIN listed = {"short"}
        BY <3>1 DEF AcceptedTable, Range
      <4>2. DOMAIN entry = {"ref"}
        BY <1>2, <3>1
      <4> HIDE DEF entry, listed
      <4> QED
        BY <4>1, <4>2 DEF Key
    <3>2. CASE "short" \notin DOMAIN listed
      BY <1>2, <3>2
    <3> QED
      BY <3>1, <3>2
  <2> QED
    BY <2>2, <2>4, <2>5
<1>7. ASSUME IsInline(entry)
      PROVE  ~Refers(listed) /\ entry = listed
  <2>1. entry = listed /\ "short" \notin DOMAIN listed
    BY <1>2, <1>7 DEF IsInline
  <2>2. "ref" \notin DOMAIN listed
    <3>1. SUFFICES ASSUME "ref" \in DOMAIN listed PROVE FALSE
      OBVIOUS
    <3> HIDE DEF entry, listed
    <3>2. Problem("type" \in DOMAIN entry, "ref and type") = {}
      BY <1>3, <2>1, <3>1 DEF CheckNotifyTable
    <3> QED
      BY <1>7, <3>2, NoProblem DEF IsInline
  <2>3. ~Refers(listed)
    <3> HIDE DEF listed
    <3> QED
      BY <2>1, <2>2, Zenon DEF Refers, RefName, Key
  <2> QED
    BY <2>1, <2>3
<1> QED
  BY <1>5, <1>6, <1>7

LEMMA HasName ==
  ASSUME NEW table, AcceptedTable(table)
  PROVE  Key(table, "name", "") = table.name
<1>1. Nameless(table) = {}
  BY InstanceIff DEF AcceptedTable
<1>2. "name" \in DOMAIN table
  BY <1>1, NoProblem, Zenon DEF Nameless, Key
<1> QED
  BY <1>2 DEF Key

\* Where notifiers are declared in place, and what they are called.
LEMMA InlinePlaces ==
  ASSUME NEW i \in DOMAIN Instances(doc), AcceptedTable(Instances(doc)[i]),
         NEW k
  PROVE  LET table == Instances(doc)[i]
             list  == Key(table, "notify", <<>>)
             entry == AsRefs(list)[k]
         IN  /\ <<i, k>> \in InlineAt(doc) <=>
                   k \in DOMAIN list /\ IsInline(entry)
             /\ <<i, k>> \in InlineAt(doc) =>
                   InlineName(doc, <<i, k>>) =
                      GeneratedName(table.name, entry.type, k)
<1> DEFINE table == Instances(doc)[i]
           list  == Key(table, "notify", <<>>)
           entry == AsRefs(list)[k]
           Places(n) == {<<n, m>> : m \in
               {m \in DOMAIN Key(Instances(doc)[n], "notify", <<>>) :
                   IsInline(Instances(doc)[n].notify[m])}}
<1>1. InlineAt(doc) = UNION {Places(n) : n \in DOMAIN Instances(doc)}
  BY DEF InlineAt
<1>2. \A n : \A at \in Places(n) : at[1] = n
  OBVIOUS
<1>3. <<i, k>> \in Places(i) <=>
         k \in DOMAIN list /\ IsInline(table.notify[k])
  OBVIOUS
<1>4. <<i, k>> \in InlineAt(doc) <=> <<i, k>> \in Places(i)
  <2>1. <<i, k>>[1] = i
    OBVIOUS
  <2> HIDE DEF Places
  <2>2. <<i, k>> \in Places(i) => <<i, k>> \in InlineAt(doc)
    BY <1>1
  <2>3. ASSUME <<i, k>> \in InlineAt(doc) PROVE <<i, k>> \in Places(i)
    <3>1. PICK n \in DOMAIN Instances(doc) : <<i, k>> \in Places(n)
      BY <1>1, <2>3
    <3> QED
      BY <1>2, <2>1, <3>1
  <2> QED
    BY <2>2, <2>3
<1>5. k \in DOMAIN list => "notify" \in DOMAIN table /\ list = table.notify
  BY DEF Key
<1>6. ASSUME k \in DOMAIN list
      PROVE  /\ IsInline(list[k]) <=> IsInline(entry)
             /\ IsInline(list[k]) => entry = list[k]
  <2>1. entry = IF "short" \in DOMAIN list[k] THEN [ref |-> list[k].short]
                                              ELSE list[k]
    BY <1>6 DEF AsRefs
  <2>2. "short" \in DOMAIN list[k] => DOMAIN list[k] = {"short"}
    BY <1>6 DEF AcceptedTable, Range
  <2> HIDE DEF list, entry
  <2> QED
    BY <2>1, <2>2 DEF IsInline
<1>7. <<i, k>> \in InlineAt(doc) <=> k \in DOMAIN list /\ IsInline(entry)
  <2> HIDE DEF Places, list, entry, table
  <2> QED
    BY <1>3, <1>4, <1>5, <1>6
<1>8. ASSUME <<i, k>> \in InlineAt(doc)
      PROVE  InlineName(doc, <<i, k>>) =
                GeneratedName(table.name, entry.type, k)
  <2>1. /\ <<i, k>>[1] = i /\ <<i, k>>[2] = k
        /\ table.notify[k] = entry
    BY <1>5, <1>6, <1>7, <1>8
  <2>2. Key(table, "name", "") = table.name
    BY HasName
  <2> HIDE DEF entry, list
  <2> QED
    BY <2>1, <2>2, Zenon DEF InlineName
<1> QED
  BY <1>7, <1>8

InlineFrom(at)    == [definition |-> "", at |-> at]
DefinedFrom(name) == [definition |-> name, at |-> <<0, 0>>]

\* Where each notifier of the configuration was declared.
LEMMA NotifiersAreFrom ==
  ASSUME \A table \in Range(Instances(doc)) : AcceptedTable(table),
         IsList(Instances(doc)), NameTwice(Instances(doc)) = {},
         NamesAreTold(doc)
  PROVE  LET notify == ResolveNotifiers(doc, env)
         IN  /\ DOMAIN notify = UsedDefinitions(doc) \cup Generated
             /\ \A at \in InlineAt(doc) :
                   notify[InlineName(doc, at)].from = InlineFrom(at)
             /\ \A name \in UsedDefinitions(doc) :
                   notify[name].from = DefinedFrom(name)
<1> DEFINE notify == ResolveNotifiers(doc, env)
           pool   == Pool(doc, "notify")
           Latest(name) == CHOOSE at \in InlineAt(doc) :
               /\ InlineName(doc, at) = name
               /\ \A other \in InlineAt(doc) :
                     InlineName(doc, other) = name => other[1] <= at[1]
           Entry(at) == Without(Instances(doc)[at[1]].notify[at[2]], {"events"})
           Notifier(name) ==
               IF name \in Generated
               THEN [plugin |-> ResolvePluginInline(Entry(Latest(name)), env),
                     from |-> InlineFrom(Latest(name))]
               ELSE [plugin |-> ResolvePluginByRef("notify", pool, name, <<>>,
                                                   env),
                     from |-> DefinedFrom(name)]
<1>1. notify = [name \in UsedDefinitions(doc) \cup Generated |-> Notifier(name)]
  BY Zenon DEF ResolveNotifiers, Generated, InlineFrom, DefinedFrom
<1>2. ASSUME NEW at \in InlineAt(doc)
      PROVE  /\ InlineName(doc, at) \notin DOMAIN pool
             /\ Latest(InlineName(doc, at)) = at
  <2>1. PICK i \in DOMAIN Instances(doc) : \E k : at = <<i, k>>
    BY DEF InlineAt
  <2>2. PICK k : at = <<i, k>>
    BY <2>1
  <2>3. AcceptedTable(Instances(doc)[i])
    BY DEF Range
  <2>4. InlineName(doc, at) \notin DOMAIN pool
    BY <2>2, <2>3, InlinePlaces, NotifyForms
  <2>5. \A other \in InlineAt(doc) :
           InlineName(doc, other) = InlineName(doc, at) => other = at
    BY DEF NamesAreTold
  <2>6. at[1] \in Int
    BY <2>2 DEF IsList
  <2> QED
    BY <2>4, <2>5, <2>6
<1>3. \A name \in Generated :
         \E at \in InlineAt(doc) : name = InlineName(doc, at)
  BY DEF Generated
<1>4. UsedDefinitions(doc) \cap Generated = {}
  BY <1>2, <1>3 DEF UsedDefinitions
<1>5. \A at \in InlineAt(doc) : InlineName(doc, at) \in Generated
  BY DEF Generated
<1>6. /\ DOMAIN notify = UsedDefinitions(doc) \cup Generated
      /\ \A name \in UsedDefinitions(doc) \cup Generated :
            notify[name] = Notifier(name)
  <2> HIDE DEF Notifier
  <2> QED
    BY <1>1
<1>7. \A name : /\ name \in Generated =>
                      Notifier(name).from = InlineFrom(Latest(name))
                /\ name \notin Generated =>
                      Notifier(name).from = DefinedFrom(name)
  <2> HIDE DEF Latest, Entry
  <2> QED
    OBVIOUS
<1> HIDE DEF notify, Notifier, Latest
<1> QED
  BY <1>2, <1>4, <1>5, <1>6, <1>7 DEF notify

\* What the file wants of an entry of a list of notifiers.
WantedOf(i, k) ==
    LET entry == doc.instance[i].notify[k]
        name  == RefName(entry)
        Defined == Key(doc.notify[name], "events", DefaultEvents)
    IN  IF Refers(entry)
        THEN Sink(name, <<0, 0>>, Key(entry, "events", Defined))
        ELSE Sink("", <<i, k>>, Key(entry, "events", DefaultEvents))

LEMMA WantedForms ==
  ASSUME NEW i
  PROVE  /\ "notify" \notin DOMAIN doc.instance[i] =>
               Wanted(i) = {Sink(name, <<0, 0>>,
                                 Key(doc.notify[name], "events",
                                     DefaultEvents)) :
                            name \in DOMAIN Pool(doc, "notify")}
         /\ "notify" \in DOMAIN doc.instance[i] =>
               Wanted(i) = {WantedOf(i, k) :
                               k \in DOMAIN doc.instance[i].notify}
<1> DEFINE table == doc.instance[i]
           Name(k) == Key(table.notify[k], "short",
                          Key(table.notify[k], "ref", ""))
           Listed(k) ==
              IF Name(k) = ""
              THEN Sink("", <<i, k>>, Key(table.notify[k], "events",
                                          DefaultEvents))
              ELSE Sink(Name(k), <<0, 0>>,
                        Key(table.notify[k], "events",
                            Key(doc.notify[Name(k)], "events", DefaultEvents)))
<1>1. "notify" \notin DOMAIN table =>
         Wanted(i) = {Sink(name, <<0, 0>>,
                           Key(doc.notify[name], "events", DefaultEvents)) :
                      name \in DOMAIN Pool(doc, "notify")}
  BY Zenon DEF Wanted
<1>2. "notify" \in DOMAIN table =>
         Wanted(i) = {Listed(k) : k \in DOMAIN table.notify}
  BY Zenon DEF Wanted
<1>3. \A k : Listed(k) = WantedOf(i, k)
  BY Zenon DEF WantedOf, Refers, RefName
<1> HIDE DEF Listed
<1> QED
  BY <1>1, <1>2, <1>3

Sends(i) ==
    LET refs == ResolveNotify(Pool(doc, "notify"), Instances(doc)[i])
    IN  [k \in DOMAIN refs |->
            [is |-> "notify",
             from |-> ResolveNotifiers(doc, env)[refs[k].name].from,
             events |-> refs[k].events]]

LEMMA ListsAre ==
  ASSUME NEW n \in Nat, NEW f, f = [k \in 1..n |-> f[k]]
  PROVE  IsList(f)
<1>1. DOMAIN f = 1..n /\ \A k \in 1..n : f[k] \in Range(f)
  BY DEF Range
<1>2. f \in [1..n -> Range(f)]
  BY <1>1
<1>3. f \in Seq(Range(f))
  BY <1>2, SeqDef
<1>4. DOMAIN f = 1..Len(f) /\ Len(f) \in Nat
  BY <1>3, LenProperties
<1> QED
  BY <1>1, <1>4 DEF IsList

\* A document that is accepted, with what is assumed of documents.
Publishable ==
    /\ \A table \in Range(Instances(doc)) :
          AcceptedTable(table) /\ IsList(Key(table, "notify", <<>>))
    /\ Instances(doc) = doc.instance /\ IsList(Instances(doc))
    /\ IsFiniteSet(DOMAIN Pool(doc, "notify"))
    /\ NameTwice(Instances(doc)) = {}

Reached(hook) == [from |-> hook.from, events |-> hook.events]

\* The hooks of an instance are what its part of the document wants, each once.
SendsWhatIsWanted(i) ==
    /\ IsList(Sends(i))
    /\ \A k \in DOMAIN Sends(i) : Sends(i)[k].is = "notify"
    /\ {Reached(Sends(i)[k]) : k \in DOMAIN Sends(i)} = Wanted(i)
    /\ \A j, k \in DOMAIN Sends(i) :
          Sends(i)[j].from = Sends(i)[k].from => j = k

\* The definition an instance publishes to is in use.
LEMMA ReferredIsUsed ==
  ASSUME NEW i \in DOMAIN Instances(doc),
         NEW k \in DOMAIN ResolveNotify(Pool(doc, "notify"), Instances(doc)[i]),
         LET ref == ResolveNotify(Pool(doc, "notify"), Instances(doc)[i])[k]
         IN  ref.name \in DOMAIN Pool(doc, "notify")
  PROVE  LET ref == ResolveNotify(Pool(doc, "notify"), Instances(doc)[i])[k]
         IN  ref.name \in UsedDefinitions(doc)
<1> DEFINE pool  == Pool(doc, "notify")
           table == Instances(doc)[i]
           refs  == ResolveNotify(pool, table)
           all   == {NotifyNames(pool, t) : t \in Range(Instances(doc))}
<1>1. UsedDefinitions(doc) = DOMAIN pool \cap UNION all
  BY DEF UsedDefinitions, NotifyNames
<1>2. refs[k].name \in NotifyNames(pool, table)
  BY DEF NotifyNames, Range
<1>3. NotifyNames(pool, table) \in all
  BY DEF Range
<1> HIDE DEF all, pool, table, refs
<1>4. refs[k].name \in UNION all
  BY <1>2, <1>3
<1> QED
  BY <1>1, <1>4 DEF pool, table, refs

\* Without "notify": to every definition.
LEMMA SendsToAll ==
  ASSUME Publishable, NamesAreTold(doc), NEW i \in DOMAIN Instances(doc),
         "notify" \notin DOMAIN Instances(doc)[i]
  PROVE  SendsWhatIsWanted(i)
<1> DEFINE pool  == Pool(doc, "notify")
           table == Instances(doc)[i]
           refs  == ResolveNotify(pool, table)
           names == SetToSeq(DOMAIN pool)
           n     == Cardinality(DOMAIN pool)
<1>1. /\ n \in Nat /\ DOMAIN names = 1..n
      /\ IsInjective(names) /\ Range(names) = DOMAIN pool
  BY AllNames DEF Publishable
<1>2. refs = [k \in DOMAIN names |->
                [name |-> names[k], events |-> DefinedEvents(pool, names[k])]]
  BY Zenon DEF ResolveNotify, AllNotifyRefs
<1>3. /\ DOMAIN refs = 1..n
      /\ \A k \in 1..n : /\ refs[k].name = names[k]
                         /\ refs[k].events = DefinedEvents(pool, names[k])
                         /\ names[k] \in DOMAIN pool
  <2> HIDE DEF names, pool, refs
  <2> QED
    BY <1>1, <1>2 DEF Range
<1>4. ASSUME NEW k \in 1..n
      PROVE  /\ Sends(i)[k].is = "notify"
             /\ Sends(i)[k].from = DefinedFrom(names[k])
             /\ Sends(i)[k].events =
                   Key(doc.notify[names[k]], "events", DefaultEvents)
  <2>1. Sends(i)[k] = [is |-> "notify",
                       from |-> ResolveNotifiers(doc, env)[refs[k].name].from,
                       events |-> refs[k].events]
    BY <1>3 DEF Sends
  <2>2. names[k] \in UsedDefinitions(doc)
    BY <1>3, ReferredIsUsed
  <2>3. ResolveNotifiers(doc, env)[names[k]].from = DefinedFrom(names[k])
    BY <2>2, NotifiersAreFrom DEF Publishable
  <2>4. pool = doc.notify
    BY <1>3 DEF Pool, Key
  <2> HIDE DEF names, pool, refs
  <2> QED
    BY <1>3, <2>1, <2>3, <2>4 DEF DefinedEvents
<1>5. Sends(i) = [k \in 1..n |-> Sends(i)[k]]
  <2>1. DOMAIN Sends(i) = 1..n
    BY <1>3 DEF Sends
  <2> QED
    BY <2>1 DEF Sends
<1>6. Wanted(i) = {Sink(name, <<0, 0>>,
                        Key(doc.notify[name], "events", DefaultEvents)) :
                   name \in DOMAIN pool}
  BY WantedForms DEF Publishable
<1>7. \A k \in 1..n : Reached(Sends(i)[k]) =
         Sink(names[k], <<0, 0>>,
              Key(doc.notify[names[k]], "events", DefaultEvents))
  <2> HIDE DEF names, pool, refs
  <2> QED
    BY <1>4 DEF Reached, Sink, DefinedFrom
<1>8. DOMAIN pool = {names[k] : k \in 1..n}
  <2> HIDE DEF names, pool
  <2> QED
    BY <1>1 DEF Range
<1>9. {Reached(Sends(i)[k]) : k \in 1..n} = Wanted(i)
  <2> HIDE DEF names, pool
  <2> QED
    BY <1>6, <1>7, <1>8
<1>10. \A j, k \in 1..n : Sends(i)[j].from = Sends(i)[k].from => j = k
  <2>1. \A j, k \in 1..n : DefinedFrom(names[j]) = DefinedFrom(names[k]) =>
                              names[j] = names[k]
    BY DEF DefinedFrom
  <2> HIDE DEF names, pool
  <2> QED
    BY <1>1, <1>4, <2>1 DEF IsInjective
<1>11. IsList(Sends(i)) /\ DOMAIN Sends(i) = 1..n
  BY <1>1, <1>5, ListsAre
<1> QED
  BY <1>4, <1>9, <1>10, <1>11 DEF SendsWhatIsWanted

LEMMA NoneTwice ==
  ASSUME NEW table, AcceptedTable(table),
         IsList(Key(table, "notify", <<>>)),
         NEW j \in DOMAIN Key(table, "notify", <<>>),
         NEW k \in DOMAIN Key(table, "notify", <<>>),
         LET refs == AsRefs(Key(table, "notify", <<>>))
         IN  /\ ~IsInline(refs[j]) /\ ~IsInline(refs[k])
             /\ refs[j].ref = refs[k].ref
  PROVE  j = k
<1> DEFINE refs == AsRefs(Key(table, "notify", <<>>))
           twice == \E m, n \in DOMAIN refs :
                       /\ m < n /\ ~IsInline(refs[m]) /\ ~IsInline(refs[n])
                       /\ refs[m].ref = refs[n].ref
<1>1. Problem(twice, "listed twice") = {}
  BY DEF AcceptedTable, EntryProblems, NotifyProblems
<1>2. ~twice
  BY <1>1, NoProblem
<1>3. j \in DOMAIN refs /\ k \in DOMAIN refs
  BY DEF AsRefs
<1>4. j \in Nat /\ k \in Nat
  BY DEF IsList
<1> HIDE DEF refs
<1> QED
  BY <1>2, <1>3, <1>4 DEF refs

\* What an entry of a list of notifiers is resolved to.
LEMMA ListedRefs ==
  ASSUME NEW pool, NEW table, "notify" \in DOMAIN table
  PROVE  LET refs == ResolveNotify(pool, table)
             list == AsRefs(table.notify)
         IN  /\ DOMAIN refs = DOMAIN table.notify
             /\ \A k \in DOMAIN table.notify :
                   /\ IsInline(list[k]) =>
                         /\ refs[k].name =
                               GeneratedName(table.name, list[k].type, k)
                         /\ refs[k].events =
                               Key(list[k], "events", DefaultEvents)
                   /\ ~IsInline(list[k]) =>
                         /\ refs[k].name = list[k].ref
                         /\ refs[k].events = NamedEvents(pool, list[k])
<1> DEFINE list == AsRefs(table.notify)
           refs == ResolveNotify(pool, table)
<1>1. refs = [k \in DOMAIN list |->
                IF IsInline(list[k])
                THEN [name |-> GeneratedName(table.name, list[k].type, k),
                      events |-> Key(list[k], "events", DefaultEvents)]
                ELSE [name |-> list[k].ref,
                      events |-> NamedEvents(pool, list[k])]]
  BY Zenon DEF ResolveNotify
<1>2. DOMAIN list = DOMAIN table.notify
  BY DEF AsRefs
<1> HIDE DEF list, refs
<1> QED
  BY <1>1, <1>2 DEF list, refs

\* With "notify": to what it lists.
LEMMA SendsToListed ==
  ASSUME Publishable, NamesAreTold(doc), NEW i \in DOMAIN Instances(doc),
         "notify" \in DOMAIN Instances(doc)[i]
  PROVE  SendsWhatIsWanted(i)
<1> DEFINE pool  == Pool(doc, "notify")
           table == Instances(doc)[i]
           list  == table.notify
           refs  == ResolveNotify(pool, table)
           entry(k) == AsRefs(list)[k]
           n     == Len(list)
<1>1. /\ AcceptedTable(table) /\ Key(table, "notify", <<>>) = list
      /\ table = doc.instance[i] /\ i \in Nat \ {0}
      /\ list = [k \in 1..n |-> list[k]] /\ n \in Nat
  <2>1. table \in Range(Instances(doc)) /\ Instances(doc) = doc.instance
        /\ IsList(Instances(doc))
    BY DEF Range, Publishable
  <2>2. Key(table, "notify", <<>>) = list
    BY DEF Key
  <2>3. AcceptedTable(table) /\ IsList(list)
    BY <2>1, <2>2 DEF Publishable
  <2>4. i \in Nat \ {0}
    BY <2>1 DEF IsList
  <2> QED
    BY <2>1, <2>2, <2>3, <2>4 DEF IsList
<1>2. DOMAIN list = 1..n
  BY <1>1
<1>3. DOMAIN refs = 1..n
  BY <1>2, ListedRefs
<1>4. ASSUME NEW k \in 1..n, IsInline(entry(k))
      PROVE  /\ Sends(i)[k].from = InlineFrom(<<i, k>>)
             /\ Reached(Sends(i)[k]) = WantedOf(i, k)
  <2>1. /\ refs[k].name = GeneratedName(table.name, entry(k).type, k)
        /\ refs[k].events = Key(entry(k), "events", DefaultEvents)
    BY <1>2, <1>4, ListedRefs
  <2>2. /\ <<i, k>> \in InlineAt(doc)
        /\ InlineName(doc, <<i, k>>) = refs[k].name
    BY <1>1, <1>2, <1>4, <2>1, InlinePlaces
  <2>3. ResolveNotifiers(doc, env)[refs[k].name].from = InlineFrom(<<i, k>>)
    BY <2>2, NotifiersAreFrom DEF Publishable
  <2>4. ~Refers(list[k]) /\ entry(k) = list[k]
    BY <1>1, <1>2, <1>4, NotifyForms
  <2>5. WantedOf(i, k) = [from |-> InlineFrom(<<i, k>>),
                          events |-> Key(list[k], "events", DefaultEvents)]
    BY <1>1, <2>4, Zenon DEF WantedOf, Sink, InlineFrom
  <2>6. Sends(i)[k] = [is |-> "notify", from |-> InlineFrom(<<i, k>>),
                       events |-> Key(list[k], "events", DefaultEvents)]
    BY <1>3, <2>1, <2>3, <2>4 DEF Sends
  <2> QED
    BY <2>5, <2>6 DEF Reached
<1>5. ASSUME NEW k \in 1..n, ~IsInline(entry(k))
      PROVE  /\ Sends(i)[k].from = DefinedFrom(entry(k).ref)
             /\ Reached(Sends(i)[k]) = WantedOf(i, k)
  <2>1. /\ refs[k].name = entry(k).ref
        /\ refs[k].events = NamedEvents(pool, entry(k))
    BY <1>2, <1>5, ListedRefs
  <2>2. /\ Refers(list[k]) /\ entry(k).ref = RefName(list[k])
        /\ entry(k).ref \in DOMAIN pool
        /\ \A default : Key(entry(k), "events", default) =
                           Key(list[k], "events", default)
    BY <1>1, <1>2, <1>5, NotifyForms
  <2>3. refs[k].name \in UsedDefinitions(doc)
    BY <1>3, <2>1, <2>2, ReferredIsUsed
  <2>4. ResolveNotifiers(doc, env)[refs[k].name].from =
           DefinedFrom(entry(k).ref)
    BY <2>1, <2>3, NotifiersAreFrom DEF Publishable
  <2>5. pool = doc.notify
    BY <2>2 DEF Pool, Key
  <2> DEFINE events == Key(list[k], "events",
                           Key(doc.notify[RefName(list[k])], "events",
                               DefaultEvents))
  <2>6. WantedOf(i, k) = Sink(RefName(list[k]), <<0, 0>>, events)
    BY <1>1, <2>2, Zenon DEF WantedOf
  <2>7. refs[k].events = events
    <3> HIDE DEF pool, list, refs
    <3> QED
      BY <2>1, <2>2, <2>5 DEF NamedEvents, DefinedEvents
  <2>8. Sends(i)[k] = [is |-> "notify", from |-> DefinedFrom(entry(k).ref),
                       events |-> events]
    <3> HIDE DEF events
    <3> QED
      BY <1>3, <2>4, <2>7 DEF Sends
  <2> HIDE DEF events
  <2> QED
    BY <2>2, <2>6, <2>8 DEF Reached, Sink, DefinedFrom
<1>6. DOMAIN Sends(i) = 1..n /\ \A k \in 1..n : Sends(i)[k].is = "notify"
  BY <1>3 DEF Sends
<1>7. IsList(Sends(i))
  <2>1. Sends(i) = [k \in 1..n |-> Sends(i)[k]]
    BY <1>3, <1>6 DEF Sends
  <2> QED
    BY <1>1, <2>1, ListsAre
<1>8. {Reached(Sends(i)[k]) : k \in 1..n} = Wanted(i)
  <2>1. Wanted(i) = {WantedOf(i, k) : k \in 1..n}
    BY <1>1, <1>2, WantedForms
  <2>2. \A k \in 1..n : Reached(Sends(i)[k]) = WantedOf(i, k)
    BY <1>4, <1>5
  <2> QED
    BY <2>1, <2>2
<1>9. ASSUME NEW j \in 1..n, NEW k \in 1..n,
             Sends(i)[j].from = Sends(i)[k].from
      PROVE  j = k
  <2>1. \A m, name : InlineFrom(<<i, m>>) # DefinedFrom(name)
    BY <1>1 DEF InlineFrom, DefinedFrom
  <2>2. CASE IsInline(entry(j)) /\ IsInline(entry(k))
    <3>1. InlineFrom(<<i, j>>) = InlineFrom(<<i, k>>)
      BY <1>4, <1>9, <2>2
    <3> QED
      BY <3>1 DEF InlineFrom
  <2>3. CASE ~IsInline(entry(j)) /\ ~IsInline(entry(k))
    <3>1. DefinedFrom(entry(j).ref) = DefinedFrom(entry(k).ref)
      BY <1>5, <1>9, <2>3
    <3>2. entry(j).ref = entry(k).ref
      BY <3>1 DEF DefinedFrom
    <3>3. IsList(Key(table, "notify", <<>>))
      BY <1>1 DEF IsList
    <3> QED
      BY <1>1, <1>2, <2>3, <3>2, <3>3, NoneTwice
  <2>4. CASE IsInline(entry(j)) /\ ~IsInline(entry(k))
    BY <1>4, <1>5, <1>9, <2>1, <2>4
  <2>5. CASE ~IsInline(entry(j)) /\ IsInline(entry(k))
    BY <1>4, <1>5, <1>9, <2>1, <2>5
  <2> QED
    BY <2>2, <2>3, <2>4, <2>5
<1> QED
  BY <1>6, <1>7, <1>8, <1>9 DEF SendsWhatIsWanted

\* What is accepted can be published, and what was loaded is what it says.
LEMMA LoadedIsPublishable ==
  ASSUME Inv, HasConfig
  PROVE  /\ Publishable /\ doc \in Documents
         /\ DOMAIN config.instances = DOMAIN Instances(doc)
         /\ \A i \in DOMAIN Instances(doc) :
               config.instances[i].notify =
                  ResolveNotify(Pool(doc, "notify"), Instances(doc)[i])
         /\ config.notify = ResolveNotifiers(doc, env)
<1>1. IsAccepted(doc, env) /\ config = Parse(doc, env) /\ doc \in Documents
  BY AcceptedIff DEF Inv, HasConfig
<1>2. /\ IsList(Instances(doc)) /\ IsFiniteSet(DOMAIN Pool(doc, "notify"))
      /\ \A i \in DOMAIN Instances(doc) :
            /\ IsList(Key(Instances(doc)[i], "notify", <<>>))
            /\ \A entry \in Range(Key(Instances(doc)[i], "notify", <<>>)) :
                  "short" \in DOMAIN entry => DOMAIN entry = {"short"}
  BY <1>1, DocumentAssumption
<1>3. \A table \in Range(Instances(doc)) :
         AcceptedTable(table) /\ IsList(Key(table, "notify", <<>>))
  BY <1>1, <1>2 DEF IsAccepted, AcceptedTable, Range
<1>4. Instances(doc) = doc.instance
  BY <1>1 DEF IsAccepted, Instances, Key
<1>5. Publishable
  BY <1>1, <1>2, <1>3, <1>4 DEF Publishable, IsAccepted
<1>6. /\ DOMAIN config.instances = DOMAIN Instances(doc)
      /\ \A i \in DOMAIN Instances(doc) :
            config.instances[i] = ResolveInstance(doc, Instances(doc)[i], env)
      /\ config.notify = ResolveNotifiers(doc, env)
  BY <1>1 DEF Parse
<1>7. \A table : ResolveInstance(doc, table, env).notify =
                    ResolveNotify(Pool(doc, "notify"), table)
  BY Zenon DEF ResolveInstance
<1> QED
  BY <1>1, <1>5, <1>6, <1>7

\* Every reference of an instance has a notifier in the configuration.
LEMMA RefsAreDeclared ==
  ASSUME Publishable, NEW i \in DOMAIN Instances(doc),
         NEW k \in DOMAIN ResolveNotify(Pool(doc, "notify"), Instances(doc)[i])
  PROVE  ResolveNotify(Pool(doc, "notify"), Instances(doc)[i])[k].name
            \in UsedDefinitions(doc) \cup Generated
<1> DEFINE pool  == Pool(doc, "notify")
           table == Instances(doc)[i]
           refs  == ResolveNotify(pool, table)
<1>1. AcceptedTable(table)
  BY DEF Publishable, Range
<1>2. CASE "notify" \notin DOMAIN table
  <2> DEFINE names == SetToSeq(DOMAIN pool)
  <2>1. Range(names) = DOMAIN pool
    BY AllNames DEF Publishable
  <2>2. refs = [m \in DOMAIN names |->
                 [name |-> names[m], events |-> DefinedEvents(pool, names[m])]]
    BY <1>2, Zenon DEF ResolveNotify, AllNotifyRefs
  <2>3. refs[k].name \in DOMAIN pool
    <3> HIDE DEF names, pool, refs
    <3>1. k \in DOMAIN refs
      BY DEF refs, pool
    <3> QED
      BY <2>1, <2>2, <3>1 DEF Range
  <2> QED
    BY <2>3, ReferredIsUsed
<1>3. CASE "notify" \in DOMAIN table
  <2> DEFINE entry == AsRefs(table.notify)[k]
  <2>1. /\ k \in DOMAIN table.notify
        /\ Key(table, "notify", <<>>) = table.notify
        /\ IsInline(entry) =>
              refs[k].name = GeneratedName(table.name, entry.type, k)
        /\ ~IsInline(entry) => refs[k].name = entry.ref
    BY <1>3, ListedRefs DEF Key
  <2>2. CASE IsInline(entry)
    BY <1>1, <2>1, <2>2, NotifyEntry DEF AcceptedTable
  <2>3. CASE ~IsInline(entry)
    <3>1. refs[k].name \in DOMAIN pool
      BY <1>1, <2>1, <2>3, NotifyForms
    <3> QED
      BY <3>1, ReferredIsUsed
  <2> QED
    BY <2>2, <2>3
<1> QED
  BY <1>2, <1>3

LEMMA NoneIsMissing ==
  ASSUME Inv, HasConfig
  PROVE  Attached
<1> SUFFICES ASSUME NEW i \in DOMAIN config.instances,
                    NEW k \in DOMAIN config.instances[i].notify
             PROVE  config.instances[i].notify[k].name \in DOMAIN config.notify
  BY DEF Attached, Range
<1>1. DOMAIN config.notify = UsedDefinitions(doc) \cup Generated
  BY LoadedIsPublishable DEF ResolveNotifiers, Generated
<1> QED
  BY <1>1, LoadedIsPublishable, RefsAreDeclared

\* attachNotify: conns[ref.Name] is never nil.
THEOREM ConnectionsExist == Spec => [](stage # "panic")
<1>1. Init => stage # "panic"
  BY DEF Init
<1>2. ASSUME Inv, stage # "panic", [Next]_vars
      PROVE  (stage # "panic")'
  <2>1. CASE AttachNotify
    <3>1. HasConfig
      BY <2>1 DEF AttachNotify, HasConfig
    <3>2. Attached
      BY <1>2, <3>1, NoneIsMissing
    <3> QED
      BY <2>1, <3>2 DEF AttachNotify
  <2>2. CASE Next /\ ~AttachNotify
    BY <1>2, <2>2 DEF Next, LoadFails, LoadConfig, BuildFails, BuildInstances,
          Validate, AttachFails, PrintSummary, PrepareHealth, Stop, Ended, Ask,
          Fail, Proceed, vars
  <2>3. CASE UNCHANGED vars
    BY <1>2, <2>3 DEF vars
  <2> QED
    BY <1>2, <2>1, <2>2, <2>3
<1> QED
  BY <1>1, <1>2, InvHolds, PTL DEF Spec

IsPings(hooks) == hooks = <<>> \/ hooks = <<[is |-> "ping"]>>

\* The hooks of an instance: the ping, those of its notifiers once they are
\* attached, and the recorder when it runs.
HooksAre(i) ==
    LET hooks == instances[i].hooks
    IN  /\ stage \in {"validate", "attach"} => IsPings(hooks)
        /\ stage \in {"summary", "health"} =>
              \E pings : IsPings(pings) /\ hooks = pings \o Sends(i)
        /\ stage = "run" =>
              \E pings : /\ IsPings(pings)
                         /\ \/ hooks = pings \o Sends(i)
                            \/ hooks = Append(pings \o Sends(i), Health)

HooksInv == \A i \in DOMAIN instances : HooksAre(i)

LEMMA PingsFirst ==
  ASSUME NEW instance
  PROVE  IsPings(BuildInstance(instance).hooks)
<1>1. BuildInstance(instance).hooks =
         IF instance.ping_url = "" THEN <<>> ELSE <<[is |-> "ping"]>>
  BY Zenon DEF BuildInstance
<1> QED
  BY <1>1, Zenon DEF IsPings

\* What attachNotify appends.
LEMMA AttachSends ==
  ASSUME Inv, AttachNotify, NEW i \in DOMAIN instances
  PROVE  /\ Sends(i)' = Sends(i)
         /\ DOMAIN config.notify = {} =>
               instances'[i] = instances[i] /\ Sends(i) = <<>>
         /\ DOMAIN config.notify # {} =>
               instances'[i].hooks = instances[i].hooks \o Sends(i)
<1>1. /\ HasConfig /\ HasInstances /\ stage = "attach"
      /\ UNCHANGED <<doc, env, config>>
  BY DEF AttachNotify, HasConfig, HasInstances, input
<1>2. Attached
  BY <1>1, NoneIsMissing
<1>3. /\ Publishable /\ i \in DOMAIN Instances(doc)
      /\ config.instances[i].notify =
            ResolveNotify(Pool(doc, "notify"), Instances(doc)[i])
      /\ config.notify = ResolveNotifiers(doc, env)
      /\ i \in DOMAIN config.instances
  BY <1>1, LoadedIsPublishable DEF Inv
<1>4. Sends(i)' = Sends(i)
  BY <1>1 DEF Sends
<1> DEFINE refs == config.instances[i].notify
<1>5. Sends(i) = [k \in DOMAIN refs |->
                    [is |-> "notify", from |-> config.notify[refs[k].name].from,
                     events |-> refs[k].events]]
  BY <1>3 DEF Sends
<1>6. \A k \in DOMAIN refs : refs[k].name \in DOMAIN config.notify
  BY <1>2, <1>3 DEF Attached, Range
<1>7. ASSUME DOMAIN config.notify = {}
      PROVE  instances'[i] = instances[i] /\ Sends(i) = <<>>
  <2>1. DOMAIN refs = {}
    BY <1>6, <1>7
  <2>2. Sends(i) = <<>>
    BY <1>5, <2>1
  <2> QED
    BY <1>7, <2>2 DEF AttachNotify
<1>8. ASSUME DOMAIN config.notify # {}
      PROVE  instances'[i].hooks = instances[i].hooks \o Sends(i)
  <2>1. instances'[i] =
           [instances[i] EXCEPT !.hooks = instances[i].hooks \o NotifyHooks(i)]
    BY <1>2, <1>8 DEF AttachNotify
  <2>2. "hooks" \in DOMAIN instances[i]
    BY <1>1 DEF Inv, IsBuilt, Fields5
  <2>3. NotifyHooks(i) = Sends(i)
    <3>1. \A name \in DOMAIN config.notify :
             conns'[name].from = config.notify[name].from
      BY DEF AttachNotify, Connect
    <3> QED
      BY <1>5, <1>6, <3>1 DEF NotifyHooks, EventsFor
  <2> QED
    BY <2>1, <2>2, <2>3
<1> QED
  BY <1>4, <1>7, <1>8

LEMMA HooksNext ==
  ASSUME Inv, HooksInv, [Next]_vars
  PROVE  HooksInv'
<1>1. CASE \/ LoadFails \/ BuildFails \/ AttachFails \/ LoadConfig
           \/ PrintSummary \/ Stop
  BY <1>1 DEF LoadFails, BuildFails, AttachFails, LoadConfig, PrintSummary,
              Stop, Fail, Proceed, HooksInv, HooksAre
<1>2. CASE BuildInstances
  <2>1. /\ stage' = "validate" /\ DOMAIN instances' = DOMAIN config.instances
        /\ \A i \in DOMAIN instances' :
              instances'[i] = BuildInstance(config.instances[i])
    BY <1>2 DEF BuildInstances, Proceed
  <2>2. \A i \in DOMAIN instances' : IsPings(instances'[i].hooks)
    BY <2>1, PingsFirst
  <2> QED
    BY <2>1, <2>2 DEF HooksInv, HooksAre
<1>3. CASE Validate
  <2>1. /\ stage = "validate" /\ stage' \in {"attach", "done"}
        /\ instances' = instances
    BY <1>3 DEF Validate, Proceed, Fail
  <2> QED
    BY <2>1 DEF HooksInv, HooksAre
<1>4. CASE AttachNotify
  <2>1. /\ stage = "attach" /\ stage' \in {"panic", "summary", "health"}
        /\ DOMAIN instances' = DOMAIN instances
    BY <1>4 DEF AttachNotify
  <2>2. ASSUME NEW i \in DOMAIN instances
        PROVE  \E pings : /\ IsPings(pings)
                          /\ instances'[i].hooks = pings \o Sends(i)'
    <3>1. IsPings(instances[i].hooks)
      BY <2>1, <2>2 DEF HooksInv, HooksAre
    <3>2. CASE DOMAIN config.notify = {}
      <4>1. instances'[i] = instances[i] /\ Sends(i)' = <<>>
        BY <1>4, <3>2, AttachSends
      <4>2. instances[i].hooks \o <<>> = instances[i].hooks
        BY <3>1, ConcatEmptySeq DEF IsPings
      <4> QED
        BY <3>1, <4>1, <4>2
    <3>3. CASE DOMAIN config.notify # {}
      BY <1>4, <3>1, <3>3, AttachSends
    <3> QED
      BY <3>2, <3>3
  <2> QED
    BY <2>1, <2>2 DEF HooksInv, HooksAre
<1>5. CASE PrepareHealth
  <2>1. /\ stage = "health" /\ stage' = "run"
        /\ DOMAIN instances' = DOMAIN instances
        /\ UNCHANGED <<doc, env>>
    BY <1>5 DEF PrepareHealth, Proceed, input
  <2>2. ASSUME NEW i \in DOMAIN instances PROVE HooksAre(i)'
    <3>1. PICK pings : /\ IsPings(pings)
                       /\ instances[i].hooks = pings \o Sends(i)
      BY <2>1, <2>2 DEF HooksInv, HooksAre
    <3>2. Sends(i)' = Sends(i)
      BY <2>1 DEF Sends
    <3>3. "hooks" \in DOMAIN instances[i]
      BY <2>1 DEF Inv, HasConfig, HasInstances, IsBuilt, Fields5
    <3>4. \/ instances'[i].hooks = instances[i].hooks
          \/ instances'[i].hooks = Append(instances[i].hooks, Health)
      BY <1>5, <2>2, <3>3 DEF PrepareHealth, Health
    <3>5. \/ instances'[i].hooks = pings \o Sends(i)'
          \/ instances'[i].hooks = Append(pings \o Sends(i)', Health)
      BY <3>1, <3>2, <3>4
    <3> QED
      BY <2>1, <3>1, <3>5 DEF HooksAre
  <2> QED
    BY <2>1, <2>2 DEF HooksInv
<1>6. CASE \/ Ended \/ UNCHANGED vars
           \/ \E i \in DOMAIN instances :
                 \E r \in DOMAIN instances[i].retrievers : Ask(i, r)
  <2>1. UNCHANGED <<doc, env, stage, instances>>
    BY <1>6 DEF Ended, Ask, vars, input
  <2>2. \A i : Sends(i)' = Sends(i)
    BY <2>1 DEF Sends
  <2>3. \A i \in DOMAIN instances : HooksAre(i)' = HooksAre(i)
    BY <2>1, <2>2 DEF HooksAre
  <2> QED
    BY <2>1, <2>3 DEF HooksInv
<1> QED
  BY <1>1, <1>2, <1>3, <1>4, <1>5, <1>6 DEF Next

\* attachNotify: an instance publishes to exactly the notifiers its document
\* names for it, once to each, with the right events, whatever the document
\* is, if no two generated names are the same.
THEOREM HooksReach ==
  ASSUME \A d \in Documents : NamesAreTold(d)
  PROVE  Spec => []HooksReachWhatTheyName
<1>1. Init => HooksInv
  BY DEF Init, HooksInv
<1>2. Inv /\ HooksInv /\ [Next]_vars => HooksInv'
  BY HooksNext
<1>3. ASSUME Inv, HooksInv, stage # "panic"
      PROVE  HooksReachWhatTheyName
  <2> SUFFICES ASSUME stage = "run", NEW i \in DOMAIN instances
               PROVE  LET hooks == instances[i].hooks
                          at == NotifyHooksOf(i)
                      IN  /\ {[from |-> hooks[k].from,
                               events |-> hooks[k].events] : k \in at}
                                = Wanted(i)
                          /\ \A j, k \in at :
                                hooks[j].from = hooks[k].from => j = k
    BY <1>3 DEF HooksReachWhatTheyName
  <2> DEFINE hooks == instances[i].hooks
             sent  == Sends(i)
  <2>1. Publishable /\ NamesAreTold(doc) /\ i \in DOMAIN Instances(doc)
    BY <1>3, LoadedIsPublishable DEF HasConfig, HasInstances, Inv
  <2>2. SendsWhatIsWanted(i)
    BY <2>1, SendsToAll, SendsToListed
  <2>3. PICK pings : /\ IsPings(pings)
                     /\ \/ hooks = pings \o sent
                        \/ hooks = Append(pings \o sent, Health)
    BY <1>3 DEF HooksInv, HooksAre
  <2> DEFINE n == Len(pings)
  <2>4. /\ n \in Nat
        /\ NotifyHooksOf(i) = {n + k : k \in DOMAIN sent}
        /\ \A k \in DOMAIN sent : hooks[n + k] = sent[k]
    <3>1. IsList(sent) /\ \A k \in DOMAIN sent : sent[k].is = "notify"
      BY <2>2 DEF SendsWhatIsWanted
    <3>2. NotifyHooksOf(i) = {k \in DOMAIN hooks : hooks[k].is = "notify"}
      BY DEF NotifyHooksOf
    <3> HIDE DEF hooks, sent
    <3> QED
      BY <2>3, <3>1, <3>2, HooksBetween DEF IsPings
  <2>5. {Reached(hooks[k]) : k \in NotifyHooksOf(i)} =
        {Reached(sent[k]) : k \in DOMAIN sent}
    <3> HIDE DEF hooks, sent, n
    <3> QED
      BY <2>4
  <2>6. {Reached(hooks[k]) : k \in NotifyHooksOf(i)} = Wanted(i)
    BY <2>2, <2>5 DEF SendsWhatIsWanted
  <2>7. \A j, k \in NotifyHooksOf(i) : hooks[j].from = hooks[k].from => j = k
    <3>1. \A j, k \in DOMAIN sent : sent[j].from = sent[k].from => j = k
      BY <2>2 DEF SendsWhatIsWanted
    <3> HIDE DEF hooks, sent, n
    <3> QED
      BY <2>4, <3>1
  <2> QED
    BY <2>6, <2>7 DEF Reached
<1> QED
  BY <1>1, <1>2, <1>3, InvHolds, ConnectionsExist, PTL DEF Spec

=============================================================================
