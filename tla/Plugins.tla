------------------------------ MODULE Plugins ------------------------------
(***************************************************************************)
(* The plugin registry and the decoding of parameters: plugin/registry and *)
(* plugin/decode, with the configuration structs and constructors of some  *)
(* plugins, one of each family. A parameter block is a function from the   *)
(* names the file has to their values; of the parameters of a plugin those *)
(* are kept that the properties tell apart. All values are strings.        *)
(*                                                                         *)
(* Problems are sets of words: what an error is about, without its text.   *)
(***************************************************************************)
EXTENDS FiniteSets, Naturals, Sequences

Problem(wrong, word) == IF wrong THEN {word} ELSE {}

\* The value of a key, or the default if the table has none.
Key(table, key, default) == IF key \in DOMAIN table THEN table[key]
                                                    ELSE default

\* strings.ToLower, on the words the model has in more than one spelling.
Spellings == [Family |-> "family", Zone |-> "zone", IPv4 |-> "ipv4"]
Lower(word) == Key(Spellings, word, word)

Required == "(required)"      \* in place of a default
NotText  == "(not a string)"  \* a value of another type of TOML

-----------------------------------------------------------------------------
(* The types                                                               *)

\* ipify, icanhazip, identme and ifconfigco are the same code.
WebRetrievers == {"ipify", "icanhazip"}
RetrieverTypes == WebRetrievers \cup {"2ip", "interface"}
ProviderTypes == {"regru", "duckdns"}
NotifierTypes == {"redis"}

\* What the build has registered.
Registered(kind, build) ==
    CASE kind = "retriever" -> RetrieverTypes
      [] kind = "provider"  -> ProviderTypes
      [] kind = "notify"    -> IF build.notify THEN NotifierTypes ELSE {}

\* The parameters of a type, each with its default.
Fields(type) ==
    CASE type \in WebRetrievers ->
            [base_url |-> "https://service", family |-> "ipv4",
             proxy |-> "direct"]
      [] type = "2ip" ->
            [base_url |-> "https://service", proxy |-> "direct"]
      [] type = "interface" ->
            [name |-> Required, family |-> "ipv6", network |-> ""]
      [] type = "regru" ->
            [zone |-> Required, rr_name |-> Required, password |-> Required]
      [] type = "duckdns" -> [domain |-> Required, token |-> Required]
      [] type = "redis" ->
            [address |-> Required, topic_prefix |-> "dnspatch.events."]

\* Parameters with the option "secret".
Secret == {"password", "token", "address"}

-----------------------------------------------------------------------------
(* Decoding                                                                *)

\* The names in a block that match a parameter: names match ignoring case.
Given(params, key) == {name \in DOMAIN params : Lower(name) = key}

\* matchParams, and assignValue for a value of another type.
DecodeProblems(fields, params) ==
    Problem(\E name \in DOMAIN params : Lower(name) \notin DOMAIN fields,
            "unknown parameter")
    \cup Problem(\E key \in DOMAIN fields :
                    Cardinality(Given(params, key)) > 1,
                 "parameters that differ in case")
    \cup Problem(\E key \in DOMAIN fields :
                    fields[key] = Required /\ Given(params, key) = {},
                 "required parameter")
    \cup Problem(\E name \in DOMAIN params : params[name] = NotText,
                 "type of a parameter")

\* A default is used only for a parameter that is not given.
Decode(fields, params) ==
    [key \in DOMAIN fields |->
        IF Given(params, key) = {}
        THEN fields[key]
        ELSE params[CHOOSE name \in Given(params, key) : TRUE]]

-----------------------------------------------------------------------------
(* Constructors                                                            *)

KnownFamilies == {"ipv4", "ipv6", "dual"}

\* newRetriever of ipify: httpx.ValidateBaseURL refuses what is not a URL.
WebProblems(config) ==
    Problem(Lower(config.family) \notin KnownFamilies, "family")
    \cup Problem(config.base_url = "", "base_url")

TwoIPProblems(config) == Problem(config.base_url = "", "base_url")

InterfaceProblems(config) ==
    Problem(Lower(config.family) \notin KnownFamilies, "family")
    \cup Problem(config.name = "", "name")

RedisProblems(config) == Problem(config.address = "", "address")

ConstructorProblems(type, config) ==
    CASE type \in WebRetrievers -> WebProblems(config)
      [] type = "2ip"           -> TwoIPProblems(config)
      [] type = "interface"     -> InterfaceProblems(config)
      [] type = "redis"         -> RedisProblems(config)
      [] OTHER                  -> {}

\* BuildRetriever, BuildProvider, BuildNotifier.
BuildProblems(kind, plugin, build) ==
    IF plugin.type \notin Registered(kind, build) THEN {"unknown type"}
    ELSE IF DecodeProblems(Fields(plugin.type), plugin.params) # {}
    THEN DecodeProblems(Fields(plugin.type), plugin.params)
    ELSE ConstructorProblems(plugin.type,
                             Decode(Fields(plugin.type), plugin.params))

\* A plugin that was built: its type and its decoded configuration.
Built(plugin) ==
    [type |-> plugin.type,
     config |-> Decode(Fields(plugin.type), plugin.params)]

=============================================================================
