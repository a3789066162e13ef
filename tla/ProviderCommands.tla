---------------------------- MODULE ProviderCommands ----------------------------
(***************************************************************************)
(* Which client a provider's name stands for and what it takes to have     *)
(* one; and the commands of `vest providers`, of which only `test` and     *)
(* `models` ask a server, under a timeout of their own.                    *)
(***************************************************************************)
EXTENDS ProviderClients, FiniteSets

CONSTANTS
    PcEnvironments, \* sets of providers whose key is in the environment
    PcRequests      \* what is tested: sets of one name, or AllProviders

ASSUME CommandsAssumption == PcEnvironments # {}

AllProviders == {"openai", "anthropic", "deepseek", "google", "ollama", "groq", "openrouter"}

VARIABLES
    pcKeys,     \* the providers whose key is set
    pcLeft,     \* providers that are still to be tested
    pcResult,   \* provider -> how its test came out
    pcExit      \* "none" while the command runs, "idle" before

pcVars == <<pcKeys, pcLeft, pcResult, pcExit>>

PcTypeOK ==
    /\ pcKeys \in PcEnvironments
    /\ \A p \in DOMAIN pcResult : pcResult[p] \in {"ok", "skipped", "failed"}
    /\ pcLeft \cap DOMAIN pcResult = {}
    /\ pcExit \in {"idle", "none", "success", "provider"}

PcInit ==
    /\ pcKeys = CHOOSE keys \in PcEnvironments : TRUE
    /\ pcLeft = {} /\ pcResult = <<>> /\ pcExit = "idle"

-----------------------------------------------------------------------------
\* Ollama's key is never looked for; an empty key is none.
KeySet(name) == name = "ollama" \/ name \in pcKeys

ClientOf(name) == IF name \in {"anthropic", "google"} THEN name ELSE "openai"

\* A client, or the error of the configuration.
CreateProvider(name) ==
    IF name \in AllProviders /\ KeySet(name) THEN ClientOf(name) ELSE "Config"

\* The model: of the provider's table, of the default provider, or built in.
DefaultModel(name, table, default) ==
    CASE name \in DOMAIN table -> table[name]
      [] name \notin DOMAIN table /\ default.provider = name -> default.model
      [] OTHER -> "built in"

\* Without a name everything is tested, the default provider too, whatever its name;
\* without a table of providers nothing.
ProvidersToCheck(requested, configured, default) ==
    CASE requested # "all" -> {requested}
      [] requested = "all" /\ configured -> AllProviders \cup {default}
      [] OTHER -> {}

\* `providers list` and `status` only look at keys; `set-key` only says where to
\* put one; `pull` runs ollama.
KeyStatus(name) == IF KeySet(name) THEN "set" ELSE "missing"
PullExit(installed, succeeds) == IF installed /\ ~succeeds THEN "provider" ELSE "success"

TestBegins(names, keys) ==
    /\ pcExit = "idle"
    /\ pcKeys' = keys /\ pcLeft' = names
    /\ pcResult' = <<>>
    /\ pcExit' = IF names = {} THEN "success" ELSE "none"

\* One provider is tested: no client, an answer in any form, an error or 30 seconds.
TestOne(name, result) ==
    /\ pcExit = "none" /\ name \in pcLeft
    /\ pcLeft' = pcLeft \ {name}
    /\ pcResult' = [p \in DOMAIN pcResult \cup {name} |-> IF p = name THEN result ELSE pcResult[p]]
    /\ pcExit' = CASE pcLeft' # {} -> "none"
                   [] pcLeft' = {} /\ (\E p \in DOMAIN pcResult' : pcResult'[p] # "ok") -> "provider"
                   [] OTHER -> "success"
    /\ UNCHANGED pcKeys

TestSkips(name) == CreateProvider(name) = "Config" /\ TestOne(name, "skipped")
TestHears(name, reply) ==
    /\ CreateProvider(name) # "Config"
    /\ TestOne(name, IF Outcome(CreateProvider(name), "chat", reply) \in ClientErrors THEN "failed" ELSE "ok")
TestTimesOut(name) == CreateProvider(name) # "Config" /\ TestOne(name, "failed")

PcStep ==
    \E name \in pcLeft : \/ TestSkips(name) \/ TestTimesOut(name)
                         \/ \E reply \in Replies : TestHears(name, reply)

PcNext ==
    \/ \E names \in PcRequests, keys \in PcEnvironments : TestBegins(names, keys)
    \/ PcStep

PcFairness == WF_pcVars(PcStep)
PcSpec == PcInit /\ [][PcNext]_pcVars /\ PcFairness

-----------------------------------------------------------------------------
\* `vest providers test` ends, however many servers do not answer.
TestBegun == pcExit = "none"
TestOver == pcExit \in {"success", "provider"}
=============================================================================
