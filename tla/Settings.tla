------------------------------- MODULE Settings -------------------------------
(***************************************************************************)
(* The configuration files: what is in them, who reads which of them, what *)
(* a reader refuses, and what `vest config` and an editor write.           *)
(*                                                                         *)
(* A key is a pair of a table and a name; <<table>> alone is a value where *)
(* a table should be.  A value is a string that says of what kind it is.   *)
(***************************************************************************)
EXTENDS Naturals, Sequences

CONSTANTS
    LookedAt,       \* known keys that are looked at
    TriedKeys,      \* keys somebody may write, known or not
    TriedValues,    \* values somebody may write
    MaxEdits        \* how many values are written (bounds TLC)

\* Values by type: "zero" and "some" are numbers, "true" and "false" truth values, others
\* texts, of which "blank" has nothing but space.
KindOf(value) ==
    CASE value \in {"zero", "some", "more"} -> "number"
      [] value \in {"true", "false"} -> "flag"
      [] OTHER -> "text"

\* The fields of every table, with their defaults: numbers, switches that are on or off, and
\* texts; "unset" is an Option without one.
Limits(names, section) == {section} \X names
Fields(numbers, on, off, texts) ==
    [name \in numbers \cup on \cup off \cup texts |->
        CASE name \in numbers -> "some" [] name \in on -> "true" [] name \in off -> "false" [] OTHER -> "text"]
Unset(names) == [name \in names |-> "unset"]

GeneralDefaults == Fields({}, {"auto_update_sinks"}, {"include_report_evidence"}, {"workspace_dir", "log_level"})
AgentDefaults == Fields({"max_concurrent_agents", "max_llm_iterations", "token_budget_per_scan"}, {},
                        {"thinking_enabled"}, {"default_pattern"})
NucleiDefaults == Fields({"timeout"}, {"enabled"}, {}, {"severity"})
MemoryDefaults == Fields({"max_memory_per_scan_mb"}, {"enabled", "pattern_scan_acceleration", "hook_detection"}, {},
                         {"suspicious_regions"})
BinaryDefaults == Fields({"max_file_size_mb"}, {"enabled", "check_mitigations"}, {"find_rop_gadgets"},
                         {"sink_catalogs"})
WebLimits == {"crawl_depth", "crawl_max_urls", "max_response_bytes", "max_redirects", "connect_timeout_ms",
              "request_timeout_seconds", "max_concurrent_requests"}
WebDefaults == Fields(WebLimits \cup {"nuclei_timeout"}, {"enabled", "respect_robots_txt", "nuclei_enabled"},
                      {"allow_active_probes"}, {"user_agent", "nuclei_severity"})
BrowserDefaults == Fields({"viewport_width", "viewport_height"},
                          {"enabled", "headless", "websocket_intercept", "local_storage_inspect",
                           "indexeddb_inspect", "wasm_inspect"}, {}, {"browser_path"})
NetworkDefaults == Fields({"packet_capture_max_mb"}, {"enabled", "protocol_analysis_llm"}, {},
                          {"interface", "capture_filter"})
FileLimits == {"max_file_size_mb", "max_depth", "max_files", "max_total_bytes"}
FilesDefaults == Fields(FileLimits, {"enabled", "extract_archives"}, {"fuzz_file_formats", "follow_symlinks"},
                        {"ignore_globs"})
ProfileDefaults == Unset({"description", "pattern", "phases", "agents", "scanners", "max_llm_iterations",
                          "token_budget_per_scan"})
ProviderDefaults == Unset({"api_key_env", "api_base", "default_model", "organization_id", "timeout_seconds",
                           "max_retries", "retry_delay_ms", "max_tokens_default", "thinking_enabled"})
SafetyDefaults ==
    Fields({"rate_limit_requests_per_second", "rate_limit_burst", "max_scan_duration_seconds",
            "max_concurrent_exploits"},
           {"write_approval", "exploit_approval", "network_write_approval", "rate_limit_enabled", "sandbox_enabled"},
           {"allow_model_egress_local_content", "allow_model_egress_process_memory",
            "allow_model_egress_target_content", "allow_model_egress_potentially_secret_bearing",
            "allow_model_egress_evidence", "deny_private_targets"},
           {"sandbox_image", "allowed_targets", "blocked_targets", "allowed_networks"})

ProviderTables == {"providers.openai", "providers.anthropic", "providers.deepseek", "providers.google",
                   "providers.ollama", "providers.groq", "providers.openrouter"}
DefaultsOf(table) ==
    CASE table = "general"         -> GeneralDefaults
      [] table = "agent"           -> AgentDefaults
      [] table = "scanner.nuclei"  -> NucleiDefaults
      [] table = "scanner.memory"  -> MemoryDefaults
      [] table = "scanner.binary"  -> BinaryDefaults
      [] table = "scanner.web"     -> WebDefaults
      [] table = "scanner.browser" -> BrowserDefaults
      [] table = "scanner.network" -> NetworkDefaults
      [] table = "scanner.files"   -> FilesDefaults
      [] table = "profiles.quick"  -> ProfileDefaults
      [] table \in ProviderTables  -> ProviderDefaults
      [] table = "safety"          -> SafetyDefaults
      [] OTHER                     -> <<>>
IsKnown(key) == Len(key) = 2 /\ key[2] \in DOMAIN DefaultsOf(key[1])

Defaults == [key \in LookedAt |-> DefaultsOf(key[1])[key[2]]]

\* What validate_config wants to be other than zero, when it is there.
NonZero ==
    Limits({"max_concurrent_agents", "max_llm_iterations", "token_budget_per_scan"}, "agent")
    \cup Limits(WebLimits, "scanner.web") \cup Limits(FileLimits, "scanner.files")
    \cup {<<"scanner.nuclei", "timeout">>, <<"scanner.binary", "max_file_size_mb">>,
          <<"scanner.network", "packet_capture_max_mb">>, <<"scanner.memory", "max_memory_per_scan_mb">>}
    \cup Limits({"max_scan_duration_seconds", "max_concurrent_exploits"}, "safety")
    \cup UNION {Limits({"timeout_seconds", "max_tokens_default"}, table) : table \in ProviderTables}
    \cup Limits({"max_llm_iterations", "token_budget_per_scan"}, "profiles.quick")
SandboxImage == <<"safety", "sandbox_image">>
RateLimits == Limits({"rate_limit_requests_per_second", "rate_limit_burst"}, "safety")

\* Tables in which a name nobody knows is refused; elsewhere it is ignored.
Strict(table) ==
    table \in {"safety", "agent", "scanner.network"} \cup ProviderTables
TopLevel == {"general", "providers", "agent", "scanner", "safety", "profiles"}
Required == {"general", "agent", "scanner"}

ASSUME SettingsAssumption ==
    /\ MaxEdits \in Nat
    /\ \A key \in LookedAt : IsKnown(key)
    /\ \A key \in TriedKeys :
           Len(key) = 2 \/ (Len(key) = 1 /\ key[1] \notin {"scanner", "providers", "profiles"})

VARIABLES
    cfFiles,    \* place -> the file there
    cfLast,     \* the last command: who read where, and what came of it
    cfWritten,  \* place -> key -> the value that was last written there (history)
    cfEdits     \* values written so far

cfVars == <<cfFiles, cfLast, cfWritten, cfEdits>>

\* The file of --config, ./vest.toml (which is its default), and that of the home.
Places == {"given", "local", "home"}
NoDocument(what) == [is |-> what, doc |-> <<>>]
Absent == NoDocument("absent")
Broken == NoDocument("broken")
TheDocument(doc) == [is |-> "document", doc |-> doc]

\* What came of a command: an error, "ok", or a configuration.
Result(is, config) == [is |-> is, config |-> config]
Nobody == [by |-> "nobody", at |-> "local", result |-> Result("none", <<>>)]

CfInit ==
    /\ cfFiles = [p \in Places |-> Absent]
    /\ cfLast = Nobody /\ cfEdits = 0
    /\ cfWritten = [p \in Places |-> <<>>]

CfTypeOK ==
    /\ \A p \in Places : cfFiles[p].is = "document" =>
           \A key \in DOMAIN cfFiles[p].doc : key \in TriedKeys \cup LookedAt
    /\ cfLast.at \in Places /\ cfEdits \in 0..MaxEdits
    /\ \A p \in Places : DOMAIN cfWritten[p] \subseteq TriedKeys \cup LookedAt

-----------------------------------------------------------------------------
(***************************************************************************)
(* Reading.                                                                *)
(***************************************************************************)
Tables(doc) == {key[1] : key \in {k \in DOMAIN doc : Len(k) = 2}}
Has(doc, key) == key \in DOMAIN doc
IsZero(doc, key) == Has(doc, key) /\ doc[key] = "zero"

\* serde: no value in place of a table, no unknown name in a strict table, no value
\* of another kind than the default's.
Parses(doc) ==
    /\ \A key \in DOMAIN doc :
         /\ Len(key) = 1 => key[1] \notin TopLevel
         /\ Len(key) = 2 /\ ~IsKnown(key) => ~Strict(key[1])
         /\ key \in LookedAt =>
              Defaults[key] = "unset" \/ KindOf(doc[key]) = KindOf(Defaults[key])
    /\ \A table \in Required : \A key \in LookedAt : key[1] = table => table \in Tables(doc)

\* Seeded bug: only the first limit of a table is looked at.
Validates_Some(doc) == ~ \E key \in NonZero \ ({"scanner.web"} \X {"crawl_max_urls"}) : IsZero(doc, key)

Validates(doc) ==
    /\ ~ \E key \in NonZero : IsZero(doc, key)
    /\ \/ ~ \E key \in RateLimits : IsZero(doc, key)
       \/ /\ Has(doc, <<"safety", "rate_limit_enabled">>)
          /\ doc[<<"safety", "rate_limit_enabled">>] = "false"
    /\ Has(doc, SandboxImage) => doc[SandboxImage] # "blank"

\* What a reader gets: a function from the known keys to values, or an error.
LoadConfig(file) ==
    IF file.is = "document" /\ Parses(file.doc) /\ Validates(file.doc)
    THEN Result("settings", [key \in LookedAt |->
                                 IF Has(file.doc, key) THEN file.doc[key] ELSE Defaults[key]])
    ELSE Result("Config", <<>>)
\* Seeded bug: a file that cannot be read is taken for one that is not there.
LoadConfigOrDefault_Silent(file) ==
    IF LoadConfig(file).is = "Config" THEN Result("settings", Defaults) ELSE LoadConfig(file)

\* A file that is not there stands for the defaults.
LoadConfigOrDefault(file) ==
    IF file = Absent THEN Result("settings", Defaults) ELSE LoadConfig(file)

\* Where a command looks: `config` and `policy` go to the home directory when
\* ./vest.toml, asked for by default, is not there; `scan` does not; `providers`
\* does, and knows no --config.
Exists(place) == cfFiles[place] # Absent
LocalOrHome == IF Exists("local") THEN "local" ELSE "home"
ResolveConfigPath(cli) == IF cli # "local" \/ Exists(cli) THEN cli ELSE LocalOrHome
PathFor(command, cli) ==
    CASE command = "scan"                            -> cli
      [] command \in {"config", "validate", "policy"} -> ResolveConfigPath(cli)
      [] command = "providers"                       -> LocalOrHome

\* `config validate` wants a file.
Read(command, cli) ==
    LET at == PathFor(command, cli)
    IN  /\ cfLast' = [by |-> command, at |-> at,
                      result |-> IF command = "validate" THEN LoadConfig(cfFiles[at])
                                 ELSE LoadConfigOrDefault(cfFiles[at])]
        /\ UNCHANGED <<cfFiles, cfWritten, cfEdits>>

-----------------------------------------------------------------------------
(***************************************************************************)
(* Writing.                                                                *)
(***************************************************************************)
\* `config init` writes the defaults to ./vest.toml unless it is there.
WriteDefaults ==
    /\ ~Exists("local")
    /\ cfFiles' = [cfFiles EXCEPT !["local"] = TheDocument(Defaults)]
    /\ cfWritten' = [cfWritten EXCEPT !["local"] = Defaults]
    /\ cfLast' = Nobody
    /\ UNCHANGED cfEdits

\* `config set` takes a key that is there, one whose table is there, and every key
\* of one part; a table that is the key itself is lost.  It does not validate.
SetTakes(doc, key) == Has(doc, key) \/ Len(key) = 1 \/ key[1] \in Tables(doc)
WithKey(doc, key, value) ==
    LET kept == {k \in DOMAIN doc : Len(key) = 1 => k[1] # key[1]}
    IN  [k \in kept \cup {key} |-> IF k = key THEN value ELSE doc[k]]

ConfigSet(cli, key, value) ==
    LET at == ResolveConfigPath(cli)
        takes == cfFiles[at].is = "document" /\ SetTakes(cfFiles[at].doc, key)
    IN  /\ IF takes
           THEN /\ cfFiles' = [cfFiles EXCEPT ![at] = TheDocument(WithKey(@.doc, key, value))]
                /\ cfWritten' = [cfWritten EXCEPT ![at] = WithKey(@, key, value)]
           ELSE UNCHANGED <<cfFiles, cfWritten>>
        /\ cfLast' = [by |-> "set", at |-> at,
                      result |-> Result(CASE cfFiles[at].is # "document" -> "Config"
                                          [] cfFiles[at].is = "document" /\ takes -> "ok"
                                          [] OTHER -> "InvalidInput", <<>>)]
        /\ cfEdits < MaxEdits /\ cfEdits' = cfEdits + 1

\* Somebody writes a file by hand, edits a line, breaks it or deletes it.
EditByHand(place, key, value) ==
    /\ cfFiles[place].is = "document"
    /\ cfFiles' = [cfFiles EXCEPT ![place] = TheDocument(WithKey(@.doc, key, value))]
    /\ cfWritten' = [cfWritten EXCEPT ![place] = WithKey(@, key, value)]
    /\ cfEdits < MaxEdits /\ cfEdits' = cfEdits + 1
    /\ cfLast' = Nobody
CopyDefaults(place) ==
    /\ ~Exists(place)
    /\ cfFiles' = [cfFiles EXCEPT ![place] = TheDocument(Defaults)]
    /\ cfWritten' = [cfWritten EXCEPT ![place] = Defaults]
    /\ cfLast' = Nobody
    /\ UNCHANGED cfEdits
Spoil(place, into) ==
    /\ Exists(place) /\ into \in {Absent, Broken}
    /\ cfFiles' = [cfFiles EXCEPT ![place] = into]
    /\ cfWritten' = [cfWritten EXCEPT ![place] = <<>>]
    /\ cfLast' = Nobody
    /\ UNCHANGED cfEdits

CfNext ==
    \/ WriteDefaults
    \/ \E place \in Places : \/ CopyDefaults(place)
                             \/ \E into \in {Absent, Broken} : Spoil(place, into)
    \/ \E key \in TriedKeys, value \in TriedValues :
         \/ \E cli \in {"given", "local"} : ConfigSet(cli, key, value)
         \/ \E place \in Places : EditByHand(place, key, value)
    \/ \E command \in {"scan", "config", "validate", "policy", "providers"}, cli \in {"given", "local"} :
         Read(command, cli)

CfSpec == CfInit /\ [][CfNext]_cfVars

-----------------------------------------------------------------------------
\* Whatever was written in whichever order, by hand or by `config set`: who reads a
\* file that is there gets, for every known key, the value written last, or the
\* default when none was, or gets nothing at all; and then no limit is zero, the
\* sandbox has an image, and no name of the safety section is unknown.
NoSilentDefaults ==
    cfLast.by \in {"scan", "config", "validate", "policy", "providers"} /\ Exists(cfLast.at)
        /\ cfLast.result.is = "settings" =>
            LET got == cfLast.result.config
                written == cfWritten[cfLast.at]
            IN  /\ cfFiles[cfLast.at] # Broken
                /\ \A key \in LookedAt :
                     /\ got[key] = IF key \in DOMAIN written THEN written[key] ELSE Defaults[key]
                     /\ key \in NonZero => got[key] # "zero"
                     /\ key = SandboxImage => got[key] # "blank"
                /\ \A key \in DOMAIN written : key[1] = "safety" => IsKnown(key)
=============================================================================
