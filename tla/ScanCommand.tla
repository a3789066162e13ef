------------------------------ MODULE ScanCommand ------------------------------
(***************************************************************************)
(* How `vest scan` reads its command line and its configuration: what it   *)
(* refuses, and with which exit code, before anything is done; what the    *)
(* target is and which scanners, scopes and consents go with it.           *)
(***************************************************************************)
EXTENDS Integers, FiniteSets, Sequences, SequencesExt

CONSTANT CliFeatures    \* features vest is built with: "browser" or none
ASSUME CommandAssumption == CliFeatures \subseteq {"browser"}

TargetTypes == {"process", "binary", "web", "network", "browser", "file"}
KnownScanners == {"web", "binary", "memory", "network", "files", "nuclei"} \cup CliFeatures
SeverityRank == [critical |-> 5, high |-> 4, medium |-> 3, low |-> 2, info |-> 1]
Given(option) == option # "unset"

(***************************************************************************)
(* Exit codes by error, in the words of the table in main.rs.              *)
(***************************************************************************)
CliExitCode(error) ==
    CASE error \in {"Config", "Toml"}                                       -> "config"
      [] error = "ApprovalDenied"                                           -> "denied"
      [] error \in {"Scan", "Unsupported", "UnsupportedPlatform", "RateLimited", "Timeout"} -> "scanner"
      [] error = "Storage"                                                  -> "storage"
      [] error \in {"Provider", "ValidationFailed", "Agent"}                -> "provider"
      [] error = "FindingsGate"                                             -> "gate"
      [] error \in {"InvalidInput", "UnsupportedFormat", "TargetNotFound", "FindingNotFound"} -> "input"
      [] error \in {"Sandbox", "Internal", "Io", "Json"}                    -> "internal"

\* An error of the provider or the agents; a denial stays one.
SoftFailure(error) ==
    IF error \in {"Provider", "Agent", "ValidationFailed", "ApprovalDenied"} THEN error ELSE "Provider"

\* The errors of scanners, put into one: each is Config or Scan.
ScannerFailure(errors) == IF errors = {"Config"} THEN "Config" ELSE "Scan"
ScannerError(error) == IF error = "Config" THEN "Config" ELSE "Scan"

-----------------------------------------------------------------------------
(***************************************************************************)
(* The target.  A name is what the guess of its type looks at: whether a   *)
(* file of that name exists, whether it ends like a program, its scheme    *)
(* ("none" without "://"), what else is in it, and the path, URL, host or  *)
(* process it stands for.                                                  *)
(***************************************************************************)
IsName(n) ==
    /\ DOMAIN n = {"place", "scheme", "exists", "program", "dot", "slash", "space", "number", "colon", "private"}
    /\ n.scheme \in {"none", "http", "other"}
    /\ \A feature \in {"exists", "program", "dot", "slash", "space", "number", "colon", "private"} :
           n[feature] \in BOOLEAN

GuessType(n) ==
    CASE n.exists -> IF n.program THEN "binary" ELSE "file"
      [] ~n.exists /\ (n.scheme # "none" \/ (n.dot /\ ~n.slash /\ ~n.space)) -> "web"
      [] OTHER -> CASE n.program -> "binary"
                    [] ~n.program /\ n.number -> "process"
                    [] ~n.program /\ ~n.number /\ n.colon -> "network"
                    [] OTHER -> "file"

\* A web or browser target has a URL; a name without a scheme gets https and is
\* the host too, so "javascript:x" becomes a host; other schemes are refused.
HttpTargetAllowed(n) == n.scheme # "other"

TypeOf(args) == IF args.type = "guess" THEN GuessType(args.target) ELSE args.type
TargetAllowed(args) ==
    /\ args.type \in TargetTypes \cup {"guess"}
    /\ TypeOf(args) \in {"web", "browser"} => HttpTargetAllowed(args.target)

\* Which fields the target gets; its metadata is empty.
TargetFields(args) ==
    LET type == TypeOf(args)
        web == type \in {"web", "browser"}
    IN  {field \in {"path", "url", "pid", "host"} :
            \/ field = "path" /\ type \in {"binary", "file"}
            \/ field = "url" /\ web
            \/ field = "pid" /\ type = "process" /\ (args.pid \/ args.target.number)
            \/ field = "host" /\ (type = "network" \/ (web /\ args.target.scheme = "none"))}

\* With deny_private_targets the name, the URL and the host are looked at.
DeniedAsPrivate(args, config) == config.denyPrivate /\ args.target.private

\* The filesystem scope is the path, or the directory of a file; the network
\* scope is the origin of the URL.  Other targets have none.
FsRoot(args) ==
    CASE "path" \notin TargetFields(args) -> "nothing"
      [] "path" \in TargetFields(args) /\ args.target.exists -> "itself or its directory"
      [] OTHER -> "nothing"                       \* cannot be resolved: empty
Origins(args) == IF "url" \in TargetFields(args) THEN {"target"} ELSE {}

\* What a target of one scan shares with that of another: its type and the path,
\* URL, host or process it stands for.  A process without a pid is like no other.
LogicalTarget(args) ==
    [type |-> TypeOf(args), place |-> args.target.place, pid |-> "pid" \in TargetFields(args)]
SameLogicalTarget(a, b) == a = b /\ (a.type = "process" => a.pid)

-----------------------------------------------------------------------------
\* "file" and "fs" are the scanner "files"; empty names are left out.
Normalized(names) == {IF s \in {"file", "fs"} THEN "files" ELSE s : s \in names \ {""}}

DefaultScanners(type) ==
    CASE type = "process" -> {"memory"}
      [] type = "file"    -> {"files"}
      [] type = "browser" -> {"browser"} \cap CliFeatures
      [] OTHER            -> {type}

ProfileScanners(args, config) ==
    IF args.profile \in DOMAIN config.profiles THEN Normalized(config.profiles[args.profile].scanners) ELSE {}

SelectedScanners(args, config) ==
    CASE Normalized(args.scanners) # {} -> Normalized(args.scanners)
      [] Normalized(args.scanners) = {} /\ ProfileScanners(args, config) # {} -> ProfileScanners(args, config)
      [] OTHER -> DefaultScanners(TypeOf(args))

\* The provider; offline means none, and so does a configuration without one.
ForcedOffline(args) == args.offline
ProviderOf(args, config) ==
    CASE ForcedOffline(args)                              -> "none"
      [] ~ForcedOffline(args) /\ Given(args.provider)     -> args.provider
      [] OTHER                                            -> config.provider

\* Active probes take an allowance and a confirmation.
ProbesConsented(args, config) ==
    (args.allowProbes \/ config.allowProbes) /\ (args.confirmProbes \/ args.approveExploits)

\* A profile overrides the approvals it sets.
MergedApproval(base, override) == IF Given(override) THEN override = "yes" ELSE base

-----------------------------------------------------------------------------
(***************************************************************************)
(* What is checked before anything is done, in this order: whether it      *)
(* holds, and the error if it does not.                                    *)
(***************************************************************************)
\* The mode is the command line's, then the profile's, then the configuration's.
ModeValid(args, config) ==
    LET pattern == IF args.profile \in DOMAIN config.profiles THEN config.profiles[args.profile].pattern ELSE "unset"
    IN  "valid" = CASE Given(args.mode)                     -> args.mode
                    [] ~Given(args.mode) /\ Given(pattern) -> pattern
                    [] OTHER                                -> config.mode
SeverityValid(args) == args.failOn \in DOMAIN SeverityRank \cup {"unset"}

Checks(args, config) ==
    << [holds |-> args.named, error |-> "InvalidInput"],
       [holds |-> config.readable, error |-> "Config"],
       [holds |-> args.profile = "unset" \/ args.profile \in DOMAIN config.profiles, error |-> "InvalidInput"],
       [holds |-> args.offline => args.provider \in {"unset", "none"}, error |-> "InvalidInput"],
       [holds |-> ModeValid(args, config), error |-> "InvalidInput"],
       [holds |-> TargetAllowed(args), error |-> "InvalidInput"],
       [holds |-> TargetAllowed(args) => ~DeniedAsPrivate(args, config), error |-> "InvalidInput"],
       [holds |-> SeverityValid(args), error |-> "InvalidInput"] >>

\* What a scan keeps in its row for a resume, which has its target, provider and
\* scanners from there and not from the command line.
FrozenOf(args, config) ==
    [target |-> LogicalTarget(args), provider |-> ProviderOf(args, config), scanners |-> SelectedScanners(args, config)]

\* What a resume checks before it touches the row.  `rows` are the rows of the id:
\* one, or none.  A TARGET need not be named; one that is must be that of the row.
ResumeChecks(args, config, rows) ==
    << [holds |-> rows # {}, error |-> "InvalidInput"],
       [holds |-> \A row \in rows : row.status \notin {"completed", "cancelled"}, error |-> "InvalidInput"],
       [holds |-> args.named => TargetAllowed(args), error |-> "InvalidInput"],
       [holds |-> args.named => \A row \in rows : SameLogicalTarget(LogicalTarget(args), row.frozen.target),
        error |-> "InvalidInput"],
       [holds |-> config.readable, error |-> "Config"],
       [holds |-> args.profile = "unset" \/ args.profile \in DOMAIN config.profiles, error |-> "InvalidInput"],
       [holds |-> \A row \in rows : row.frozen.scanners # {}, error |-> "InvalidInput"] >>

FirstRefusal(checks) ==
    LET failing == {i \in DOMAIN checks : ~checks[i].holds}
    IN  IF failing = {} THEN "accepted" ELSE checks[CHOOSE i \in failing : \A j \in failing : i <= j].error

\* Only the configuration may refuse the list of profiles.
ListProfiles(config) == IF config.readable THEN "accepted" ELSE "Config"

\* Effects to approve in advance are read after the row of the scan is there.
EffectsValid(args) == args.effects \notin {"unknown", "wrong"}

-----------------------------------------------------------------------------
(***************************************************************************)
(* The gates.  A finding is a title and a severity here, and a title is    *)
(* its words and whether there is space around them; without words it is   *)
(* blank.                                                                  *)
(***************************************************************************)
Meets(severity, threshold) == SeverityRank[severity] >= SeverityRank[threshold]
\* The title, trimmed; one that is blank is never new.
BaselineKey(finding) == finding.title.words
Blank == ""
KeysOf(findings) == {BaselineKey(f) : f \in findings}
NewTitles(found, previous) == KeysOf(found) \ (KeysOf(previous) \cup {Blank})
SeverityCount(findings, severity) == Cardinality({f \in findings : f.severity = severity})

ReportFormats == {"json", "sarif", "markdown", "md", "terminal", "text"}

-----------------------------------------------------------------------------
\* Variables from the .env of the working directory, then from that of the home
\* directory: allowed ones that are not set yet.
DotenvAllowlist ==
    {"VEST_HOME", "VEST_DB_PATH", "VEST_CONFIG", "RUST_LOG", "OPENAI_API_KEY", "ANTHROPIC_API_KEY",
     "DEEPSEEK_API_KEY", "GOOGLE_API_KEY", "GROQ_API_KEY", "OPENROUTER_API_KEY", "OLLAMA_HOST",
     "OLLAMA_API_KEY"}
LoadDotenv(env, lines) ==
    FoldLeft(LAMBDA e, line : IF line.key \in DotenvAllowlist \ DOMAIN e
                              THEN [k \in DOMAIN e \cup {line.key} |-> IF k = line.key THEN line.value ELSE e[k]]
                              ELSE e,
             env, lines)

\* The database: VEST_DB_PATH, then VEST_HOME, then the home directory.
DbPath(env) ==
    CASE "VEST_DB_PATH" \in DOMAIN env -> env["VEST_DB_PATH"]
      [] "VEST_DB_PATH" \notin DOMAIN env /\ "VEST_HOME" \in DOMAIN env -> env["VEST_HOME"]
      [] OTHER -> "home"
=============================================================================
