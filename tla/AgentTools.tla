------------------------------- MODULE AgentTools -------------------------------
(***************************************************************************)
(* The tools an agent has in `vest scan` (commands/agent_tools.rs), what   *)
(* they may reach (net_scope.rs, safety.rs) and what of their results      *)
(* enters the context of the model (tool_registry.rs, egress.rs).  A call  *)
(* has been approved here: ToolApproval has the approval.  PathScope says  *)
(* which paths, ScopedExchange which requests are in scope; here an        *)
(* argument is in scope, or not, or missing.                               *)
(***************************************************************************)
EXTENDS Integers, Sequences, FiniteSets

CONSTANTS
    AtSessions, \* sessions: what may leave, whether memory may be simulated, the scope
    AtFeatures, \* features of the build: "browser" or none
    AtMaxCalls  \* bound of the run: calls of a session

Sources == {"file", "target", "memory", "secret"}
IsSession(session) == session.leaves \subseteq Sources /\ session.simulate \in BOOLEAN
ASSUME ToolsAssumption ==
    /\ AtSessions # {} /\ \A session \in AtSessions : IsSession(session)
    /\ AtFeatures \subseteq {"browser"} /\ AtMaxCalls \in Nat

VARIABLES
    atSession,
    atContext,  \* what has entered the context: see Entry
    atCalls,    \* calls made so far
    atStage     \* "idle", "open"

atVars == <<atSession, atContext, atCalls, atStage>>

-----------------------------------------------------------------------------
(* Effects and classes *)

Tool(effect, class) == [effect |-> effect, class |-> class]
BuiltIn ==
    [web_scan |-> Tool("ActiveNetworkProbe", "TargetContent"),
     file_scan |-> Tool("LocalFileContentRead", "LocalContent"),
     memory_scan |-> Tool("ProcessMemoryRead", "ProcessMemory"),
     http_get |-> Tool("PassiveNetworkRequest", "TargetContent"),
     http_post |-> Tool("StateChangingNetworkRequest", "TargetContent"),
     read_file |-> Tool("LocalFileContentRead", "LocalContent"),
     list_files |-> Tool("LocalMetadataRead", "LocalMetadata"),
     browser_inspect |-> Tool("ActiveNetworkProbe", "TargetContent"),
     scan_for_secrets |-> Tool("LocalFileContentRead", "PotentiallySecretBearing")]
Registry == [tool \in DOMAIN BuiltIn \ (IF "browser" \in AtFeatures THEN {} ELSE {"browser_inspect"}) |-> BuiltIn[tool]]

\* `vest policy explain` has a catalog of its own: all of them, whatever the build, and
\* one class that is not the registry's.
Catalog == [BuiltIn EXCEPT !["scan_for_secrets"].class = "LocalContent"]

\* explicit_effect_for_tool: names without a definition at hand.
ExplicitEffect(tool) ==
    CASE tool \in DOMAIN BuiltIn -> BuiltIn[tool].effect
      [] tool = "read_memory" -> "ProcessMemoryRead"
      [] tool \in {"write_memory", "write_process", "inject", "inject_dll", "write_file", "modify_file", "create_file"} -> "LocalWrite"
      [] tool \in {"execute_command", "run_shell", "shell_exec"} -> "CommandExecution"
      [] tool = "list_processes" -> "ProcessMetadataRead"
      [] OTHER -> "Unknown"

ClassifyToolResult(effect) ==
    CASE effect = "PureComputation" -> "PublicNonSensitive"
      [] effect \in {"LocalMetadataRead", "ProcessMetadataRead"} -> "LocalMetadata"
      [] effect = "LocalFileContentRead" -> "LocalContent"
      [] effect = "NetworkMetadataRead" -> "TargetMetadata"
      [] effect \in {"PassiveNetworkRequest", "ActiveNetworkProbe", "StateChangingNetworkRequest"} -> "TargetContent"
      [] effect = "ProcessMemoryRead" -> "ProcessMemory"
      [] effect = "CredentialAccess" -> "CredentialMaterial"
      [] effect \in {"LocalWrite", "CommandExecution"} -> "PotentiallySecretBearing"
      [] OTHER -> "Prohibited"

\* What a simulated call is taken to carry, when only its effect is said.
DefaultEgress(effect) ==
    CASE effect \in {"LocalMetadataRead", "LocalFileContentRead", "ProcessMemoryRead"} -> ClassifyToolResult(effect)
      [] effect = "LocalWrite" -> "LocalContent"
      [] effect \in {"NetworkMetadataRead", "PassiveNetworkRequest", "ActiveNetworkProbe", "StateChangingNetworkRequest"} -> "TargetContent"
      [] effect \in {"CommandExecution", "CredentialAccess"} -> "PotentiallySecretBearing"
      [] OTHER -> "PublicNonSensitive"

EffectPosture(effect) ==
    CASE effect = "Unknown" -> "deny"
      [] effect \in {"PureComputation", "LocalMetadataRead", "NetworkMetadataRead", "PassiveNetworkRequest",
                     "ProcessMetadataRead"} -> "allow"
      [] OTHER -> "ask"

\* What `policy explain --tool --effect` simulates; "none" stands for an absent option,
\* "Unknown" also for an effect of no known name.
SimIdentity(tool, effect, known) ==
    CASE tool \in DOMAIN Catalog -> Tool(IF effect = "none" THEN Catalog[tool].effect ELSE effect, Catalog[tool].class)
      [] tool = "none" /\ effect \in known -> Tool(effect, DefaultEgress(effect))
      [] OTHER -> Tool("InvalidInput", "InvalidInput")

Rank ==
    [PublicNonSensitive |-> 0, UserAuthored |-> 1, LocalMetadata |-> 2, TargetMetadata |-> 2, TargetContent |-> 3,
     LocalContent |-> 4, PotentiallySecretBearing |-> 5, ProcessMemory |-> 6, CredentialMaterial |-> 7, Prohibited |-> 7]
\* Seeded bug: what the effect says counts, not what the tool declares.
MoreRestrictive_Effect(declared, classified) == classified

MoreRestrictive(declared, classified) == IF Rank[declared] >= Rank[classified] THEN declared ELSE classified

-----------------------------------------------------------------------------
(* What is in scope *)

\* contains_url: private hosts first, then the tests' scope, then the origins.
ContainsUrl(scope, url) ==
    CASE ~url.valid -> "InvalidUrl"
      [] url.valid /\ scope.deny /\ url.private -> "PrivateOrMetadataTarget"
      [] url.valid /\ ~(scope.deny /\ url.private) /\ scope.unrestricted -> "yes"
      [] url.valid /\ ~(scope.deny /\ url.private) /\ ~scope.unrestricted /\ scope.origins = {} -> "NoOrigins"
      [] OTHER -> IF url.origin \in scope.origins THEN "yes" ELSE "OutsideScope"

\* host_equals: the same text, the same origin, or of what is no URL the same host.
HostEquals(candidate, pattern) ==
    \/ candidate.text = pattern.text
    \/ candidate.valid /\ pattern.valid /\ candidate.origin = pattern.origin
    \/ ~(candidate.valid /\ pattern.valid) /\ candidate.host = pattern.host

\* is_target_allowed: blocked first; with a list of allowed ones, only those.
IsTargetAllowed(target, deny, blocked, allowed) ==
    /\ ~(deny /\ target.private)
    /\ \A pattern \in blocked : ~HostEquals(target, pattern)
    /\ allowed = {} \/ \E pattern \in allowed : HostEquals(target, pattern)

-----------------------------------------------------------------------------
(* The handlers *)

MaxChars == 8192
ReadsPath == {"file_scan", "read_file", "list_files"}
ReadsUrl == {"web_scan", "http_get", "http_post", "browser_inspect"}
\* What a tool's answer is made of.
SourceOf(tool) ==
    CASE tool \in {"file_scan", "read_file"} -> "file"
      [] tool \in ReadsUrl -> "target"
      [] tool = "memory_scan" -> "memory"
      [] tool = "scan_for_secrets" -> "secret"
      [] OTHER -> "names"

\* The most an answer holds, in characters; the rest of a page or file is cut off,
\* and memory that must not be simulated is only said to be unsupported.
MostOf(tool, chars) ==
    CASE tool = "memory_scan" /\ ~atSession.simulate -> 200
      [] tool = "http_get" /\ chars > 8000 -> 8000
      [] tool = "http_post" /\ chars > 4000 -> 4000
      [] tool = "read_file" /\ chars > 10240 -> 10240
      [] OTHER -> chars

\* Without a path list_files takes ".", without a pid memory_scan takes 0.
NeedsArgument(tool) == tool \notin {"list_files", "memory_scan"}
\* A browser goes where the page sends it; the scoped client looks at every redirect.
ChecksRedirects == {"web_scan", "http_get", "http_post"}
HandlerError(tool, argument) ==
    CASE argument = "missing" /\ NeedsArgument(tool) -> "MissingParameter"
      [] argument = "outside" /\ tool \in ReadsPath \cup ReadsUrl -> "ApprovalDenied"
      [] argument = "redirected" /\ tool \in ChecksRedirects -> "Redirect"
      [] argument = "failing" /\ tool \in ReadsPath -> "Io"
      [] argument = "failing" /\ tool \in ReadsUrl -> "Client"
      [] OTHER -> "none"

-----------------------------------------------------------------------------
(* The way into the context *)

\* What a call leaves in the context: contents of the tool's answer, a stub that stands
\* for them, or the text of an error; what that is made of, and how many characters of it
\* were taken.  (The text in the context may be longer than what was taken: it is quoted,
\* and escaped once more when it was cut off.)
Entry(tool, holds, of, taken) == [tool |-> tool, holds |-> holds, of |-> of, taken |-> taken]

\* The flag that lets a class leave; other classes need none.
FlagFor(class) ==
    CASE class = "ProcessMemory" -> {"memory"}
      [] class = "LocalContent"  -> {"file"}
      [] class = "TargetContent" -> {"target"}
      [] class = "PotentiallySecretBearing" -> {"secret"}
      [] OTHER -> {}

\* bound_tool_result: what it takes of an answer of so many characters, which it leaves
\* alone or puts the beginning of, as a string, into an answer of its own.  Its measure is
\* bytes, its cut is of characters.  Redaction, which is last, may put other text in
\* place of some of it.
Bounded(chars) == IF chars <= MaxChars THEN chars ELSE MaxChars

\* filter_for_model: an error that says no more, a stub of metadata, or the bounded,
\* redacted result.
FilterForModel(tool, class, leaves, chars) ==
    CASE class \in {"CredentialMaterial", "Prohibited"} -> Entry(tool, "error", "names", 0)
      [] class \notin {"CredentialMaterial", "Prohibited"} /\ ~(FlagFor(class) \subseteq leaves) -> Entry(tool, "stub", "names", 0)
      [] OTHER -> Entry(tool, "content", SourceOf(tool), Bounded(chars))

\* An error that comes of a redirect has the URL the target wrote; others have the names
\* the call gave.
Quotes(error) == IF error = "Redirect" THEN "target" ELSE "names"

\* execute_authorised: only what the handler answers is filtered; its error is returned as
\* it is, whatever its length.
ExecuteAuthorised(tool, argument, chars) ==
    LET class == MoreRestrictive(Registry[tool].class, ClassifyToolResult(Registry[tool].effect))
        error == HandlerError(tool, argument)
    IN  IF error # "none" THEN Entry(tool, "error", Quotes(error), chars)
        ELSE FilterForModel(tool, class, atSession.leaves, MostOf(tool, chars))

\* build_provider_finding_dto: evidence only if allowed, cut off and redacted.
FindingDto(allowEvidence, chars) ==
    [evidence |-> IF ~allowEvidence THEN 0 ELSE IF chars <= 512 THEN chars ELSE 512]

AtTypeOK ==
    /\ atSession \in AtSessions
    /\ atCalls \in 0..AtMaxCalls
    /\ \A entry \in atContext : /\ entry.tool \in DOMAIN Registry
                                /\ entry.holds \in {"error", "stub", "content"}
                                /\ entry.of \in Sources \cup {"names"}

AtInit ==
    /\ atSession = CHOOSE session \in AtSessions : TRUE
    /\ atContext = {} /\ atCalls = 0 /\ atStage = "idle"

\* ExecutionSession: made once, from the configuration, and never changed.
OpenSession(session) ==
    /\ atStage = "idle"
    /\ atSession' = session /\ atStage' = "open"
    /\ UNCHANGED <<atContext, atCalls>>

\* A call that was approved: what comes of it, result or error, is a message to the model.
CallTool(tool, argument, chars) ==
    /\ atStage = "open" /\ atCalls < AtMaxCalls
    /\ atCalls' = atCalls + 1
    /\ atContext' = atContext \cup {ExecuteAuthorised(tool, argument, chars)}
    /\ UNCHANGED <<atSession, atStage>>

Arguments == {"inside", "outside", "missing", "failing", "redirected"}
AtNext ==
    \/ \E session \in AtSessions : OpenSession(session)
    \/ \E tool \in DOMAIN Registry, argument \in Arguments, chars \in {100, 9000} :
           CallTool(tool, argument, chars)
AtSpec == AtInit /\ [][AtNext]_atVars

-----------------------------------------------------------------------------
\* Whatever tools are called, what enters the context is made of names, or of what the
\* session lets leave: files, pages, memory, or text searched for secrets.  Only the text of
\* an error escapes that, and only with the URL a target redirects to.  Of the answer of a
\* tool no more is taken than the limit.
NothingLeavesUnasked ==
    \A entry \in atContext :
        /\ \/ entry.of \in atSession.leaves \cup {"names"}
           \/ entry.holds = "error" /\ entry.of = "target"
        /\ entry.holds # "error" => entry.taken <= MaxChars
=============================================================================
