-------------------------------- MODULE MCParts --------------------------------
(***************************************************************************)
(* The parts of Vest that share no state with each other, checked side by  *)
(* side: a behaviour is one of one part, which the variable `part` names.  *)
(* Each part is a specification of its own with its own properties; they   *)
(* are put into one module only to be checked by one run.                  *)
(***************************************************************************)
EXTENDS FallbackChain, ProviderCommands, AgentPhase, ValidatorBatch, ScanOutcome, Settings,
        WebProbes, PatternScan, LocalScans, Nuclei, PathScope, ScopedExchange, AgentTools, Database

VARIABLE part       \* the part whose behaviour this is

Parts == {"chain", "providers", "agents", "validator", "outcome", "settings", "probes", "pattern",
          "local", "nuclei", "paths", "exchange", "tools", "database"}

PartsInit ==
    /\ part \in Parts
    /\ ChInit /\ PcInit /\ AgInit /\ VlInit /\ SoInit /\ CfInit /\ WpInit
    /\ PsInit /\ LcInit /\ NuInit /\ PaInit /\ ExInit /\ AtInit /\ DbInit

\* One step of the part; the others stand still.
Chain == part = "chain" /\ ChNext
         /\ UNCHANGED <<part, pcVars, agVars, vlVars, soVars, cfVars, wpVars, psVars, lcVars, nuVars, paVars, exVars, atVars, dbVars>>
Providers == part = "providers" /\ PcNext
         /\ UNCHANGED <<part, chVars, agVars, vlVars, soVars, cfVars, wpVars, psVars, lcVars, nuVars, paVars, exVars, atVars, dbVars>>
Agents == part = "agents" /\ AgNext
         /\ UNCHANGED <<part, chVars, pcVars, vlVars, soVars, cfVars, wpVars, psVars, lcVars, nuVars, paVars, exVars, atVars, dbVars>>
Validator == part = "validator" /\ VlNext
         /\ UNCHANGED <<part, chVars, pcVars, agVars, soVars, cfVars, wpVars, psVars, lcVars, nuVars, paVars, exVars, atVars, dbVars>>
ScanRuns == part = "outcome" /\ SoNext
         /\ UNCHANGED <<part, chVars, pcVars, agVars, vlVars, cfVars, wpVars, psVars, lcVars, nuVars, paVars, exVars, atVars, dbVars>>
Configuring == part = "settings" /\ CfNext
         /\ UNCHANGED <<part, chVars, pcVars, agVars, vlVars, soVars, wpVars, psVars, lcVars, nuVars, paVars, exVars, atVars, dbVars>>
Probing == part = "probes" /\ WpNext
         /\ UNCHANGED <<part, chVars, pcVars, agVars, vlVars, soVars, cfVars, psVars, lcVars, nuVars, paVars, exVars, atVars, dbVars>>
Searching == part = "pattern" /\ PsNext
         /\ UNCHANGED <<part, chVars, pcVars, agVars, vlVars, soVars, cfVars, wpVars, lcVars, nuVars, paVars, exVars, atVars, dbVars>>
Scanning == part = "local" /\ LcNext
         /\ UNCHANGED <<part, chVars, pcVars, agVars, vlVars, soVars, cfVars, wpVars, psVars, nuVars, paVars, exVars, atVars, dbVars>>
NucleiRuns == part = "nuclei" /\ NuNext
         /\ UNCHANGED <<part, chVars, pcVars, agVars, vlVars, soVars, cfVars, wpVars, psVars, lcVars, paVars, exVars, atVars, dbVars>>
Resolving == part = "paths" /\ PaNext
         /\ UNCHANGED <<part, chVars, pcVars, agVars, vlVars, soVars, cfVars, wpVars, psVars, lcVars, nuVars, exVars, atVars, dbVars>>
Exchanging == part = "exchange" /\ ExNext
         /\ UNCHANGED <<part, chVars, pcVars, agVars, vlVars, soVars, cfVars, wpVars, psVars, lcVars, nuVars, paVars, atVars, dbVars>>
Calling == part = "tools" /\ AtNext
         /\ UNCHANGED <<part, chVars, pcVars, agVars, vlVars, soVars, cfVars, wpVars, psVars, lcVars, nuVars, paVars, exVars, dbVars>>
Storing == part = "database" /\ DbStep
         /\ UNCHANGED <<part, chVars, pcVars, agVars, vlVars, soVars, cfVars, wpVars, psVars, lcVars, nuVars, paVars, exVars, atVars>>

PartsNext ==
    \/ Chain \/ Providers \/ Agents \/ Validator \/ ScanRuns \/ Configuring \/ Probing
    \/ Searching \/ Scanning \/ NucleiRuns \/ Resolving \/ Exchanging \/ Calling \/ Storing

partsVars == <<part, chVars, pcVars, agVars, vlVars, soVars, cfVars, wpVars, psVars, lcVars, nuVars,
               paVars, exVars, atVars, dbVars>>

\* The parts keep the fairness they are specified with.
PartsSpec ==
    /\ PartsInit /\ [][PartsNext]_partsVars
    /\ ChFairness /\ PcFairness /\ AgFairness /\ NuFairness

-----------------------------------------------------------------------------
\* The variables of the part at work keep their types; those of the others stand still.
PartsTypeOK ==
    CASE part = "chain"     -> ChTypeOK
      [] part = "providers" -> PcTypeOK
      [] part = "agents"    -> AgTypeOK
      [] part = "validator" -> VlTypeOK
      [] part = "outcome"   -> SoTypeOK
      [] part = "settings"  -> CfTypeOK
      [] part = "probes"    -> WpTypeOK
      [] part = "pattern"   -> PsTypeOK
      [] part = "local"     -> LcTypeOK
      [] part = "nuclei"    -> NuTypeOK
      [] part = "paths"     -> PaTypeOK
      [] part = "exchange"  -> ExTypeOK
      [] part = "tools"     -> AtTypeOK
      [] part = "database"  -> DbTypeOK

PartBegun ==
    CASE part = "chain"     -> ChainBegun
      [] part = "providers" -> TestBegun
      [] part = "agents"    -> PhaseBegun
      [] part = "nuclei"    -> NucleiBegun
      [] OTHER              -> FALSE
PartEnded ==
    CASE part = "chain"     -> ChainOver
      [] part = "providers" -> TestOver
      [] part = "agents"    -> PhaseOver
      [] part = "nuclei"    -> NucleiOver
      [] OTHER              -> FALSE

\* What was started ends: a call of a chain of providers, the test of the providers, the
\* agents' phase of a scan, and a run of nuclei whose pipe nobody keeps open, whoever
\* fails, panics or never answers.
EveryPartEnds == PartBegun ~> PartEnded

\* An answer from outside is a whole one, and is not thrown away: of the chain's
\* providers, however their answers and timeouts meet, and of nuclei, however its end and
\* the killer meet.
OutsideAnswers == AnswerOrExhausted /\ NucleiAnswerIsWhole

\* An agent's tools reach what was put in scope and nothing else: files, however paths,
\* links and ".." are put together, and hosts, however they redirect and resolve.
ScopesHold == ReadStaysInside /\ EveryHopChecked

\* What a scan of data at rest finds does not depend on how it looks: not on jumping from
\* first byte to first byte, and not on the neighbours of an item or their order.
DataFindsAgree == FastAgrees /\ ItemsAreIndependent

-----------------------------------------------------------------------------
(* Agents and validator *)

MCTitles == {"t1", "t2", "t3"}
MCTitleClass == [t1 |-> "SQLInjection", t2 |-> "Unknown", t3 |-> "XSS"]
MCKeyOf == [t1 |-> "t", t2 |-> "t", t3 |-> "w"]
Reported(title, class, severity, confidence, evidence, location) ==
    [title |-> title, class |-> class, severity |-> severity, confidence |-> confidence, evidence |-> evidence,
     location |-> location, status |-> "open"]
Sure == Reported("t1", "Unknown", "critical", 9, TRUE, "here")
Kin == Reported("t2", "Unknown", "critical", 4, TRUE, "here")
Faint == Reported("t2", "Unknown", "info", 1, FALSE, "there")
WideOne == Reported("t3", "XSS", "low", 8, TRUE, "here")
MCReports == {<<Sure>>, <<Kin, Sure>>, <<WideOne>>}
MCScanned == {<<>>, <<[Sure EXCEPT !.location = "there"], Faint>>}

\* Alone, every finding that the rules tell apart; together, a few.
Various == {Reported(title, class, severity, confidence, evidence, "here") :
              title \in {"t1", "t2"}, class \in {"Unknown", "XSS"}, severity \in {"critical", "high", "info"},
              confidence \in 0..9, evidence \in BOOLEAN}
MCBatches == {<<f>> : f \in Various} \cup {<<Sure, Faint>>, <<Kin, WideOne>>}

-----------------------------------------------------------------------------
(* Providers *)
MCEnvironments == {{}, {"openai", "google"}}
MCRequests == {{}, {"anthropic"}, {"openai", "google", "ollama"}}

-----------------------------------------------------------------------------
(* Runs of vest scan *)
Site == [place |-> "site", scheme |-> "none", exists |-> FALSE, program |-> FALSE, dot |-> TRUE, slash |-> FALSE,
         space |-> FALSE, number |-> FALSE, colon |-> FALSE, private |-> FALSE]
Plain == [named |-> TRUE, target |-> Site, type |-> "guess", pid |-> FALSE, scanners |-> {}, profile |-> "unset",
          offline |-> FALSE, provider |-> "unset", mode |-> "unset", failOn |-> "unset", failOnNew |-> TRUE, dry |-> FALSE,
          resume |-> FALSE, effects |-> "none", format |-> "json", output |-> "unset", allowProbes |-> FALSE,
          confirmProbes |-> FALSE, approveExploits |-> FALSE]
Again == [Plain EXCEPT !.resume = TRUE, !.named = FALSE]
MCCommands ==
    { Plain,
      [Plain EXCEPT !.failOn = "high", !.failOnNew = FALSE, !.scanners = {"web", "nope"}, !.offline = TRUE],
      [Plain EXCEPT !.output = "unwritable"],
      [Plain EXCEPT !.type = "browser", !.effects = "unknown"],
      [Plain EXCEPT !.target.private = TRUE, !.profile = "quick"],
      [Plain EXCEPT !.format = "html"],
      Again,
      [Again EXCEPT !.named = TRUE, !.failOn = "severe"],
      [Again EXCEPT !.dry = TRUE] }
PlainConfig == [readable |-> TRUE, profiles |-> [quick |-> [scanners |-> {"fs"}, pattern |-> "valid"]], mode |-> "valid",
                denyPrivate |-> TRUE, provider |-> "openai", disabled |-> {"files"}, allowProbes |-> FALSE]
BrokenConfig == [PlainConfig EXCEPT !.readable = FALSE]
MCConfigs == {PlainConfig, BrokenConfig}
MCSoCalls == [args : MCCommands, config : {PlainConfig}] \cup [args : {Plain, Again}, config : {BrokenConfig}]
SoFinding(words, padded, severity) == [title |-> [words |-> words, padded |-> padded], severity |-> severity]
MCSoFindings == {SoFinding("a", TRUE, "high"), SoFinding(Blank, TRUE, "low")}

(* Configuration files *)
MCLookedAt == {<<"safety", "deny_private_targets">>, <<"scanner.web", "crawl_max_urls">>, <<"general", "log_level">>,
               <<"agent", "max_llm_iterations">>, SandboxImage}
MCTried == {SandboxImage, <<"scanner.web", "crawl_max_urls">>, <<"safety">>, <<"safety", "deny_privat">>}

-----------------------------------------------------------------------------
(* Pages and their holes *)
WebPage(url, query, forms, searching, missing, wildcard) ==
    [url |-> url, query |-> query, forms |-> forms, searching |-> searching, missing |-> missing, wildcard |-> wildcard]
WebForm(action, method, inputs) == [action |-> action, method |-> method, inputs |-> inputs]
MCSites ==
    { << WebPage("/a", <<"id">>, << WebForm("/login", "POST", <<"name", "file">>) >>, FALSE, "csp", TRUE),
         WebPage("/b", <<"file">>, <<>>, FALSE, "csp", FALSE) >>,
      << WebPage("/search", <<>>, << WebForm("/del", "DELETE", <<"url">>), WebForm("/go", "GET", <<"url">>) >>, TRUE, "", FALSE) >> }
WebHole(kind, param, at, payload) == [kind |-> kind, param |-> param, at |-> at, payload |-> payload]
MCHoles ==
    { { WebHole("sqli", "name", "/login", 5), WebHole("xssForm", "name", "/login", 2), WebHole("traversalUrl", "file", "/b", 3),
        WebHole("exposure", ".env", "/b", 1), WebHole("ssrf", "url", "/go", 4) },
      { WebHole("xssUrl", "id", "/a", 1), WebHole("command", "name", "/login", 1), WebHole("command", "file", "/login", 3) } }

(* Data and patterns *)
MCDatas == UNION {[1..n -> {0, 233}] : n \in 0..5}
MCPatterns == UNION {[1..n -> {0, 233} \cup {AnyByte}] : n \in 0..3}

(* Data at rest *)
ItemWith(features) == [features |-> features, openPorts |-> {}, ports |-> {}]
LocalJob(scanner, options, items, found, allowed) ==
    [scanner |-> scanner, options |-> options, items |-> items, found |-> found, allowed |-> allowed,
     catalogs |-> {[readable |-> TRUE, sinks |-> {"gets", "memcpy", "x"}], [readable |-> FALSE, sinks |-> {"system"}]}]
AllOptions == {"format", "backups", "sensitive", "secrets", "storage", "websockets", "wasm", "mitigations", "gadgets",
               "ports", "tls", "dns", "regions", "hooks"}
InFull(scanner, items) == LocalJob(scanner, AllOptions, items, TRUE, TRUE)
MCLocalJobs ==
    { InFull("files", << ItemWith({".sh", "password"}), ItemWith({".bak", "envFile", "nul", "jwtSecret"}),
                         ItemWith({"in .git", "apiKey"}) >>),
      InFull("files", << ItemWith({"password"}), ItemWith({"apiKey", "wide match"}), ItemWith({"sshKey"}) >>),
      LocalJob("files", {}, <<>>, FALSE, TRUE),
      InFull("browser", << ItemWith({".js", "storage", "token", "jwt", "ws://"}),
                           ItemWith({".html", "opens ws://", "ws://", "wss://"}), ItemWith({".wasm"}),
                           ItemWith({".wat", "system", "many imports"}), ItemWith({".wasm", "wasm magic", "many imports"}) >>),
      InFull("binary", << ItemWith({"elf", "nx", "gets", "return in code"}) >>),
      InFull("binary", << ItemWith({"pe", "memcpy", "x", "section wraps"}) >>),
      InFull("binary", << ItemWith({"fat", "system", "section wraps"}) >>),
      InFull("binary", << ItemWith({"macho", "oversized"}) >>), InFull("binary", << ItemWith({}) >>),
      InFull("page", << ItemWith({"http", "ws", "loopback", "sensitive local storage", "socket to ws://", "security info",
                                  "inline scripts", "inline storage"}) >>),
      InFull("page", << ItemWith({"file"}) >>),
      InFull("network", << [features |-> {"tls", "weak cipher", "hostname", "dns list", "spf +all", "http url"},
                            openPorts |-> {21, 65536 + 23}, ports |-> {21, 80}] >>),
      InFull("network", << ItemWith({"hostname", "dns object", "no dnssec", "double dots", "http url"}) >>),
      InFull("memory", << ItemWith({}) >>), LocalJob("memory", AllOptions, << ItemWith({}) >>, TRUE, FALSE) }

(* Nuclei *)
NuclJob(enabled, consent, home, templates, lines, exit, lingers) ==
    [enabled |-> enabled, web |-> TRUE, url |-> TRUE, consent |-> consent, root |-> TRUE, lingers |-> lingers,
     home |-> home, path |-> "relative", templates |-> templates, lines |-> lines, exit |-> exit]
MCNuJobs ==
    { NuclJob(TRUE, TRUE, "file", {}, <<"finding", "noise", "finding">>, exit, lingers) :
        exit \in {"success", "failure", "never"}, lingers \in BOOLEAN }
    \cup { NuclJob(FALSE, TRUE, "file", {}, <<>>, "success", FALSE),
           NuclJob(TRUE, FALSE, "file", {}, <<"finding">>, "success", FALSE),
           NuclJob(TRUE, TRUE, "none", {}, <<"finding">>, "success", FALSE),
           NuclJob(TRUE, TRUE, "file", {"inside"}, <<"finding">>, "success", FALSE),
           NuclJob(TRUE, TRUE, "file", {"inside", "outside"}, <<"finding">>, "success", FALSE) }

-----------------------------------------------------------------------------
(* Paths: a root /r, a place /o that is none, aliases and links *)
PathDir == [kind |-> "dir", to |-> <<>>]
PathFile == [kind |-> "file", to |-> <<>>]
PathLink(to) == [kind |-> "link", to |-> to]
PlainTree == (<<>> :> PathDir) @@ (<<"r">> :> PathDir) @@ (<<"r", "d">> :> PathDir) @@ (<<"r", "d", "f">> :> PathFile)
             @@ (<<"o">> :> PathDir) @@ (<<"o", "f">> :> PathFile)
MCTrees ==
    { PlainTree @@ (<<"a">> :> PathLink(<<"r">>)) @@ (<<"r", "x">> :> PathLink(<<"r", "d">>)),
      PlainTree @@ (<<"r", "x">> :> PathLink(<<"o">>)) @@ (<<"a">> :> PathLink(<<"r", "d">>)),
      PlainTree @@ (<<"a">> :> PathLink(<<"b">>)) @@ (<<"b">> :> PathLink(<<"r">>)) @@ (<<"r", "x">> :> PathLink(<<"gone">>))
          @@ (<<"r", "y">> :> PathLink(<<"r", "z">>)) @@ (<<"r", "z">> :> PathLink(<<"r", "y">>)) }
MCRoots == { <<>>, << <<"r">> >>, << <<"a">> >>, << <<"r">>, <<"o">> >> }
NamesFrom(firsts) == {<<n>> : n \in firsts} \cup firsts \X {"x", "d", "f", "..", "o"} \cup firsts \X {"x", "d", "..", "y"} \X {"f", "o"}
MCNames == [absolute : {TRUE}, names : NamesFrom({"r", "a", "o"})] \cup [absolute : {FALSE}, names : NamesFrom({"x", "d", ".."})]

(* Exchanges *)
MCUrl(scheme, kind, host, path) ==
    [scheme |-> scheme, userinfo |-> FALSE, kind |-> kind, host |-> host, port |-> 80, path |-> path]
MCExUrls == { MCUrl("http", "name", "site", "/a"), MCUrl("http", "name", "site", "/no"), MCUrl("http", "name", "other", "/a"),
              MCUrl("http", "loopback", "127.0.0.1", "/a"), MCUrl("other", "name", "site", "/a") }
MCExchange(url, method, sends, policy, deny) ==
    [url |-> url, method |-> method, sends |-> sends, redirects |-> 2, bytes |-> 3, budget |-> IF method = "GET" THEN 2 ELSE 5,
     policy |-> policy, deny |-> deny, robots |-> {"/no"}]
MCExJobs == { MCExchange(MCUrl("http", "name", "site", "/a"), "POST", "body", "truncate", TRUE),
              MCExchange(MCUrl("http", "name", "site", "/a"), "GET", "form", "reject", FALSE),
              MCExchange(MCUrl("http", "loopback", "127.0.0.1", "/a"), "POST", "form", "truncate", TRUE),
              MCExchange(MCUrl("other", "name", "site", "/a"), "GET", "none", "truncate", FALSE) }

(* Tools *)
MCSessions == {[leaves |-> l, simulate |-> FALSE] : l \in {{}, {"file"}, {"file", "target"}, Sources}}

-----------------------------------------------------------------------------
(* The database: two scans, one with agents; a finding each *)
Stored1(scan, severity, confidence, cut) ==
    [scan |-> scan, severity |-> severity, confidence |-> confidence, class |-> "xss", cut |-> cut, titled |-> TRUE,
     described |-> ~cut, evidence |-> {[key |-> "match_preview", kind |-> "string", secret |-> "long"],
                                       [key |-> "sensitive", kind |-> "string", secret |-> "long"]}]
MCDbFindings == [f1 |-> Stored1("s1", "medium", 9, TRUE), f2 |-> Stored1("s2", "critical", 2, FALSE)]
DbQuestion(what, id, format, limit) ==
    [what |-> what, id |-> id, other |-> "s2", format |-> format, limit |-> limit, evidence |-> limit = 1, severity |-> ""]
MCDbQuestions ==
    { DbQuestion("findings list", "", "", 1), DbQuestion("findings show", "f1", "", 0),
      [DbQuestion("findings list", "s1", "", 1) EXCEPT !.severity = "low"], DbQuestion("scans show", "s1", "", 0),
      DbQuestion("report compare", "s1", "", 0), DbQuestion("findings stats", "", "", 0), DbQuestion("scans list", "", "", 1),
      DbQuestion("targets list", "", "", 0) }
    \cup {DbQuestion("report generate", "s1", format, 1) : format \in Formats \cup {"html"}}
=============================================================================
