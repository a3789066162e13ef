------------------------------- MODULE ScanRules -------------------------------
(***************************************************************************)
(* What the scanners that look at data at rest make of it: of a file's     *)
(* name and text, of a program, of the files of a web page, of a page in a *)
(* browser, of what is known of a host, and of the simulated memory.       *)
(*                                                                         *)
(* Data is the set of the features these rules look at; a rule asks for    *)
(* some and for the absence of others.  A finding is a title, without the  *)
(* name of the file in it, and a severity.                                 *)
(***************************************************************************)
EXTENDS Naturals, FiniteSets, Sequences

Rule(needs, unless, title, severity) ==
    [needs |-> needs, unless |-> unless, title |-> title, severity |-> severity]
\* One rule for each of several features, without a name of their own in the title.
AnyOf(features, title, severity) == {Rule({f}, {}, title, severity) : f \in features}
\* One rule for each feature a severity is listed for; the title names the feature.
ByTable(table) == {Rule({f}, {}, f, table[f]) : f \in DOMAIN table}

Fires(rule, features) == rule.needs \subseteq features /\ rule.unless \cap features = {}
Apply(rules, features) ==
    {[title |-> r.title, severity |-> r.severity] : r \in {rule \in rules : Fires(rule, features)}}

-----------------------------------------------------------------------------
(***************************************************************************)
(* Files: the name.                                                        *)
(***************************************************************************)
FormatRules ==
    UNION {AnyOf({ext}, ext, "medium") :
             ext \in {".exe", ".dll", ".bat", ".ps1", ".vbs", ".scr", ".pif", ".com", ".msi", ".jar",
                      ".apk", ".ipa", ".sh", ".bin", ".so", ".dylib", ".sys"}}
BackupRules ==
    AnyOf({".bak", ".backup", ".old", ".orig", ".save", ".tmp", ".temp", ".swp", ".swo", ".swn", ".swm", "~"},
          "Backup file detected", "medium")
SensitiveRules ==
    ByTable([envFile |-> "critical", gitConfig |-> "medium", sshKey |-> "critical", sshKeyDsa |-> "critical",
             sshKeyEcdsa |-> "critical", sshKeyEd25519 |-> "critical", dockerConfig |-> "high",
             npmConfig |-> "high", awsCredentials |-> "critical", databaseFile |-> "medium",
             debugSymbols |-> "low", coreDump |-> "high", dockerfile |-> "low", dockerCompose |-> "medium",
             kubernetesSecret |-> "high"])
    \cup {Rule({"in .git"}, {"head or config"}, "Git repository data exposed", "high")}

(***************************************************************************)
(* And the text, which is looked at unless it cannot be read, is larger    *)
(* than the limit, has a NUL in its first 512 bytes, or is not UTF-8.  A   *)
(* match longer than 80 bytes is cut there; when that is in the middle of  *)
(* a character, the scan of all files panics.                              *)
(***************************************************************************)
SecretRules ==
    ByTable([awsKeyId |-> "critical", awsSecret |-> "critical", githubToken |-> "critical", apiKey |-> "critical",
             password |-> "critical", privateKey |-> "critical", secretKey |-> "high", jwtSecret |-> "high",
             stripeKey |-> "critical", slackToken |-> "high"])

TextRead(features) == features \cap {"unreadable", "oversized", "nul", "not utf-8"} = {}
CutInCharacter(features) == TextRead(features) /\ "wide match" \in features

FileFindings(features, options) ==
    (IF "format" \in options THEN Apply(FormatRules, features) ELSE {})
    \cup (IF "backups" \in options THEN Apply(BackupRules, features) ELSE {})
    \cup (IF "sensitive" \in options THEN Apply(SensitiveRules, features) ELSE {})
    \cup (IF "secrets" \in options /\ TextRead(features) THEN Apply(SecretRules, features) ELSE {})
FilePanics(features, options) == "secrets" \in options /\ CutInCharacter(features)

-----------------------------------------------------------------------------
(***************************************************************************)
(* Programs.  The format is the first of ELF, PE and Mach-O that parses; a *)
(* fat Mach-O is taken to have every mitigation, a PE never to have        *)
(* SafeSEH.                                                                *)
(***************************************************************************)
BinaryFormats == {"elf", "pe", "macho", "fat"}
FormatOf(features) ==
    CASE "elf" \in features                                             -> "elf"
      [] "elf" \notin features /\ "pe" \in features                     -> "pe"
      [] features \cap {"elf", "pe"} = {} /\ features \cap {"macho", "fat"} # {}
                                      -> IF "fat" \in features THEN "fat" ELSE "macho"
      [] OTHER                                                          -> "none"

\* What each format tells of its mitigations.
FromElf(features) == {m \in {"nx", "aslr", "canaries"} : m \in features} \cup {"seh"}
FromPe(features) == {m \in {"nx", "aslr", "canaries"} : m \in features}
FromMach(features) ==
    IF "fat" \in features THEN {"nx", "aslr", "canaries", "seh"}
    ELSE {m \in {"aslr", "canaries"} : m \in features} \cup {"nx", "seh"}
Mitigations(features) ==
    CASE FormatOf(features) = "elf" -> FromElf(features)
      [] FormatOf(features) = "pe"  -> FromPe(features)
      [] OTHER                      -> FromMach(features)

MitigationRules ==
    { Rule({}, {"nx"}, "NX/DEP not enabled", "high"), Rule({}, {"aslr"}, "ASLR/PIE not enabled", "medium"),
      Rule({}, {"canaries"}, "Stack canaries not enabled", "medium"),
      Rule({"pe"}, {"seh"}, "SafeSEH not enabled", "medium") }

\* Catalogued functions named by symbols or strings; a catalog that cannot be read
\* is passed over.
HighSinks == {"strcpy", "strcat", "gets", "sprintf", "system", "popen"}
MediumSinks == {"memcpy", "strncpy", "malloc", "fopen"}
SinkSeverity(sink) ==
    CASE sink \in HighSinks -> "high" [] sink \in MediumSinks -> "medium" [] OTHER -> "low"
LoadSinkCatalog(catalog) == IF catalog.readable THEN catalog.sinks ELSE {}
SinkFindings(features, catalogs) ==
    {[title |-> sink, severity |-> SinkSeverity(sink)] :
        sink \in features \cap UNION {LoadSinkCatalog(c) : c \in catalogs}}

\* Returns in executable sections; the last byte of a section is not looked at,
\* and the sections of a fat Mach-O are not known.
GadgetRules == {Rule({"return in code"}, {"fat"}, "ROP gadgets found", "medium")}

BinaryFindings(features, options, catalogs) ==
    SinkFindings(features, catalogs)
    \cup (IF "mitigations" \in options
          THEN Apply(MitigationRules, Mitigations(features) \cup ({FormatOf(features)} \cap {"pe"})) ELSE {})
    \cup (IF "gadgets" \in options THEN Apply(GadgetRules, features) ELSE {})

\* A section whose end is beyond 64 bits panics the scan.
BinaryPanics(features, options) ==
    "gadgets" \in options /\ FormatOf(features) # "fat" /\ "section wraps" \in features

-----------------------------------------------------------------------------
(***************************************************************************)
(* Local files of a web page.                                              *)
(***************************************************************************)
SensitiveKeys ==
    << "password", "token", "secret", "apikey", "api_key", "auth", "jwt", "session", "credential", "private_key",
       "access_token", "refresh_token", "bearer", "ssn", "credit_card" >>
IsScript(features) == features \cap {".js", ".html", ".ts"} # {}

\* Only the first of the sensitive keys a file stores is told of.
StorageFindings(features) ==
    LET stored == {i \in DOMAIN SensitiveKeys : SensitiveKeys[i] \in features}
    IN  {[title |-> SensitiveKeys[i], severity |-> "high"] : i \in {j \in stored : \A k \in stored : j <= k}}
        \cup Apply({Rule({"storage"}, {"encrypt", "hash", "encode"},
                         "Browser storage used without visible encryption", "medium")}, features)

\* References to ws:// are told of once, and only if no line opens such a socket:
\* told says whether there is a finding about this file yet.
SocketRules(told) ==
    AnyOf({"opens ws://"}, "Insecure WebSocket connection", "high")
    \cup (IF told THEN {} ELSE {Rule({"ws://"}, {"wss://"}, "Multiple ws:// references with no wss://", "medium")})
SocketFindings(features) == Apply(SocketRules("opens ws://" \in features), features)

WasmImports == {"_emscripten_run_script", "system", "popen", "exec", "proc_exit"}
WasmFindings(features) ==
    Apply({Rule({".wasm"}, {"wasm magic"}, "Invalid or corrupted WASM module", "medium")}, features)
    \cup (IF features \cap {"wasm magic", ".wat"} # {}
          THEN {[title |-> f, severity |-> "critical"] : f \in WasmImports \cap features}
               \cup Apply({Rule({"many imports"}, WasmImports, "WASM module has high number of imports", "low")}, features)
          ELSE {})

BrowserFindings(features, options) ==
    (IF "storage" \in options /\ IsScript(features) THEN StorageFindings(features) ELSE {})
    \cup (IF "websockets" \in options /\ IsScript(features) THEN SocketFindings(features) ELSE {})
    \cup (IF "wasm" \in options /\ features \cap {".wasm", ".wat"} # {} THEN WasmFindings(features) ELSE {})
-----------------------------------------------------------------------------
(***************************************************************************)
(* A page in the browser, as far as it could be asked: what an evaluation  *)
(* that failed would have told is not in the features.                     *)
(***************************************************************************)
PageRules ==
    { Rule({"sensitive local storage"}, {}, "Sensitive data in localStorage", "high"),
      Rule({"socket to ws://"}, {}, "Insecure WebSocket", "high"),
      Rule({"wasm loaded"}, {}, "WASM modules detected", "medium"),
      Rule({"security info"}, {"csp"}, "No Content Security Policy detected", "medium"),
      Rule({"inline scripts", "inline storage"}, {}, "localStorage usage detected in inline scripts", "low") }
PageFindings(features) == Apply(PageRules, features)

\* Where a browser may be sent, and whose debugger is talked to.
NavigateAllowed(features) == "http" \in features
DebuggerAllowed(features) == {"ws", "loopback"} \subseteq features

-----------------------------------------------------------------------------
(***************************************************************************)
(* What is known of a host.  Ports are numbers of any size, of which the   *)
(* lower 16 bits are taken.                                                *)
(***************************************************************************)
DangerousPorts ==
    { <<21, "high">>, <<23, "critical">>, <<25, "medium">>, <<53, "medium">>, <<3389, "high">>,
      <<3306, "critical">>, <<5432, "critical">>, <<27017, "critical">>, <<6379, "critical">>,
      <<445, "critical">>, <<139, "medium">>, <<135, "medium">>, <<5900, "high">>, <<2375, "critical">>,
      <<6443, "high">> }
PortFindings(host) ==
    LET ports == {n % 2^16 : n \in host.openPorts \cup host.ports}
        found == {[title |-> <<"exposed port", p[1]>>, severity |-> p[2]] : p \in {q \in DangerousPorts : q[1] \in ports}}
    IN  IF found = {} /\ "hostname" \in host.features
        THEN {[title |-> <<"no port data", 0>>, severity |-> "info"]}
        ELSE found

TlsRules ==
    { Rule({"tls", "tls 1.0 or 1.1"}, {}, <<"deprecated TLS", 0>>, "high"),
      Rule({"tls", "weak cipher"}, {}, <<"weak ciphers", 0>>, "high"),
      Rule({"tls", "invalid certificate"}, {}, <<"invalid certificate", 0>>, "high"),
      Rule({"http url"}, {"tls"}, <<"no TLS", 0>>, "high") }
\* DNSSEC is only known when the records are not a list.
DnsRules ==
    { Rule({"dns list"}, {"dns records"}, <<"no DNS records", 0>>, "low"),
      Rule({"dns list", "spf +all"}, {}, <<"SPF +all", 0>>, "high"),
      Rule({"dns object", "no dnssec"}, {}, <<"no DNSSEC", 0>>, "medium"),
      Rule({"hostname", "double dots"}, {}, <<"double dots", 0>>, "medium") }

NetworkFindings(host, options) ==
    (IF "ports" \in options THEN PortFindings(host) ELSE {})
    \cup (IF "tls" \in options THEN Apply(TlsRules, host.features) ELSE {})
    \cup (IF "dns" \in options THEN Apply(DnsRules, host.features) ELSE {})
=============================================================================
