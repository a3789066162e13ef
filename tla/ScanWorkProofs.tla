---------------------------- MODULE ScanWorkProofs ----------------------------
(***************************************************************************)
(* The work of a scan.  What an agent's tools let out, for every session   *)
(* and any number of calls; where a scoped exchange goes, for every site;  *)
(* what the validator drops, for all batches; what the accelerated pattern *)
(* search finds, for all data and all patterns that begin with a fixed     *)
(* byte; what a local scanner says of each item, for all items; which      *)
(* holes of a site the web scanner's probes report, for all sites; and     *)
(* what the agents' phase makes of the reports of any number of agents.    *)
(***************************************************************************)
EXTENDS AgentTools, ScopedExchange, ValidatorBatch, PatternScan, LocalScans, WebProbes, AgentPhase,
        SequenceTheorems, FiniteSetTheorems, WellFoundedInduction, TLAPS

-----------------------------------------------------------------------------
(* Tools *)

\* The class of a tool's results, once its effect has been looked at as well.
ToolClass(tool) == MoreRestrictive(Registry[tool].class, ClassifyToolResult(Registry[tool].effect))

\* Every tool's class asks for the flag of what its results are made of.
LEMMA ClassAsksForSource ==
    ASSUME NEW tool \in DOMAIN Registry
    PROVE  SourceOf(tool) = "names" \/ FlagFor(ToolClass(tool)) = {SourceOf(tool)}
<1>1. DOMAIN BuiltIn = {"web_scan", "file_scan", "memory_scan", "http_get", "http_post", "read_file",
                        "list_files", "browser_inspect", "scan_for_secrets"}
  BY DEF BuiltIn
<1>2. tool \in DOMAIN BuiltIn /\ Registry[tool] = BuiltIn[tool]
  BY DEF Registry
<1>3. CASE tool \in {"web_scan", "http_get", "http_post", "browser_inspect"}
  <2>1. BuiltIn[tool].class = "TargetContent" /\ BuiltIn[tool].effect \in {"ActiveNetworkProbe", "PassiveNetworkRequest", "StateChangingNetworkRequest"}
    BY <1>3 DEF BuiltIn, Tool
  <2>2. ClassifyToolResult(BuiltIn[tool].effect) = "TargetContent"
    BY <2>1 DEF ClassifyToolResult
  <2>3. ToolClass(tool) = "TargetContent"
    BY <1>2, <2>1, <2>2 DEF ToolClass, MoreRestrictive
  <2> QED
    BY <1>3, <2>3 DEF FlagFor, SourceOf, ReadsUrl
<1>4. CASE tool \in {"file_scan", "read_file"}
  <2>1. BuiltIn[tool].class = "LocalContent" /\ BuiltIn[tool].effect \in {"LocalFileContentRead"}
    BY <1>4 DEF BuiltIn, Tool
  <2>2. ClassifyToolResult(BuiltIn[tool].effect) = "LocalContent"
    BY <2>1 DEF ClassifyToolResult
  <2>3. ToolClass(tool) = "LocalContent"
    BY <1>2, <2>1, <2>2 DEF ToolClass, MoreRestrictive
  <2> QED
    BY <1>4, <2>3 DEF FlagFor, SourceOf, ReadsUrl
<1>5. CASE tool \in {"memory_scan"}
  <2>1. BuiltIn[tool].class = "ProcessMemory" /\ BuiltIn[tool].effect \in {"ProcessMemoryRead"}
    BY <1>5 DEF BuiltIn, Tool
  <2>2. ClassifyToolResult(BuiltIn[tool].effect) = "ProcessMemory"
    BY <2>1 DEF ClassifyToolResult
  <2>3. ToolClass(tool) = "ProcessMemory"
    BY <1>2, <2>1, <2>2 DEF ToolClass, MoreRestrictive
  <2> QED
    BY <1>5, <2>3 DEF FlagFor, SourceOf, ReadsUrl
<1>6. CASE tool \in {"scan_for_secrets"}
  <2>1. BuiltIn[tool].class = "PotentiallySecretBearing" /\ BuiltIn[tool].effect \in {"LocalFileContentRead"}
    BY <1>6 DEF BuiltIn, Tool
  <2>2. ClassifyToolResult(BuiltIn[tool].effect) = "LocalContent"
    BY <2>1 DEF ClassifyToolResult
  <2>3. Rank["PotentiallySecretBearing"] >= Rank["LocalContent"]
    BY DEF Rank
  <2>4. ToolClass(tool) = "PotentiallySecretBearing"
    BY <1>2, <2>1, <2>2, <2>3 DEF ToolClass, MoreRestrictive
  <2> QED
    BY <1>6, <2>4 DEF FlagFor, SourceOf, ReadsUrl
<1>7. CASE tool = "list_files"
  BY <1>7 DEF SourceOf, ReadsUrl
<1> QED
  BY <1>1, <1>2, <1>3, <1>4, <1>5, <1>6, <1>7

\* Before a session is opened nothing has entered the context.
NothingYet == atStage = "idle" => atContext = {}

\* What enters the context is made of names or of what the session lets leave, and no more
\* of a tool's answer is taken than the limit, for every session, build and sequence of
\* calls; the one exception is the text of an error, with the URL a target redirects to
\* (execute_authorised, with filter_for_model behind every tool of agent_tools.rs).
THEOREM NothingLeaves == AtSpec => []NothingLeavesUnasked
<1>1. AtInit => NothingYet /\ NothingLeavesUnasked
  BY DEF AtInit, NothingYet, NothingLeavesUnasked
<1>2. NothingYet /\ NothingLeavesUnasked /\ [AtNext]_atVars => (NothingYet /\ NothingLeavesUnasked)'
  <2> SUFFICES ASSUME NothingYet, NothingLeavesUnasked, [AtNext]_atVars
               PROVE  (NothingYet /\ NothingLeavesUnasked)'
    OBVIOUS
  <2>1. ASSUME NEW session \in AtSessions, OpenSession(session)
        PROVE  (NothingYet /\ NothingLeavesUnasked)'
    BY <2>1 DEF OpenSession, NothingYet, NothingLeavesUnasked
  <2>2. ASSUME NEW tool \in DOMAIN Registry, NEW argument, NEW chars \in {100, 9000}, CallTool(tool, argument, chars)
        PROVE  (NothingYet /\ NothingLeavesUnasked)'
    <3> DEFINE entry == ExecuteAuthorised(tool, argument, chars)
               filtered == FilterForModel(tool, ToolClass(tool), atSession.leaves, MostOf(tool, chars))
    <3>1. atContext' = atContext \cup {entry} /\ atSession' = atSession /\ atStage = "open" /\ atStage' = atStage
      BY <2>2 DEF CallTool
    <3>2. /\ entry.of \in atSession.leaves \cup {"names"} \/ (entry.holds = "error" /\ entry.of = "target")
          /\ entry.holds # "error" => entry.taken <= MaxChars
      <4>1. CASE HandlerError(tool, argument) # "none"
        BY <4>1 DEF ExecuteAuthorised, Entry, Quotes
      <4>2. CASE HandlerError(tool, argument) = "none"
        <5>1. entry = filtered
          BY <4>2 DEF ExecuteAuthorised, ToolClass
        <5>2. Bounded(MostOf(tool, chars)) <= MaxChars
          BY DEF Bounded, MostOf, MaxChars
        <5>3. SourceOf(tool) \in FlagFor(ToolClass(tool)) \/ SourceOf(tool) = "names"
          BY ClassAsksForSource
        <5>4. /\ filtered.of \in atSession.leaves \cup {"names"}
              /\ filtered.holds # "error" => filtered.taken <= MaxChars
          BY <5>2, <5>3 DEF FilterForModel, Entry, MaxChars
        <5> QED
          BY <5>1, <5>4
      <4> QED
        BY <4>1, <4>2
    <3> HIDE DEF entry
    <3> QED
      BY <3>1, <3>2 DEF NothingYet, NothingLeavesUnasked
  <2>3. CASE UNCHANGED atVars
    BY <2>3 DEF atVars, NothingYet, NothingLeavesUnasked
  <2> QED
    BY <2>1, <2>2, <2>3 DEF AtNext
<1> QED
  BY <1>1, <1>2, PTL DEF AtSpec

-----------------------------------------------------------------------------
(* Exchanges *)

Destinations == ExUrls \cup {job.url : job \in ExJobs} \cup {NoUrl}
SentRequest == [url : Destinations, method : {"GET", "POST"}, sends : {"none", "form", "body"}, addrs : SUBSET Addresses]

\* One request, judged by itself.
RequestChecked(i) ==
    /\ ScopeAllows(exJob.url, exSent[i].url)
    /\ i > 1 => exSent[i].url.path \notin exJob.robots
    /\ exJob.deny => exSent[i].url.kind \in {"public", "name"} /\ exSent[i].addrs = {"public"}
    /\ exJob.method = "POST" /\ exSent[i].method = "GET" =>
           \A j \in i..Len(exSent) : exSent[j].sends = "none" /\ exSent[j].method = "GET"

\* The POST is over, here and where the exchange is going.
PostIsOver == exJob.method = "POST" /\ exMethod = "GET"

\* Nothing happened before the exchange begins; a hop that is not the first was allowed by
\* robots.txt and the limit on redirects; and what is sent next fits what was sent.
ExInv ==
    /\ exJob \in ExJobs \cup {NoExchangeJob}
    /\ exStage \in {"idle", "hop", "waiting", "done"}
    /\ exAt \in Destinations /\ exMethod \in {"GET", "POST"} /\ exSends \in {"none", "form", "body"}
    /\ exSent \in Seq(SentRequest)
    /\ exGot.bytes \in Nat /\ exGot.bytes <= exJob.bytes
    /\ exStage = "idle" => exSent = <<>> /\ exGot.bytes = 0
    /\ \A i \in 1..Len(exSent) : RequestChecked(i)
    /\ Len(exSent) <= exJob.budget /\ Len(exSent) <= exJob.redirects + 1
    /\ exStage = "hop" /\ Len(exSent) > 0 => exAt.path \notin exJob.robots /\ Len(exSent) <= exJob.redirects
    /\ PostIsOver => exSends = "none"
    /\ exJob.method = "POST" => \A i \in 1..Len(exSent) : exSent[i].method = "GET" => exMethod = "GET"

\* Jobs and places are what the assumption says.
LEMMA JobsAreJobs ==
    /\ \A job \in ExJobs \cup {NoExchangeJob} : IsExchangeJob(job)
    /\ \A url \in Destinations : IsUrl(url)
<1>1. IsUrl(NoUrl)
  BY DEF IsUrl, NoUrl, HostKinds
<1>2. IsExchangeJob(NoExchangeJob)
  BY <1>1 DEF IsExchangeJob, NoExchangeJob
<1>3. \A job \in ExJobs : IsUrl(job.url)
  BY ExchangeAssumption DEF IsExchangeJob
<1> QED
  BY <1>1, <1>2, <1>3, ExchangeAssumption DEF Destinations

\* An exchange that ends without a body keeps the invariant.
LEMMA FailsKeeps ==
    ASSUME ExInv, NEW how, ExFails(how)
    PROVE  ExInv'
<1>1. IsExchangeJob(exJob)
  BY JobsAreJobs DEF ExInv
<1>2. exGot'.bytes = 0 /\ exStage' = "done" /\ exJob' = exJob /\ exAt' = exAt /\ exMethod' = exMethod
      /\ exSends' = exSends /\ exSent' = exSent
  BY DEF ExFails, Got
<1> QED
  BY <1>1, <1>2 DEF ExInv, IsExchangeJob, RequestChecked, PostIsOver

\* The exchange begins.
LEMMA BeginKeeps ==
    ASSUME ExInv, NEW job \in ExJobs, ExBegin(job)
    PROVE  ExInv'
<1>1. IsExchangeJob(job) /\ job.url \in Destinations
  BY JobsAreJobs DEF Destinations
<1>2. exSent = <<>> /\ exSent' = <<>> /\ Len(exSent') = 0
  BY DEF ExInv, ExBegin
<1>3. exGot'.bytes = 0 /\ exStage' \in {"hop", "done"} /\ exJob' = job /\ exAt' = job.url /\ exMethod' = job.method
  BY DEF ExBegin, Got
<1>4. exSends' \in {"none", "form", "body"}
  BY <1>1 DEF ExBegin, IsExchangeJob
<1>5. ~PostIsOver'
  BY <1>3 DEF PostIsOver
<1>6. exSent' \in Seq(SentRequest)
  BY <1>2
<1>7. 1..Len(exSent') = {}
  BY <1>2
<1> QED
  BY <1>1, <1>2, <1>3, <1>4, <1>5, <1>6, <1>7 DEF ExInv, IsExchangeJob

\* A request goes out only to where it may, and with what may still be sent.
LEMMA OutKeeps ==
    ASSUME ExInv, NEW addrs, HopGoesOut(addrs)
    PROVE  ExInv'
<1> DEFINE request == [url |-> exAt, method |-> exMethod, sends |-> exSends, addrs |-> addrs]
           last == Len(exSent) + 1
<1>1. IsExchangeJob(exJob) /\ IsUrl(exAt) /\ addrs \subseteq Addresses
  BY JobsAreJobs DEF ExInv, HopGoesOut, ResolvesTo
<1>2. request \in SentRequest
  BY <1>1 DEF SentRequest, ExInv
<1>3. /\ exSent' = Append(exSent, request) /\ exStage = "hop" /\ exStage' = "waiting" /\ exJob' = exJob /\ exAt' = exAt
      /\ exMethod' = exMethod /\ exSends' = exSends /\ exGot' = exGot
  BY DEF HopGoesOut
<1>4. exSent \in Seq(SentRequest) /\ Len(exSent) \in Nat
  BY LenProperties DEF ExInv
<1>5. /\ exSent' \in Seq(SentRequest) /\ Len(exSent') = last /\ exSent'[last] = request
      /\ \A i \in 1..Len(exSent) : exSent'[i] = exSent[i]
  <2> HIDE DEF request
  <2> QED
    BY <1>2, <1>3, <1>4, AppendProperties
<1>6. last <= exJob'.budget /\ last <= exJob'.redirects + 1
  BY <1>1, <1>3, <1>4 DEF ExInv, HopGoesOut, InBudget, IsExchangeJob
<1>7. exJob.method = "POST" /\ exMethod = "GET" => exSends = "none"
  BY DEF ExInv, PostIsOver
<1>8. \A i \in 1..Len(exSent) : RequestChecked(i)'
  <2> SUFFICES ASSUME NEW i \in 1..Len(exSent) PROVE RequestChecked(i)'
    OBVIOUS
  <2>1. RequestChecked(i) /\ exSent'[i] = exSent[i]
    BY <1>5 DEF ExInv
  <2>2. ASSUME exJob.method = "POST", exSent[i].method = "GET", NEW j \in i..last
        PROVE  exSent'[j].sends = "none" /\ exSent'[j].method = "GET"
    <3>1. CASE j \in i..Len(exSent)
      BY <1>4, <1>5, <2>1, <2>2, <3>1 DEF RequestChecked
    <3>2. CASE j = last
      <4>1. exMethod = "GET"
        BY <2>2 DEF ExInv
      <4> QED
        BY <1>5, <1>7, <2>2, <3>2, <4>1
    <3> QED
      BY <1>4, <2>2, <3>1, <3>2
  <2> HIDE DEF last
  <2> QED
    BY <1>3, <1>5, <2>1, <2>2 DEF RequestChecked
<1>9. \A i \in {last} : RequestChecked(i)'
  <2>1. ScopeAllows(exJob.url, exAt)
    BY DEF HopGoesOut
  <2>2. last > 1 => exAt.path \notin exJob.robots
    BY <1>3, <1>4 DEF ExInv
  <2>3. exJob.deny => exAt.kind \in {"public", "name"} /\ addrs = {"public"}
    <3> SUFFICES ASSUME exJob.deny PROVE exAt.kind \in {"public", "name"} /\ addrs = {"public"}
      OBVIOUS
    <3>1. ~PrivateHost(exAt) /\ addrs # {} /\ addrs \cap PrivateAddresses = {}
      BY DEF HopGoesOut, AddressesAllowed
    <3>2. exAt.kind \in {"public", "name"}
      BY <1>1, <3>1 DEF IsUrl, PrivateHost, HostKinds, Addresses
    <3>3. \A a \in addrs : a = "public"
      BY <1>1, <3>1 DEF Addresses
    <3> QED
      BY <3>1, <3>2, <3>3
  <2>4. \A j \in last..Len(exSent') : j = last
    BY <1>4, <1>5
  <2>5. /\ exSent'[last].url = exAt /\ exSent'[last].addrs = addrs
        /\ exSent'[last].method = exMethod /\ exSent'[last].sends = exSends
    BY <1>5
  <2> HIDE DEF last, request
  <2>6. exJob'.method = "POST" /\ exSent'[last].method = "GET" =>
            \A j \in last..Len(exSent') : exSent'[j].sends = "none" /\ exSent'[j].method = "GET"
    BY <1>3, <1>7, <2>4, <2>5
  <2>7. /\ ScopeAllows(exJob'.url, exSent'[last].url)
        /\ last > 1 => exSent'[last].url.path \notin exJob'.robots
        /\ exJob'.deny => exSent'[last].url.kind \in {"public", "name"} /\ exSent'[last].addrs = {"public"}
    BY <1>3, <2>1, <2>2, <2>3, <2>5
  <2> SUFFICES ASSUME NEW i \in {last} PROVE RequestChecked(i)'
    OBVIOUS
  <2> QED
    BY <2>6, <2>7 DEF RequestChecked
<1>10. \A i \in 1..last : i \in 1..Len(exSent) \/ i = last
  BY <1>4
<1>11. exJob.method = "POST" => \A i \in 1..last : exSent'[i].method = "GET" => exMethod' = "GET"
  BY <1>3, <1>5, <1>10 DEF ExInv
<1>12. \A i \in 1..Len(exSent') : RequestChecked(i)'
  <2> SUFFICES ASSUME NEW i \in 1..Len(exSent') PROVE RequestChecked(i)'
    OBVIOUS
  <2>1. i \in 1..Len(exSent) \/ i = last
    BY <1>5, <1>10
  <2> HIDE DEF last, request
  <2> QED
    BY <2>1, <1>8, <1>9
<1> HIDE DEF last, request
<1>13. /\ exJob' \in ExJobs \cup {NoExchangeJob} /\ exStage' \in {"idle", "hop", "waiting", "done"}
       /\ exAt' \in Destinations /\ exMethod' \in {"GET", "POST"} /\ exSends' \in {"none", "form", "body"}
       /\ exGot'.bytes \in Nat /\ exGot'.bytes <= exJob'.bytes
  BY <1>3 DEF ExInv
<1>14. exStage' # "idle" /\ exStage' # "hop"
  BY <1>3
<1>15. Len(exSent') <= exJob'.budget /\ Len(exSent') <= exJob'.redirects + 1
  BY <1>5, <1>6
<1>16. PostIsOver' => exSends' = "none"
  BY <1>3, <1>7 DEF PostIsOver
<1>17. exJob'.method = "POST" => \A i \in 1..Len(exSent') : exSent'[i].method = "GET" => exMethod' = "GET"
  BY <1>3, <1>5, <1>11
<1> QED
  BY <1>5, <1>12, <1>13, <1>14, <1>15, <1>16, <1>17 DEF ExInv

\* A redirect that is followed was judged, and ends a POST for good.
LEMMA FollowKeeps ==
    ASSUME ExInv, NEW url \in ExUrls, NEW keeps \in BOOLEAN, RedirectFollowed(url, keeps)
    PROVE  ExInv'
<1>1. /\ exAt' = url /\ url \in Destinations /\ exStage' = "hop" /\ exJob' = exJob /\ exSent' = exSent /\ exGot' = exGot
      /\ exMethod' = (IF keeps THEN exMethod ELSE "GET")
      /\ exSends' = (IF keeps \/ exMethod = "GET" THEN exSends ELSE "none")
  BY DEF RedirectFollowed, Destinations
<1>2. url.path \notin exJob.robots /\ Len(exSent) <= exJob.redirects
  BY DEF RedirectFollowed, MayFollowTo, RobotsDisallow
<1>3. PostIsOver' => exSends' = "none"
  BY <1>1 DEF ExInv, PostIsOver
<1>4. exJob.method = "POST" => \A i \in 1..Len(exSent) : exSent[i].method = "GET" => exMethod' = "GET"
  BY <1>1 DEF ExInv
<1>5. \A i \in 1..Len(exSent) : RequestChecked(i)' = RequestChecked(i)
  BY <1>1 DEF RequestChecked
<1>6. exMethod' \in {"GET", "POST"} /\ exSends' \in {"none", "form", "body"}
  BY <1>1 DEF ExInv
<1> QED
  BY <1>1, <1>2, <1>3, <1>4, <1>5, <1>6 DEF ExInv

\* Wherever a server leads, the exchange keeps its invariant.
LEMMA ExchangesGoOn == ExSpec => []ExInv
<1>1. ExInit => ExInv
  <2> SUFFICES ASSUME ExInit PROVE ExInv
    OBVIOUS
  <2>1. exSent = <<>> /\ Len(exSent) = 0 /\ 1..Len(exSent) = {}
    BY DEF ExInit
  <2>2. exJob = NoExchangeJob /\ exGot.bytes = 0 /\ exStage = "idle" /\ exAt \in Destinations /\ exMethod = "GET" /\ exSends = "none"
    BY DEF ExInit, Got, Destinations
  <2>3. IsExchangeJob(exJob)
    BY <2>2, JobsAreJobs
  <2>4. exSent \in Seq(SentRequest)
    BY <2>1
  <2> QED
    BY <2>1, <2>2, <2>3, <2>4 DEF ExInv, IsExchangeJob
<1>2. ExInv /\ [ExNext]_exVars => ExInv'
  <2> SUFFICES ASSUME ExInv, [ExNext]_exVars PROVE ExInv'
    OBVIOUS
  <2>1. ASSUME NEW job \in ExJobs, ExBegin(job) PROVE ExInv'
    BY <2>1, BeginKeeps
  <2>2. CASE HopRefused
    BY <2>2, FailsKeeps DEF HopRefused
  <2>3. CASE RequestFails
    BY <2>3, FailsKeeps DEF RequestFails
  <2>4. ASSUME NEW addrs, HopGoesOut(addrs) PROVE ExInv'
    BY <2>4, OutKeeps
  <2>5. ASSUME NEW addrs, AddressesRefused(addrs) PROVE ExInv'
    BY <2>5, FailsKeeps DEF AddressesRefused
  <2>6. ASSUME NEW url \in ExUrls, RedirectRefused(url) PROVE ExInv'
    BY <2>6, FailsKeeps DEF RedirectRefused
  <2>7. ASSUME NEW url \in ExUrls, NEW keeps \in BOOLEAN, RedirectFollowed(url, keeps) PROVE ExInv'
    BY <2>7, FollowKeeps
  <2>8. ASSUME NEW size \in ExSizes, BodyArrives(size) PROVE ExInv'
    <3>1. IsExchangeJob(exJob) /\ size \in Nat
      BY JobsAreJobs, ExchangeAssumption DEF ExInv
    <3>2. exGot'.bytes \in Nat /\ exGot'.bytes <= exJob.bytes
      BY <2>8, <3>1 DEF BodyArrives, Taken, Got, IsExchangeJob
    <3>3. exStage' = "done" /\ exJob' = exJob /\ exAt' = exAt /\ exMethod' = exMethod /\ exSends' = exSends /\ exSent' = exSent
      BY <2>8 DEF BodyArrives
    <3> QED
      BY <3>1, <3>2, <3>3 DEF ExInv, RequestChecked, PostIsOver
  <2>9. CASE UNCHANGED exVars
    BY <2>9 DEF exVars, ExInv, RequestChecked, PostIsOver
  <2> QED
    BY <2>1, <2>2, <2>3, <2>4, <2>5, <2>6, <2>7, <2>8, <2>9 DEF ExNext, ExStep
<1> QED
  BY <1>1, <1>2, PTL DEF ExSpec

\* Every request of an exchange goes to the allowed origin and, when private targets are
\* denied, to public addresses; a POST that a redirect has ended is not taken up again;
\* and the budgets hold, for every server and every resolver (ScopedHttpClient::exchange).
THEOREM HopsChecked == ExSpec => []EveryHopChecked
<1>1. ExInv => EveryHopChecked
  <2> SUFFICES ASSUME ExInv PROVE EveryHopChecked
    OBVIOUS
  <2>1. DOMAIN exSent = 1..Len(exSent)
    BY LenProperties DEF ExInv
  <2> QED
    BY <2>1 DEF ExInv, EveryHopChecked, RequestChecked
<1> QED
  BY <1>1, ExchangesGoOn, PTL

-----------------------------------------------------------------------------
(* The validator *)

\* A finding the heuristics must never drop.
WorthKeeping(f) ==
    LET e == Enriched(f) IN e.class # "Unknown" /\ ~Noise(e) /\ e.confidence >= 1

LEMMA EnrichedIsFinding ==
    ASSUME NEW f \in Finding
    PROVE  /\ Enriched(f) \in Finding /\ Enriched(f).severity = f.severity /\ Enriched(f).evidence = f.evidence
           /\ Enriched(f).confidence = f.confidence /\ Enriched(f).status = f.status
           /\ f.class # "Unknown" => Enriched(f) = f
  BY DEF Enriched, Finding

\* The validator keeps a finding, or nothing.
LEMMA HeuristicKeepsFindings ==
    ASSUME NEW f \in Finding, NEW strict
    PROVE  /\ HeuristicFinding(f) \in Finding
           /\ KeepHeuristic(f, strict) \in {Gone, <<HeuristicFinding(f)>>}
<1>1. KeepHeuristic(f, strict) \in {Gone, <<HeuristicFinding(f)>>}
  BY DEF KeepHeuristic, Gone
<1> DEFINE e == Enriched(f)
<1>2. e \in Finding /\ e.confidence \in 0..10
  BY EnrichedIsFinding DEF Finding
<1> HIDE DEF e
<1>3. (IF Remaining(e) > 0 THEN Remaining(e) ELSE 0) \in 0..10
  BY <1>2 DEF Remaining
<1>4. HeuristicFinding(f) =
         [e EXCEPT !.severity = IF HeuristicVerdict(e) = "downgraded" THEN "high" ELSE @,
                   !.confidence = IF Remaining(e) > 0 THEN Remaining(e) ELSE 0,
                   !.status = IF HeuristicVerdict(e) = "uncertain" THEN @ ELSE "confirmed"]
  BY DEF HeuristicFinding, e
<1>5. HeuristicFinding(f) \in Finding
  BY <1>2, <1>3, <1>4 DEF Finding, Severities
<1> QED
  BY <1>1, <1>5

\* What is worth keeping is kept, and stays worth keeping.
LEMMA WorthStays ==
    ASSUME NEW f \in Finding, WorthKeeping(f)
    PROVE  KeepHeuristic(f, FALSE) = <<HeuristicFinding(f)>> /\ WorthKeeping(HeuristicFinding(f))
<1> DEFINE e == Enriched(f)
           g == HeuristicFinding(f)
<1>1. e \in Finding /\ e.class # "Unknown" /\ ~Noise(e) /\ e.confidence >= 1 /\ e.confidence \in 0..10
  BY EnrichedIsFinding DEF WorthKeeping, Finding
<1> HIDE DEF e
<1>2. Remaining(e) = e.confidence /\ ~Negligible(e)
  BY <1>1 DEF Remaining, Negligible
<1>3. HeuristicVerdict(e) = Decision(e) /\ HeuristicVerdict(e) # "false_positive"
  BY <1>2 DEF HeuristicVerdict, Decision
<1>4. KeepHeuristic(f, FALSE) = <<g>>
  BY <1>3 DEF KeepHeuristic, e
<1>5. g = [e EXCEPT !.severity = IF HeuristicVerdict(e) = "downgraded" THEN "high" ELSE @,
                    !.confidence = IF Remaining(e) > 0 THEN Remaining(e) ELSE 0,
                    !.status = IF HeuristicVerdict(e) = "uncertain" THEN @ ELSE "confirmed"]
  BY DEF HeuristicFinding, e
<1>6. g \in Finding
  BY HeuristicKeepsFindings
<1> HIDE DEF g
<1>7. /\ g.class = e.class /\ g.confidence = e.confidence /\ g.evidence = e.evidence
      /\ g.severity = e.severity \/ g.severity = "high"
  BY <1>1, <1>2, <1>5 DEF Finding
<1>8. ~Noise(g) /\ Enriched(g) = g
  BY <1>1, <1>6, <1>7, EnrichedIsFinding DEF Noise
<1>9. WorthKeeping(g)
  BY <1>1, <1>7, <1>8 DEF WorthKeeping
<1> QED
  BY <1>4, <1>9 DEF g

\* A reply costs a finding only if it is a verdict that says so.
LEMMA JudgedStays ==
    ASSUME NEW f \in Finding, NEW reply \in SomeReplies, NEW strict \in BOOLEAN
    PROVE  \/ \E g \in Finding : KeepJudged(f, reply, strict) = <<g>>
           \/ /\ KeepJudged(f, reply, strict) = Gone /\ IsVerdict(reply)
              /\ reply.decision \in {"false_positive"} \cup (IF strict THEN {"uncertain"} ELSE {})
<1>1. Enriched(f) \in Finding
  BY EnrichedIsFinding
<1>2. Judged(f, reply) \in Finding
  <2> DEFINE g == [f EXCEPT !.severity = IF reply.severity = NoSeverity THEN @ ELSE reply.severity,
                            !.confidence = reply.confidence,
                            !.status = IF reply.decision = "uncertain" THEN @ ELSE "confirmed"]
  <2>1. reply.severity \in Severities \cup {NoSeverity} /\ reply.confidence \in 0..10
    BY BatchAssumption DEF SomeReplies, LlmReplies
  <2>2. g \in Finding
    BY <2>1 DEF Finding
  <2> QED
    BY <2>2, EnrichedIsFinding DEF Judged
<1> QED
  BY <1>1, <1>2 DEF KeepJudged, Gone

\* Of a batch that is judged by an LLM only what a verdict said is gone; of one that the
\* heuristics judge, however often, nothing that was worth keeping.
VlInv ==
    /\ vlJob \in [batch : Batches, llm : BOOLEAN, strict : BOOLEAN] \cup {NoJob}
    /\ vlJob.batch \in Seq(Finding)
    /\ vlRound \in 0..MaxRounds /\ vlNext \in 1..(Len(vlJob.batch) + 1)
    /\ DOMAIN vlNow = DOMAIN vlJob.batch
    /\ vlHeard = [i \in DOMAIN vlJob.batch |-> vlHeard[i]]
    /\ vlNow = [i \in DOMAIN vlJob.batch |-> vlNow[i]]
    /\ \A i \in DOMAIN vlNow : vlNow[i] = Gone \/ \E f \in Finding : vlNow[i] = <<f>>
    /\ vlRound = 0 => vlNext = 1 /\ vlJob = NoJob
    /\ vlJob.llm => vlRound <= 1
    /\ vlJob.llm =>
         \A i \in DOMAIN vlNow :
            vlNow[i] = Gone =>
                /\ i < vlNext /\ IsVerdict(vlHeard[i])
                /\ vlHeard[i].decision \in {"false_positive"} \cup (IF vlJob.strict THEN {"uncertain"} ELSE {})
    /\ ~vlJob.llm /\ ~vlJob.strict =>
         \A i \in DOMAIN vlNow :
            WorthKeeping(vlJob.batch[i]) => vlNow[i] # Gone /\ WorthKeeping(vlNow[i][1])

LEMMA VlStarts ==
    ASSUME VlInit
    PROVE  VlInv
<1>1. vlJob.batch = <<>> /\ Len(vlJob.batch) = 0 /\ vlJob.batch \in Seq(Finding) /\ DOMAIN vlJob.batch = {} /\ vlJob.llm = FALSE
  BY DEF VlInit, NoJob
<1> QED
  BY <1>1, BatchAssumption DEF VlInit, VlInv

LEMMA VlBeginKeeps ==
    ASSUME VlInv, NEW batch \in Batches, NEW llm \in BOOLEAN, NEW strict \in BOOLEAN,
           VlBegin([batch |-> batch, llm |-> llm, strict |-> strict])
    PROVE  VlInv'
<1> DEFINE job == [batch |-> batch, llm |-> llm, strict |-> strict]
<1>1. /\ vlJob' = job /\ job.batch = batch /\ job.llm = llm /\ job.strict = strict
      /\ vlRound' = 1 /\ vlNext' = 1
      /\ vlNow' = [i \in DOMAIN batch |-> <<batch[i]>>] /\ vlHeard' = [i \in DOMAIN batch |-> NoReply]
  BY DEF VlBegin, VlInv
<1>2. batch \in Seq(Finding) /\ Len(batch) \in Nat /\ DOMAIN batch = 1..Len(batch) /\ 1 \in 0..MaxRounds
      /\ job \in [batch : Batches, llm : BOOLEAN, strict : BOOLEAN]
  BY BatchAssumption, LenProperties
<1> HIDE DEF job
<1>3. \A i \in DOMAIN batch : /\ batch[i] \in Finding /\ vlNow'[i] = <<batch[i]>> /\ vlNow'[i] # Gone /\ vlNow'[i][1] = batch[i]
  BY <1>1, <1>2 DEF Gone
<1> QED
  BY <1>1, <1>2, <1>3 DEF VlInv

\* One position is judged.
LEMMA JudgingKeeps ==
    ASSUME VlInv, Pending, NEW kept, NEW f \in Finding, vlNow[vlNext] = <<f>>,
           vlNow' = [vlNow EXCEPT ![vlNext] = kept], vlNext' = vlNext + 1, vlJob' = vlJob, vlRound' = vlRound,
           DOMAIN vlHeard' = DOMAIN vlHeard, vlHeard' = [i \in DOMAIN vlJob.batch |-> vlHeard'[i]],
           \A i \in DOMAIN vlHeard \ {vlNext} : vlHeard'[i] = vlHeard[i],
           kept = Gone \/ \E g \in Finding : kept = <<g>>,
           vlJob.llm /\ kept = Gone =>
                /\ IsVerdict(vlHeard'[vlNext])
                /\ vlHeard'[vlNext].decision \in {"false_positive"} \cup (IF vlJob.strict THEN {"uncertain"} ELSE {}),
           ~vlJob.llm /\ ~vlJob.strict /\ WorthKeeping(f) => kept # Gone /\ WorthKeeping(kept[1])
    PROVE  VlInv'
<1>1. Len(vlJob.batch) \in Nat /\ DOMAIN vlJob.batch = 1..Len(vlJob.batch) /\ vlNext \in DOMAIN vlNow /\ vlNext \in Nat
      /\ vlNext + 1 \in 1..(Len(vlJob.batch) + 1) /\ DOMAIN vlHeard = DOMAIN vlJob.batch
  BY LenProperties DEF VlInv, Pending
<1>2. vlNow'[vlNext] = kept /\ \A i \in DOMAIN vlNow \ {vlNext} : vlNow'[i] = vlNow[i]
  BY <1>1
<1>3. \A i \in DOMAIN vlNow : i < vlNext \/ i = vlNext => i < vlNext + 1
  BY <1>1 DEF VlInv
<1>4. vlNow[vlNext][1] = f /\ vlRound' # 0 /\ DOMAIN vlNow' = DOMAIN vlNow
  <2>1. <<f>>[1] = f /\ ~(0 > 0)
    OBVIOUS
  <2> QED
    BY <2>1 DEF Pending
<1>5. ASSUME vlJob.llm, NEW i \in DOMAIN vlNow, vlNow'[i] = Gone
      PROVE  /\ i < vlNext + 1 /\ IsVerdict(vlHeard'[i])
             /\ vlHeard'[i].decision \in {"false_positive"} \cup (IF vlJob.strict THEN {"uncertain"} ELSE {})
  <2>1. CASE i = vlNext
    BY <1>2, <1>3, <1>5, <2>1
  <2>2. CASE i # vlNext
    <3>1. vlNow[i] = Gone /\ vlHeard'[i] = vlHeard[i]
      BY <1>1, <1>2, <1>5, <2>2 DEF VlInv
    <3> QED
      BY <1>3, <1>5, <3>1 DEF VlInv
  <2> QED
    BY <2>1, <2>2
<1>6. ~vlJob.llm /\ ~vlJob.strict =>
         \A i \in DOMAIN vlNow :
            WorthKeeping(vlJob.batch[i]) => vlNow'[i] # Gone /\ WorthKeeping(vlNow'[i][1])
  BY <1>1, <1>2, <1>4 DEF VlInv
<1>7. vlNow' = [i \in DOMAIN vlJob.batch |-> vlNow'[i]]
  BY <1>4 DEF VlInv
<1>8. \A i \in DOMAIN vlNow : vlNow'[i] = Gone \/ \E g \in Finding : vlNow'[i] = <<g>>
  BY <1>2 DEF VlInv
<1>9. vlHeard' = [i \in DOMAIN vlJob'.batch |-> vlHeard'[i]] /\ vlNext' \in 1..(Len(vlJob'.batch) + 1)
  BY <1>1
<1> QED
  BY <1>4, <1>5, <1>6, <1>7, <1>8, <1>9 DEF VlInv

LEMMA VlMoves ==
    ASSUME VlInv, [VlNext]_vlVars
    PROVE  VlInv'
<1>1. ASSUME NEW batch \in Batches, NEW llm \in BOOLEAN, NEW strict \in BOOLEAN,
             VlBegin([batch |-> batch, llm |-> llm, strict |-> strict])
      PROVE  VlInv'
  BY <1>1, VlBeginKeeps
<1>0. /\ vlJob.strict \in BOOLEAN /\ (Pending => vlRound # 0)
      /\ Len(vlJob.batch) \in Nat /\ DOMAIN vlJob.batch = 1..Len(vlJob.batch) /\ vlNext \in Nat
      /\ Pending => vlNext \in DOMAIN vlNow /\ vlNext + 1 \in 1..(Len(vlJob.batch) + 1)
  <2>1. vlJob.strict \in BOOLEAN
    <3>1. NoJob.strict \in BOOLEAN
      BY DEF NoJob
    <3>2. \A job \in [batch : Batches, llm : BOOLEAN, strict : BOOLEAN] : job.strict \in BOOLEAN
      OBVIOUS
    <3> QED
      BY <3>1, <3>2 DEF VlInv
  <2>2. ~(0 > 0)
    OBVIOUS
  <2> QED
    BY <2>1, <2>2, LenProperties DEF VlInv, Pending
<1>2. CASE SkipGone
  <2>1. vlNext' = vlNext + 1 /\ vlRound # 0 /\ UNCHANGED <<vlJob, vlRound, vlNow, vlHeard>> /\ vlNext + 1 \in 1..(Len(vlJob.batch) + 1)
    BY <1>0, <1>2 DEF SkipGone, Pending
  <2>2. vlJob.llm => \A i \in DOMAIN vlNow : i < vlNext => i < vlNext + 1
    BY <1>0 DEF VlInv
  <2> QED
    BY <1>0, <2>1, <2>2 DEF VlInv
<1>3. CASE JudgeAlone
  <2>1. PICK f \in Finding : vlNow[vlNext] = <<f>>
    BY <1>0, <1>3 DEF JudgeAlone, VlInv
  <2>2. /\ vlNow' = [vlNow EXCEPT ![vlNext] = KeepHeuristic(f, vlJob.strict)] /\ ~vlJob.llm /\ Pending
        /\ vlNext' = vlNext + 1 /\ UNCHANGED <<vlJob, vlRound, vlHeard>>
    BY <1>3, <2>1 DEF JudgeAlone
  <2>3. /\ KeepHeuristic(f, vlJob.strict) = Gone \/ \E g \in Finding : KeepHeuristic(f, vlJob.strict) = <<g>>
    BY HeuristicKeepsFindings
  <2>4. ~vlJob.strict /\ WorthKeeping(f) =>
           KeepHeuristic(f, vlJob.strict) # Gone /\ WorthKeeping(KeepHeuristic(f, vlJob.strict)[1])
    <3> SUFFICES ASSUME ~vlJob.strict, WorthKeeping(f)
                 PROVE  KeepHeuristic(f, vlJob.strict) # Gone /\ WorthKeeping(KeepHeuristic(f, vlJob.strict)[1])
      OBVIOUS
    <3>1. vlJob.strict = FALSE
      BY <1>0
    <3>2. KeepHeuristic(f, FALSE) = <<HeuristicFinding(f)>> /\ WorthKeeping(HeuristicFinding(f))
      BY WorthStays
    <3>3. <<HeuristicFinding(f)>> # Gone /\ <<HeuristicFinding(f)>>[1] = HeuristicFinding(f)
      BY DEF Gone
    <3>4. KeepHeuristic(f, vlJob.strict) = <<HeuristicFinding(f)>>
      BY <3>1, <3>2
    <3> HIDE DEF Gone
    <3> QED
      BY <3>2, <3>3, <3>4
  <2>5. vlHeard' = [i \in DOMAIN vlJob.batch |-> vlHeard'[i]]
    BY <2>2 DEF VlInv
  <2> QED
    BY <2>1, <2>2, <2>3, <2>4, <2>5, JudgingKeeps
<1>4. ASSUME NEW reply \in SomeReplies, JudgeWithLlm(reply) PROVE VlInv'
  <2>1. PICK f \in Finding : vlNow[vlNext] = <<f>>
    BY <1>0, <1>4 DEF JudgeWithLlm, VlInv
  <2>2. /\ vlNow' = [vlNow EXCEPT ![vlNext] = KeepJudged(f, reply, vlJob.strict)] /\ vlJob.llm /\ Pending
        /\ vlNext' = vlNext + 1 /\ vlJob' = vlJob /\ vlRound' = vlRound
        /\ vlHeard' = [vlHeard EXCEPT ![vlNext] = reply]
    BY <1>4, <2>1 DEF JudgeWithLlm
  <2>3. vlJob.strict \in BOOLEAN
    BY <1>0
  <2>4. vlHeard = [i \in DOMAIN vlJob.batch |-> vlHeard[i]] /\ DOMAIN vlNow = DOMAIN vlJob.batch
    BY DEF VlInv
  <2>5. /\ DOMAIN vlHeard' = DOMAIN vlHeard /\ vlHeard' = [i \in DOMAIN vlJob.batch |-> vlHeard'[i]]
        /\ vlHeard'[vlNext] = reply /\ \A i \in DOMAIN vlHeard \ {vlNext} : vlHeard'[i] = vlHeard[i]
    BY <1>0, <2>2, <2>4
  <2>6. KeepJudged(f, reply, vlJob.strict) = Gone =>
           IsVerdict(reply) /\ reply.decision \in {"false_positive"} \cup (IF vlJob.strict THEN {"uncertain"} ELSE {})
    BY <2>3, JudgedStays DEF Gone
  <2>7. KeepJudged(f, reply, vlJob.strict) = Gone \/ \E g \in Finding : KeepJudged(f, reply, vlJob.strict) = <<g>>
    BY <2>3, JudgedStays
  <2> DEFINE kept == KeepJudged(f, reply, vlJob.strict)
  <2>8. vlJob.llm /\ kept = Gone =>
           /\ IsVerdict(vlHeard'[vlNext])
           /\ vlHeard'[vlNext].decision \in {"false_positive"} \cup (IF vlJob.strict THEN {"uncertain"} ELSE {})
    BY <2>5, <2>6
  <2>9. vlNow' = [vlNow EXCEPT ![vlNext] = kept] /\ (kept = Gone \/ \E g \in Finding : kept = <<g>>)
    BY <2>2, <2>7
  <2>10. Pending /\ vlNext' = vlNext + 1 /\ vlJob' = vlJob /\ vlRound' = vlRound
    BY <2>2
  <2>11. ~vlJob.llm /\ ~vlJob.strict /\ WorthKeeping(f) => kept # Gone /\ WorthKeeping(kept[1])
    BY <2>2
  <2>12. \A i \in DOMAIN vlHeard \ {vlNext} : vlHeard'[i] = vlHeard[i]
    BY <2>5
  <2>13. DOMAIN vlHeard' = DOMAIN vlHeard /\ vlHeard' = [i \in DOMAIN vlJob.batch |-> vlHeard'[i]]
    BY <2>5
  <2> HIDE DEF kept
  <2> QED
    BY <2>1, <2>8, <2>9, <2>10, <2>11, <2>12, <2>13, JudgingKeeps
<1>5. CASE HandInAgain
  <2>1. /\ vlRound' \in 0..MaxRounds /\ vlRound' # 0 /\ vlNext' = 1 /\ ~vlJob.llm
        /\ vlJob' = vlJob /\ vlNow' = vlNow /\ vlHeard' = [i \in DOMAIN vlHeard |-> NoReply]
    BY <1>5, BatchAssumption DEF HandInAgain, VlInv
  <2>2. DOMAIN vlHeard = DOMAIN vlJob.batch
    BY DEF VlInv
  <2>3. vlHeard' = [i \in DOMAIN vlJob.batch |-> vlHeard'[i]] /\ 1 \in 1..(Len(vlJob.batch) + 1)
    BY <1>0, <2>1, <2>2
  <2>4. ~vlJob.strict =>
           \A i \in DOMAIN vlNow :
              WorthKeeping(vlJob.batch[i]) => vlNow[i] # Gone /\ WorthKeeping(vlNow[i][1])
    BY <2>1 DEF VlInv
  <2>5. vlNow = [i \in DOMAIN vlJob.batch |-> vlNow[i]] /\ DOMAIN vlNow = DOMAIN vlJob.batch
        /\ (\A i \in DOMAIN vlNow : vlNow[i] = Gone \/ \E f \in Finding : vlNow[i] = <<f>>)
    BY DEF VlInv
  <2> QED
    BY <2>1, <2>3, <2>4, <2>5 DEF VlInv
<1>6. CASE UNCHANGED vlVars
  BY <1>6 DEF vlVars, VlInv
<1> QED
  BY <1>1, <1>2, <1>3, <1>4, <1>5, <1>6 DEF VlNext

\* For every batch: a provider that fails costs no finding, and neither do the heuristics
\* of one resume after the other if it was worth keeping (Validator::validate_batch).
THEOREM WorthSurvives == VlSpec => []FindingsSurvive
<1>1. VlInit => VlInv
  BY VlStarts
<1>2. VlInv /\ [VlNext]_vlVars => VlInv'
  BY VlMoves
<1>3. VlInv => FindingsSurvive
  BY DEF VlInv, FindingsSurvive, BatchSurvives, OnlyNoiseErodes, WorthKeeping
<1> QED
  BY <1>1, <1>2, <1>3, PTL DEF VlSpec

-----------------------------------------------------------------------------
(* The pattern search.  The loop invariant: what has been found so far are the offsets
   below psAt, each once and in order. *)

\* What was found, as a set, and whether it is in order.
FoundSoFar == {psMatches[i] : i \in 1..Len(psMatches)}
InOrder == \A i, j \in 1..Len(psMatches) : i < j => psMatches[i] < psMatches[j]

\* Patterns the claim is about.
Anchored == psPattern # <<>> /\ psPattern[1] # AnyByte

\* The loop invariant.
LoopInv ==
    /\ psStage = "idle" => psAt = 0 /\ psMatches = <<>>
    /\ Anchored /\ psStage = "searching" =>
          FoundSoFar = {m \in Offsets(psData, psPattern) : m < psAt} /\ InOrder
    /\ Anchored /\ psStage = "done" => FoundSoFar = Offsets(psData, psPattern) /\ InOrder

\* The plain search lists one offset after the other.
LEMMA CountingUp ==
    ASSUME NEW n \in Int
    PROVE  [i \in 1..n |-> i - 1] \in Seq(Nat)
<1>1. CASE n \in Nat
  BY <1>1
<1>2. CASE n \notin Nat
  <2>1. 1..n = {}
    BY <1>2
  <2>2. [i \in 1..n |-> i - 1] \in [1..0 -> Nat]
    BY <2>1
  <2> QED
    BY <2>2
<1> QED
  BY <1>1, <1>2

\* A nonempty set of natural numbers has a least element.
LEMMA LeastExists ==
    ASSUME NEW S, S \subseteq Nat, S # {}
    PROVE  \E m \in S : \A n \in S : m <= n
<1>1. PICK m \in S : \A n \in S : ~(<<n, m>> \in OpToRel(<, Nat))
  BY NatLessThanWellFounded, WFMin
<1>2. \A n \in S : <<n, m>> \in Nat \X Nat
  BY <1>1
<1>3. \A n \in S : ~(n < m)
  BY <1>1, <1>2 DEF OpToRel
<1>4. \A n \in S : n \in Nat /\ m \in Nat /\ ~(n < m) => m <= n
  OBVIOUS
<1>5. \A n \in S : m <= n
  BY <1>1, <1>3, <1>4
<1> QED
  BY <1>1, <1>5

\* The first fixed byte is a place of the pattern.
LEMMA FirstFixedIsNat ==
    ASSUME PsTypeOK, Fixed # {}
    PROVE  FirstFixed \in Nat \ {0}
<1>1. Fixed \subseteq Nat \ {0}
  BY LenProperties DEF Fixed, PsTypeOK
<1>2. \E m \in Fixed : \A n \in Fixed : m <= n
  BY <1>1, LeastExists
<1> QED
  BY <1>1, <1>2 DEF FirstFixed

\* For a pattern that begins with a fixed byte it is the first place.
LEMMA AnchoredFirst ==
    ASSUME PsTypeOK, Anchored
    PROVE  Fixed # {} /\ FirstFixed = 1
<1>1. Len(psPattern) \in Nat /\ Len(psPattern) # 0
  BY LenProperties, EmptySeq DEF PsTypeOK, Anchored
<1>2. 1 \in Fixed
  BY <1>1 DEF Fixed, Anchored
<1>3. \A j \in Fixed : j \in Nat /\ 1 <= j
  BY <1>1 DEF Fixed
<1> QED
  BY <1>2, <1>3 DEF FirstFixed

\* Every variable keeps its type, whatever is searched for (scan_pattern_fast).
THEOREM PatternTypeCorrect == PsSpec => []PsTypeOK
<1>1. PsInit => PsTypeOK
  BY DEF PsInit, PsTypeOK
<1>2. PsTypeOK /\ [PsNext]_psVars => PsTypeOK'
  <2> SUFFICES ASSUME PsTypeOK, [PsNext]_psVars PROVE PsTypeOK'
    OBVIOUS
  <2>1. ASSUME NEW data \in PsDatas, NEW pattern \in PsPatterns, PsBegin(data, pattern) PROVE PsTypeOK'
    BY <2>1, PatternAssumption DEF PsBegin, PsTypeOK
  <2>2. CASE SearchPlainly
    <3> DEFINE n == IF psPattern = <<>> \/ Len(psPattern) > Len(psData) THEN 0 ELSE Len(psData) - Len(psPattern) + 1
    <3>1. n \in Int
      BY LenProperties DEF PsTypeOK
    <3>2. psMatches' = [i \in 1..n |-> i - 1]
      BY <2>2 DEF SearchPlainly
    <3>3. psMatches' \in Seq(Nat)
      <4> HIDE DEF n
      <4> QED BY <3>1, <3>2, CountingUp
    <3> QED
      BY <2>2, <3>3 DEF SearchPlainly, PsTypeOK
  <2>3. CASE Jump
    <3>1. PICK k \in PlacesFrom(psAt) :
             /\ psMatches' = IF FitsAt(psData, psPattern, StartAt(k)) THEN Append(psMatches, StartAt(k)) ELSE psMatches
             /\ psAt' = NextAt(k)
      BY <2>3 DEF Jump
    <3>2. k \in Nat
      BY <3>1, LenProperties DEF PlacesFrom, PsTypeOK
    <3>3. StartAt(k) \in Nat
      BY <2>3, <3>2, FirstFixedIsNat DEF StartAt, Jump
    <3>4. psMatches' \in Seq(Nat)
      BY <3>1, <3>3, AppendProperties DEF PsTypeOK
    <3> QED
      BY <2>3, <3>1, <3>2, <3>4 DEF Jump, NextAt, PsTypeOK
  <2>4. CASE StopSearch
    BY <2>4 DEF StopSearch, PsTypeOK
  <2>5. CASE UNCHANGED psVars
    BY <2>5 DEF psVars, PsTypeOK
  <2> QED
    BY <2>1, <2>2, <2>3, <2>4, <2>5 DEF PsNext
<1> QED
  BY <1>1, <1>2, PTL DEF PsSpec

\* An offset lies at an occurrence of the first byte, with room behind it.
LEMMA OffsetsAreFirstBytes ==
    ASSUME PsTypeOK, Anchored
    PROVE  \A m \in Offsets(psData, psPattern) :
              m \in Nat /\ m < Len(psData) /\ m + Len(psPattern) <= Len(psData)
              /\ FitsAt(psData, psPattern, m) /\ psData[m + 1] = psPattern[FirstFixed]
<1>1. Len(psPattern) \in Nat /\ Len(psPattern) # 0 /\ Len(psData) \in Nat
  BY LenProperties, EmptySeq DEF PsTypeOK, Anchored
<1>2. FirstFixed = 1
  BY AnchoredFirst
<1> SUFFICES ASSUME NEW m \in Offsets(psData, psPattern)
             PROVE  m \in Nat /\ m < Len(psData) /\ m + Len(psPattern) <= Len(psData)
                    /\ FitsAt(psData, psPattern, m) /\ psData[m + 1] = psPattern[FirstFixed]
  OBVIOUS
<1>3. m \in 0..(Len(psData) - 1) /\ FitsAt(psData, psPattern, m)
  BY DEF Offsets, Anchored
<1>4. 1 \in 1..Len(psPattern) /\ psPattern[1] # AnyByte
  BY <1>1 DEF Anchored
<1> QED
  BY <1>1, <1>2, <1>3, <1>4 DEF FitsAt

\* A jump passes over no offset: those below the next start are those below
\* this one and the place it looked at, if the pattern lies there.
LEMMA JumpKeepsLoop ==
    ASSUME PsTypeOK, LoopInv, Jump, Anchored
    PROVE  LoopInv'
<1>1. PICK k \in PlacesFrom(psAt) :
         /\ \A other \in PlacesFrom(psAt) : k <= other
         /\ StartAt(k) + Len(psPattern) <= Len(psData)
         /\ psMatches' = IF FitsAt(psData, psPattern, StartAt(k)) THEN Append(psMatches, StartAt(k)) ELSE psMatches
         /\ psAt' = NextAt(k)
  BY DEF Jump
<1>2. /\ Len(psPattern) \in Nat /\ Len(psData) \in Nat
      /\ k \in Nat /\ psAt \in Nat /\ psAt <= k /\ k < Len(psData)
  BY <1>1, LenProperties DEF PlacesFrom, PsTypeOK
<1>3. StartAt(k) = k
  BY <1>2, AnchoredFirst DEF StartAt
<1>4. psData' = psData /\ psPattern' = psPattern /\ psStage = "searching" /\ psStage' = "searching" /\ psAt' = k + 1
  BY <1>1 DEF Jump, NextAt
<1>5. FoundSoFar = {m \in Offsets(psData, psPattern) : m < psAt} /\ InOrder
  BY <1>4 DEF LoopInv
<1>6. \A m \in Offsets(psData, psPattern) : m \in Nat /\ (m < psAt \/ k <= m)
  <2> SUFFICES ASSUME NEW m \in Offsets(psData, psPattern) PROVE m \in Nat /\ (m < psAt \/ k <= m)
    OBVIOUS
  <2>1. m \in Nat /\ m < Len(psData) /\ psData[m + 1] = psPattern[FirstFixed]
    BY OffsetsAreFirstBytes
  <2>2. m < psAt \/ m \in PlacesFrom(psAt)
    BY <1>2, <2>1 DEF PlacesFrom
  <2> QED
    BY <1>1, <2>1, <2>2
<1>7. psMatches \in Seq(Nat) /\ Len(psMatches) \in Nat
  BY LenProperties DEF PsTypeOK
<1>8. CASE FitsAt(psData, psPattern, k)
  <2>1. psMatches' = Append(psMatches, k)
    BY <1>1, <1>3, <1>8
  <2>2. Len(psMatches') = Len(psMatches) + 1 /\ psMatches'[Len(psMatches) + 1] = k
        /\ \A i \in 1..Len(psMatches) : psMatches'[i] = psMatches[i]
    BY <1>2, <1>7, <2>1, AppendProperties
  <2>3. FoundSoFar' = FoundSoFar \cup {k}
    BY <1>7, <2>2 DEF FoundSoFar
  <2>4. k \in Offsets(psData, psPattern)
    BY <1>2, <1>8 DEF Offsets, Anchored
  <2>5. {m \in Offsets(psData, psPattern) : m < k + 1} = {m \in Offsets(psData, psPattern) : m < psAt} \cup {k}
    <3>1. ASSUME NEW m \in Offsets(psData, psPattern)
          PROVE  m < k + 1 <=> m < psAt \/ m = k
      BY <1>2, <1>6, <3>1
    <3> QED
      BY <2>4, <3>1
  <2>6. \A i \in 1..Len(psMatches) : psMatches[i] \in Nat /\ psMatches[i] < k
    <3>1. \A i \in 1..Len(psMatches) : psMatches[i] \in FoundSoFar
      BY DEF FoundSoFar
    <3> QED
      BY <1>2, <1>5, <1>6, <3>1
  <2>7. InOrder'
    <3> SUFFICES ASSUME NEW i \in 1..Len(psMatches'), NEW j \in 1..Len(psMatches'), i < j
                 PROVE  psMatches'[i] < psMatches'[j]
      BY DEF InOrder
    <3>1. i \in 1..Len(psMatches) /\ (j \in 1..Len(psMatches) \/ j = Len(psMatches) + 1)
      BY <1>7, <2>2
    <3>2. CASE j \in 1..Len(psMatches)
      BY <1>5, <2>2, <3>1, <3>2 DEF InOrder
    <3>3. CASE j = Len(psMatches) + 1
      BY <2>2, <2>6, <3>1, <3>3
    <3> QED
      BY <3>1, <3>2, <3>3
  <2> QED
    BY <1>4, <1>5, <2>3, <2>5, <2>7 DEF LoopInv
<1>9. CASE ~FitsAt(psData, psPattern, k)
  <2>1. psMatches' = psMatches
    BY <1>1, <1>3, <1>9
  <2>2. k \notin Offsets(psData, psPattern)
    BY <1>9, OffsetsAreFirstBytes
  <2>3. {m \in Offsets(psData, psPattern) : m < k + 1} = {m \in Offsets(psData, psPattern) : m < psAt}
    BY <1>2, <1>6, <2>2
  <2>4. FoundSoFar' = FoundSoFar /\ InOrder' = InOrder
    BY <2>1 DEF FoundSoFar, InOrder
  <2> QED
    BY <1>4, <1>5, <2>3, <2>4 DEF LoopInv
<1> QED
  BY <1>8, <1>9

\* The search stops only where no offset is left.
LEMMA StopKeepsLoop ==
    ASSUME PsTypeOK, LoopInv, StopSearch, Anchored
    PROVE  LoopInv'
<1>1. psData' = psData /\ psPattern' = psPattern /\ psMatches' = psMatches
      /\ psStage = "searching" /\ psStage' = "done"
  BY DEF StopSearch
<1>2. FoundSoFar = {m \in Offsets(psData, psPattern) : m < psAt} /\ InOrder
  BY <1>1 DEF LoopInv
<1>3. FoundSoFar' = FoundSoFar /\ InOrder' = InOrder
  BY <1>1 DEF FoundSoFar, InOrder
<1>4. Len(psPattern) \in Nat /\ Len(psData) \in Nat /\ psAt \in Nat
  BY LenProperties DEF PsTypeOK
<1>5. \A m \in Offsets(psData, psPattern) : m < psAt
  <2> SUFFICES ASSUME NEW m \in Offsets(psData, psPattern), ~(m < psAt) PROVE FALSE
    OBVIOUS
  <2>1. /\ m \in Nat /\ m < Len(psData) /\ m + Len(psPattern) <= Len(psData)
        /\ psData[m + 1] = psPattern[FirstFixed]
    BY OffsetsAreFirstBytes
  <2>2. m \in PlacesFrom(psAt)
    BY <1>4, <2>1 DEF PlacesFrom
  <2>3. psAt + Len(psPattern) <= Len(psData)
    BY <1>4, <2>1
  <2>4. PICK k \in PlacesFrom(psAt) : /\ \A other \in PlacesFrom(psAt) : k <= other
                                      /\ StartAt(k) + Len(psPattern) > Len(psData)
    BY <1>4, <2>2, <2>3 DEF StopSearch
  <2>5. k \in Nat /\ k <= m
    BY <1>4, <2>2, <2>4 DEF PlacesFrom
  <2>6. StartAt(k) = k
    BY <2>5, AnchoredFirst DEF StartAt
  <2> QED
    BY <1>4, <2>1, <2>4, <2>5, <2>6
<1>6. Offsets(psData, psPattern) = {m \in Offsets(psData, psPattern) : m < psAt}
  BY <1>5
<1> QED
  BY <1>1, <1>2, <1>3, <1>6 DEF LoopInv

\* For all data and all patterns that begin with a fixed byte the accelerated search
\* (scan_pattern_fast) finds what the plain one (scan_pattern) finds, overlapping
\* occurrences included.
THEOREM FastFindsAll == PsSpec => []FastAgrees
<1>1. PsInit => LoopInv
  <2> SUFFICES ASSUME PsInit PROVE LoopInv
    OBVIOUS
  <2>1. psStage = "idle" /\ psAt = 0 /\ psMatches = <<>>
    BY DEF PsInit
  <2> QED
    BY <2>1 DEF LoopInv
<1>2. PsTypeOK /\ LoopInv /\ [PsNext]_psVars => LoopInv'
  <2> SUFFICES ASSUME PsTypeOK, LoopInv, [PsNext]_psVars PROVE LoopInv'
    OBVIOUS
  <2>1. ASSUME NEW data \in PsDatas, NEW pattern \in PsPatterns, PsBegin(data, pattern) PROVE LoopInv'
    <3>1. psStage = "idle" /\ psStage' = "searching" /\ psAt' = 0 /\ psMatches' = <<>>
      BY <2>1 DEF PsBegin, LoopInv
    <3>2. Len(psMatches') = 0
      BY <3>1
    <3>3. FoundSoFar' = {} /\ InOrder'
      BY <3>2 DEF FoundSoFar, InOrder
    <3>4. psData' \in Seq(Bytes) /\ psPattern' \in Seq(Bytes \cup {AnyByte})
      BY <2>1, PatternAssumption DEF PsBegin
    <3>5. \A m \in Offsets(psData', psPattern') : m \in Nat
      BY <3>4, LenProperties DEF Offsets
    <3>6. {m \in Offsets(psData', psPattern') : m < 0} = {}
      BY <3>5
    <3> QED
      BY <3>1, <3>3, <3>6 DEF LoopInv
  <2>2. CASE SearchPlainly
    <3>1. ~Anchored
      BY <2>2, AnchoredFirst DEF SearchPlainly
    <3>2. Anchored' = Anchored /\ psStage' = "done"
      BY <2>2 DEF SearchPlainly, Anchored
    <3> QED
      BY <3>1, <3>2 DEF LoopInv
  <2>3. CASE Jump
    <3>1. CASE Anchored
      BY <2>3, <3>1, JumpKeepsLoop
    <3>2. CASE ~Anchored
      <4>1. ~Anchored' /\ psStage' = "searching"
        BY <2>3, <3>2 DEF Jump, Anchored
      <4> QED
        BY <4>1 DEF LoopInv
    <3> QED
      BY <3>1, <3>2
  <2>4. CASE StopSearch
    <3>1. CASE Anchored
      BY <2>4, <3>1, StopKeepsLoop
    <3>2. CASE ~Anchored
      <4>1. ~Anchored' /\ psStage' = "done"
        BY <2>4, <3>2 DEF StopSearch, Anchored
      <4> QED
        BY <4>1 DEF LoopInv
    <3> QED
      BY <3>1, <3>2
  <2>5. CASE UNCHANGED psVars
    BY <2>5 DEF psVars, LoopInv, FoundSoFar, InOrder, Anchored
  <2> QED
    BY <2>1, <2>2, <2>3, <2>4, <2>5 DEF PsNext
<1>3. LoopInv => FastAgrees
  BY DEF LoopInv, FastAgrees, FoundSoFar, InOrder, Anchored
<1> QED
  BY <1>1, <1>2, <1>3, PatternTypeCorrect, PTL DEF PsSpec

-----------------------------------------------------------------------------
(* Data at rest *)

\* Everything that can be seen of an item.
VisibleIn(job) == UNION {job.items[i].features : i \in DOMAIN job.items}
AllVisible == {"unreadable"} \cup UNION {VisibleIn(job) : job \in LcJobs}

\* What the items looked at so far give, each by itself.
GivenBy(job, seen) == UNION {{i} \X FindingsOf(job, job.items[i], seen[i]) : i \in DOMAIN seen}

\* While the scan goes on its findings are those of the items it has looked at, none of
\* which panics.
LcInv ==
    /\ lcJob \in LcJobs \cup {NothingToScan}
    /\ lcSeen \in Seq(SUBSET AllVisible)
    /\ Len(lcSeen) <= Len(lcJob.items)
    /\ lcStage \in {"idle", "looking", "done"}
    /\ lcStage = "idle" => lcSeen = <<>> /\ lcFound = {}
    /\ lcStage = "looking" =>
         /\ lcError = "none"
         /\ lcFound = GivenBy(lcJob, lcSeen)
         /\ lcJob.scanner = "files" => \A i \in DOMAIN lcSeen : ~FilePanics(lcSeen[i], lcJob.options)
    /\ ItemsAreIndependent

LEMMA ItemsAreItems ==
    ASSUME NEW job \in LcJobs \cup {NothingToScan}
    PROVE  /\ job.items \in Seq({job.items[i] : i \in DOMAIN job.items})
           /\ Len(job.items) \in Nat /\ DOMAIN job.items = 1..Len(job.items)
           /\ \A i \in DOMAIN job.items : job.items[i].features \subseteq AllVisible
<1>1. job.items \in Seq({job.items[i] : i \in DOMAIN job.items})
  <2>1. CASE job \in LcJobs
    BY <2>1, LocalAssumption DEF IsLocalJob
  <2>2. CASE job = NothingToScan
    <3>1. job.items = <<>>
      BY <2>2 DEF NothingToScan
    <3> QED
      BY <3>1
  <2> QED
    BY <2>1, <2>2
<1>2. Len(job.items) \in Nat /\ DOMAIN job.items = 1..Len(job.items)
  BY <1>1, LenProperties
<1>3. ASSUME NEW i \in DOMAIN job.items PROVE job.items[i].features \subseteq AllVisible
  <2>1. job # NothingToScan
    <3>1. NothingToScan.items = <<>>
      BY DEF NothingToScan
    <3> QED
      BY <1>2, <3>1
  <2>2. job.items[i].features \subseteq VisibleIn(job)
    BY <1>3 DEF VisibleIn
  <2> QED
    BY <2>1, <2>2 DEF AllVisible
<1> QED
  BY <1>1, <1>2, <1>3

\* One more item is looked at.
LEMMA LookAtKeeps ==
    ASSUME LcInv, Turn, NEW seen \in SUBSET AllVisible, LookAt(seen),
           lcJob.scanner = "files" => ~FilePanics(seen, lcJob.options)
    PROVE  LcInv'
<1>1. /\ lcSeen' = Append(lcSeen, seen) /\ lcJob' = lcJob /\ lcStage' = lcStage /\ lcError' = lcError
      /\ lcStage = "looking" /\ Len(lcSeen) < Len(lcJob.items)
      /\ lcFound' = lcFound \cup ({Len(lcSeen) + 1} \X FindingsOf(lcJob, lcJob.items[Len(lcSeen) + 1], seen))
  BY DEF LookAt, Turn, Looked, Item
<1>2. /\ lcSeen \in Seq(SUBSET AllVisible) /\ Len(lcSeen) \in Nat /\ DOMAIN lcSeen = 1..Len(lcSeen)
      /\ Len(lcJob.items) \in Nat
  BY ItemsAreItems, LenProperties DEF LcInv
<1> DEFINE n == Len(lcSeen) + 1
<1>3. /\ lcSeen' \in Seq(SUBSET AllVisible) /\ Len(lcSeen') = n /\ lcSeen'[n] = seen
      /\ \A i \in 1..Len(lcSeen) : lcSeen'[i] = lcSeen[i]
  BY <1>1, <1>2, AppendProperties
<1>4. DOMAIN lcSeen' = DOMAIN lcSeen \cup {n}
  BY <1>2, <1>3, LenProperties
<1>5. lcFound' = GivenBy(lcJob, lcSeen')
  <2>1. lcFound = GivenBy(lcJob, lcSeen)
    BY <1>1 DEF LcInv
  <2>2. GivenBy(lcJob, lcSeen') = GivenBy(lcJob, lcSeen) \cup ({n} \X FindingsOf(lcJob, lcJob.items[n], seen))
    <3>1. \A i \in DOMAIN lcSeen : {i} \X FindingsOf(lcJob, lcJob.items[i], lcSeen'[i])
                                     = {i} \X FindingsOf(lcJob, lcJob.items[i], lcSeen[i])
      BY <1>2, <1>3
    <3> HIDE DEF n
    <3> QED
      BY <1>3, <1>4, <3>1 DEF GivenBy
  <2> QED
    BY <1>1, <2>1, <2>2
<1>6. lcJob.scanner = "files" => \A i \in DOMAIN lcSeen' : ~FilePanics(lcSeen'[i], lcJob.options)
  BY <1>1, <1>2, <1>3, <1>4 DEF LcInv
<1> QED
  BY <1>1, <1>2, <1>3, <1>5, <1>6 DEF LcInv, ItemsAreIndependent

\* The scan ends without findings, and somebody is to blame.
LEMMA FailKeeps ==
    ASSUME LcInv, Turn, NEW error, Fail(error), error # "none", error = "Internal" => Panics(Item.features)
    PROVE  LcInv'
<1>1. lcSeen' = lcSeen /\ lcJob' = lcJob /\ lcError' = error /\ lcFound' = {} /\ lcStage' = "done"
  BY DEF Fail
<1>2. Panics(Item.features)' = Panics(Item.features)
  BY <1>1 DEF Panics, Item, Looked
<1> QED
  BY <1>1, <1>2 DEF LcInv, ItemsAreIndependent

LEMMA LcBeginKeeps ==
    ASSUME LcInv, NEW job \in LcJobs, LcBegin(job)
    PROVE  LcInv'
<1>1. /\ lcSeen' = <<>> /\ lcFound' = {} /\ lcJob' = job /\ lcError' = Refusal(job) /\ Len(lcSeen') = 0
      /\ lcStage' = IF lcError' = "none" THEN "looking" ELSE "done"
  BY DEF LcBegin, LcInv
<1>2. Len(job.items) \in Nat /\ lcSeen' \in Seq(SUBSET AllVisible) /\ DOMAIN lcSeen' = {}
  BY <1>1, ItemsAreItems
<1>3. GivenBy(job, lcSeen') = {}
  BY <1>2 DEF GivenBy
<1>4. lcError' # "Internal"
  BY <1>1 DEF Refusal
<1>5. ItemsAreIndependent'
  BY <1>1, <1>4 DEF ItemsAreIndependent
<1> QED
  BY <1>1, <1>2, <1>3, <1>5 DEF LcInv

LEMMA LcEndKeeps ==
    ASSUME LcInv, LcEnd
    PROVE  LcInv'
<1>1. /\ lcSeen' = lcSeen /\ lcFound' = lcFound /\ lcJob' = lcJob /\ lcError' = lcError /\ lcStage' = "done"
      /\ lcStage = "looking" /\ ~ (Len(lcSeen) < Len(lcJob.items))
  BY DEF LcEnd, Turn, Looked
<1>2. Len(lcSeen) = Len(lcJob.items) /\ DOMAIN lcSeen = DOMAIN lcJob.items
  BY <1>1, ItemsAreItems, LenProperties DEF LcInv
<1>3. ItemsAreIndependent'
  BY <1>1, <1>2 DEF LcInv, ItemsAreIndependent, GivenBy
<1> QED
  BY <1>1, <1>3 DEF LcInv

LEMMA LcStarts ==
    ASSUME LcInit
    PROVE  LcInv
<1>1. lcSeen = <<>> /\ Len(lcSeen) = 0 /\ lcSeen \in Seq(SUBSET AllVisible) /\ lcStage = "idle" /\ lcJob = NothingToScan /\ lcFound = {}
  BY DEF LcInit
<1>2. Len(lcJob.items) \in Nat
  BY <1>1, ItemsAreItems
<1> QED
  BY <1>1, <1>2 DEF LcInv, ItemsAreIndependent

LEMMA LcMoves ==
    ASSUME LcInv, [LcNext]_lcVars
    PROVE  LcInv'
<1>0. Turn => Item.features \subseteq AllVisible
  <2> SUFFICES ASSUME Turn PROVE Item.features \subseteq AllVisible
    OBVIOUS
  <2>1. Len(lcSeen) \in Nat /\ Len(lcSeen) < Len(lcJob.items) /\ lcJob \in LcJobs \cup {NothingToScan}
    BY LenProperties DEF LcInv, Turn, Looked
  <2>2. Len(lcSeen) + 1 \in DOMAIN lcJob.items
    BY <2>1, ItemsAreItems
  <2> QED
    BY <2>1, <2>2, ItemsAreItems DEF Item, Looked
<1>1. ASSUME NEW job \in LcJobs, LcBegin(job) PROVE LcInv'
  BY <1>1, LcBeginKeeps
<1>2. CASE LookAtItem
  BY <1>0, <1>2, LookAtKeeps DEF LookAtItem, Panics
<1>3. CASE Unreadable
  <2>1. \A features, options : ~FilePanics(features \cup {"unreadable"}, options)
    BY DEF FilePanics, CutInCharacter, TextRead
  <2>2. Item.features \cup {"unreadable"} \subseteq AllVisible
    <3>1. "unreadable" \in AllVisible
      BY DEF AllVisible
    <3> QED
      BY <1>0, <1>3, <3>1 DEF Unreadable
  <2>3. CASE lcJob.scanner = "files"
    BY <1>3, <2>1, <2>2, <2>3, LookAtKeeps DEF Unreadable
  <2>4. CASE lcJob.scanner # "files"
    BY <1>3, <2>4, LookAtKeeps DEF Unreadable
  <2> QED
    BY <2>3, <2>4
<1>4. CASE ItemPanics
  BY <1>4, FailKeeps DEF ItemPanics
<1>5. CASE FormatUnknown
  BY <1>5, FailKeeps DEF FormatUnknown
<1>6. CASE ItemGone
  BY <1>6, FailKeeps DEF ItemGone
<1>7. CASE LcEnd
  BY <1>7, LcEndKeeps
<1>8. ASSUME NEW told \in SUBSET (IF Turn THEN Item.features ELSE {}), PageAnswers(told) PROVE LcInv'
  BY <1>0, <1>8, LookAtKeeps DEF PageAnswers
<1>9. CASE UNCHANGED lcVars
  <2>1. Panics(Item.features)' = Panics(Item.features)
    BY <1>9 DEF lcVars, Panics, Item, Looked
  <2> QED
    BY <1>9, <2>1 DEF lcVars, LcInv, ItemsAreIndependent
<1> QED
  BY <1>1, <1>2, <1>3, <1>4, <1>5, <1>6, <1>7, <1>8, <1>9 DEF LcNext, LcStep

\* What a scan says of an item is what it would say of it alone, for any number of items,
\* whichever of them cannot be read, are binary or do not answer; a scan that fails says
\* nothing (FileScanner, BrowserScanner, BinaryScanner, NetworkScanner of vest-scanner).
THEOREM ItemsIndependent == LcSpec => []ItemsAreIndependent
<1>1. LcInit => LcInv
  BY LcStarts
<1>2. LcInv /\ [LcNext]_lcVars => LcInv'
  BY LcMoves
<1>3. LcInv => ItemsAreIndependent
  BY DEF LcInv
<1> QED
  BY <1>1, <1>2, <1>3, PTL DEF LcSpec

-----------------------------------------------------------------------------
(* Numbers and sequences *)

\* A nonempty set of natural numbers that has a bound has a greatest element.
LEMMA GreatestExists ==
    ASSUME NEW S, NEW n \in Nat, S \subseteq 1..n, S # {}
    PROVE  \E m \in S : \A i \in S : i <= m
<1> DEFINE Distances == {n - i : i \in S}
<1>1. Distances \subseteq Nat /\ Distances # {}
  <2>1. \A i \in 1..n : n - i \in Nat
    OBVIOUS
  <2>2. PICK i \in S : TRUE
    OBVIOUS
  <2>3. n - i \in Distances
    BY <2>2
  <2> QED
    BY <2>1, <2>3
<1>2. PICK d \in Distances : \A e \in Distances : d <= e
  BY <1>1, LeastExists
<1>3. PICK m \in S : d = n - m
  OBVIOUS
<1>4. \A i \in S : n - m <= n - i /\ i \in Nat /\ m \in Nat
  BY <1>2, <1>3
<1> QED
  BY <1>4

\* A set of numbers that has the first, and with each the next, has all: induction, on a set.
LEMMA Counting ==
    ASSUME NEW N \in Nat, NEW S, 0 \in S, \A i \in 1..N : i - 1 \in S => i \in S
    PROVE  0..N \subseteq S
<1> DEFINE Missing == {i \in 0..N : i \notin S}
<1>1. Missing \subseteq Nat
  OBVIOUS
<1> SUFFICES ASSUME Missing # {} PROVE FALSE
  OBVIOUS
<1> HIDE DEF Missing
<1>2. PICK m \in Missing : \A n \in Missing : m <= n
  BY <1>1, LeastExists
<1> USE DEF Missing
<1>3. m \in 1..N /\ m \notin S /\ m - 1 \in 0..N
  BY <1>2
<1>4. m - 1 \in S
  BY <1>2, <1>3
<1> QED
  BY <1>3, <1>4

-----------------------------------------------------------------------------
(* Folds *)

\* The greatest of the numbers up to n, if n is one of them.
LEMMA MaxIs ==
    ASSUME NEW n \in Nat, NEW s \in SUBSET (1..n), n \in s
    PROVE  Max(s) = n
<1>1. \A x \in s : x \in Int /\ x <= n
  OBVIOUS
<1>2. n \in s /\ \A y \in s : n >= y
  BY <1>1
<1>3. \A x \in s : (\A y \in s : x >= y) => x = n
  BY <1>1
<1> QED
  BY <1>2, <1>3 DEF Max

\* A fold over the elements of a sequence, or what else is numbered, as the library's
\* MapThenFoldSet defines it: a function on the sets of numbers.
IsFold(iter, N, base, step) ==
    iter = [s \in SUBSET (1..N) |-> IF s = {} THEN base ELSE step[<<Max(s), iter[s \ {Max(s)}]>>]]

\* There is one.
LEMMA FoldExists ==
    ASSUME NEW X, NEW base \in X, NEW N \in Nat, NEW step \in [(1..N) \X X -> X]
    PROVE  \E iter \in [SUBSET (1..N) -> X] : IsFold(iter, N, base, step)
<1> DEFINE Folds(n) == \E iter \in [SUBSET (1..n) -> X] : IsFold(iter, n, base, step)
<1>1. Folds(0)
  <2>1. 1..0 = {} /\ SUBSET {} = {{}}
    OBVIOUS
  <2> DEFINE iter == [s \in SUBSET (1..0) |-> base]
  <2>2. iter \in [SUBSET (1..0) -> X]
    OBVIOUS
  <2>3. IsFold(iter, 0, base, step)
    BY <2>1 DEF IsFold
  <2> QED
    BY <2>2, <2>3
<1>2. ASSUME NEW n \in 1..N, Folds(n - 1)
      PROVE  Folds(n)
  <2>1. PICK before \in [SUBSET (1..(n - 1)) -> X] : IsFold(before, n - 1, base, step)
    BY <1>2
  <2> DEFINE iter == [s \in SUBSET (1..n) |-> IF n \in s THEN step[<<n, before[s \ {n}]>>] ELSE before[s]]
  <2>2. ASSUME NEW s \in SUBSET (1..n), n \in s
        PROVE  /\ s \ {n} \in SUBSET (1..(n - 1)) /\ n \notin s \ {n} /\ s # {} /\ Max(s) = n
               /\ iter[s] = step[<<n, iter[s \ {n}]>>] /\ iter[s] \in X
    <3>1. s \ {n} \in SUBSET (1..(n - 1)) /\ s \ {n} \in SUBSET (1..n)
      OBVIOUS
    <3>2. Max(s) = n
      BY <2>2, MaxIs
    <3>3. iter[s \ {n}] = before[s \ {n}] /\ iter[s] = step[<<n, before[s \ {n}]>>]
      BY <2>2, <3>1
    <3>4. before[s \ {n}] \in X /\ <<n, before[s \ {n}]>> \in (1..N) \X X
      BY <3>1
    <3> QED
      BY <2>2, <3>1, <3>2, <3>3, <3>4
  <2>3. ASSUME NEW s \in SUBSET (1..n), n \notin s
        PROVE  /\ iter[s] = (IF s = {} THEN base ELSE step[<<Max(s), iter[s \ {Max(s)}]>>]) /\ iter[s] \in X
    <3>0. \A x \in s : x \in 1..n /\ x # n /\ x \in 1..(n - 1)
      BY <2>3
    <3>1. s \in SUBSET (1..(n - 1)) /\ s \ {Max(s)} \in SUBSET (1..(n - 1)) /\ s \ {Max(s)} \in SUBSET (1..n)
      BY <3>0
    <3>2. iter[s] = before[s] /\ iter[s \ {Max(s)}] = before[s \ {Max(s)}]
      BY <2>3, <3>1
    <3>3. before[s] = (IF s = {} THEN base ELSE step[<<Max(s), before[s \ {Max(s)}]>>])
      BY <2>1, <3>1 DEF IsFold
    <3> QED
      BY <3>1, <3>2, <3>3
  <2>4. iter \in [SUBSET (1..n) -> X]
    <3>1. \A s \in SUBSET (1..n) : iter[s] \in X
      BY <2>2, <2>3
    <3> QED
      BY <3>1
  <2>5. \A s \in SUBSET (1..n) : iter[s] = (IF s = {} THEN base ELSE step[<<Max(s), iter[s \ {Max(s)}]>>])
    BY <2>2, <2>3
  <2>6. IsFold(iter, n, base, step)
    <3>1. iter = [s \in SUBSET (1..n) |-> iter[s]]
      OBVIOUS
    <3> HIDE DEF iter
    <3> QED
      BY <2>5, <3>1 DEF IsFold
  <2> QED
    BY <2>4, <2>6
<1>3. 0..N \subseteq {n \in 0..N : Folds(n)}
  <2> HIDE DEF Folds
  <2> DEFINE Good == {n \in 0..N : Folds(n)}
  <2>1. 0 \in Good /\ \A i \in 1..N : i - 1 \in Good => i \in Good
    BY <1>1, <1>2
  <2> HIDE DEF Good
  <2>2. 0..N \subseteq Good
    BY <2>1, Counting
  <2> QED
    BY <2>2 DEF Good
<1>4. N \in 0..N
  OBVIOUS
<1> QED
  BY <1>3, <1>4

\* A fold that takes the steps as long as it stays in X.
Follows(iter, N, base, step, X) ==
    /\ iter[{}] = base
    /\ \A s \in SUBSET (1..N) :
          s # {} /\ iter[s \ {Max(s)}] \in X => iter[s] = step[<<Max(s), iter[s \ {Max(s)}]>>]

\* What it comes to step by step: what has been made of the first i.
StepByStep(iter, N, base, step, X) ==
    /\ iter[1..0] = base
    /\ \A i \in 0..N : iter[1..i] \in X
    /\ \A i \in 1..N : iter[1..i] = step[<<i, iter[1..(i - 1)]>>]

LEMMA FoldSteps ==
    ASSUME NEW X, NEW base \in X, NEW N \in Nat, NEW step \in [(1..N) \X X -> X], NEW iter, Follows(iter, N, base, step, X)
    PROVE  StepByStep(iter, N, base, step, X)
<1>1. 1..0 = {} /\ iter[1..0] = base
  <2>1. 1..0 = {} /\ {} \in SUBSET (1..N)
    OBVIOUS
  <2> QED
    BY <2>1 DEF Follows
<1>2. ASSUME NEW i \in 1..N, iter[1..(i - 1)] \in X PROVE iter[1..i] = step[<<i, iter[1..(i - 1)]>>]
  <2>1. 1..i \in SUBSET (1..N) /\ i \in 1..i /\ (1..i) \ {i} = 1..(i - 1) /\ 1..i # {}
    OBVIOUS
  <2>2. Max(1..i) = i
    BY <2>1, MaxIs
  <2> QED
    BY <1>2, <2>1, <2>2 DEF Follows
<1> DEFINE Good == {i \in 0..N : iter[1..i] \in X}
<1>3. 0 \in Good
  BY <1>1
<1>4. ASSUME NEW i \in 1..N, i - 1 \in Good PROVE i \in Good
  <2>1. <<i, iter[1..(i - 1)]>> \in (1..N) \X X
    BY <1>4
  <2> QED
    BY <1>2, <1>4, <2>1
<1>5. 0..N \subseteq Good
  <2> HIDE DEF Good
  <2> QED
    BY <1>3, <1>4, Counting
<1>6. \A i \in 1..N : i - 1 \in 0..N
  OBVIOUS
<1> QED
  BY <1>1, <1>2, <1>5, <1>6 DEF StepByStep

\* The greatest element of a set of numbers is one.
LEMMA MaxIsIn ==
    ASSUME NEW N \in Nat, NEW s \in SUBSET (1..N), s # {}
    PROVE  Max(s) \in s /\ Max(s) \in 1..N /\ s \ {Max(s)} \in SUBSET (1..N)
<1>1. PICK m \in s : \A i \in s : i <= m
  BY GreatestExists
<1>2. \A i \in s : m >= i
  BY <1>1
<1> QED
  BY <1>2 DEF Max

\* What is in sequences put together.
LEMMA AppendRange ==
    ASSUME NEW S, NEW s \in Seq(S), NEW x \in S
    PROVE  Append(s, x) \in Seq(S) /\ Range(Append(s, x)) = Range(s) \cup {x}
<1>1. /\ Append(s, x) \in Seq(S) /\ Len(Append(s, x)) = Len(s) + 1 /\ Len(s) \in Nat
      /\ \A j \in 1..Len(s) : Append(s, x)[j] = s[j]
      /\ Append(s, x)[Len(s) + 1] = x
      /\ DOMAIN s = 1..Len(s) /\ DOMAIN Append(s, x) = 1..(Len(s) + 1)
  BY AppendProperties, LenProperties
<1> QED
  BY <1>1 DEF Range

LEMMA ConcatRange ==
    ASSUME NEW S, NEW s \in Seq(S), NEW t \in Seq(S)
    PROVE  s \o t \in Seq(S) /\ Range(s \o t) = Range(s) \cup Range(t)
  BY ConcatProperties, RangeConcatenation

\* What is left once doubles are removed is everything there was.
OnceOnly(seen, n) == IF n \in Range(seen) THEN seen ELSE Append(seen, n)
LEMMA DistinctKeeps ==
    ASSUME NEW S, NEW names \in Seq(S)
    PROVE  Distinct(names) \in Seq(S) /\ Range(Distinct(names)) = Range(names)
<1> DEFINE N == Len(names)
           step == [p \in (1..N) \X Seq(S) |-> OnceOnly(p[2], names[p[1]])]
           iter == CHOOSE g : g = [s \in SUBSET (DOMAIN names) |->
                                    IF s = {} THEN <<>>
                                    ELSE IF names[Max(s)] \in Range(g[s \ {Max(s)}]) THEN g[s \ {Max(s)}]
                                         ELSE Append(g[s \ {Max(s)}], names[Max(s)])]
<1>1. N \in Nat /\ DOMAIN names = 1..N /\ \A i \in 1..N : names[i] \in S
  BY LenProperties
<1>2. \A seen \in Seq(S), n \in S : OnceOnly(seen, n) \in Seq(S)
  BY AppendProperties DEF OnceOnly
<1>3. step \in [(1..N) \X Seq(S) -> Seq(S)]
  BY <1>1, <1>2
<1>4. Distinct(names) = iter[DOMAIN names]
  BY DEF Distinct, FoldLeft, MapThenFoldSet
<1> DEFINE body(g) == [s \in SUBSET (DOMAIN names) |->
                                    IF s = {} THEN <<>>
                                    ELSE IF names[Max(s)] \in Range(g[s \ {Max(s)}]) THEN g[s \ {Max(s)}]
                                         ELSE Append(g[s \ {Max(s)}], names[Max(s)])]
<1>5. \E g : g = body(g)
  <2>1. PICK g \in [SUBSET (1..N) -> Seq(S)] : IsFold(g, N, <<>>, step)
    <3>1. <<>> \in Seq(S)
      OBVIOUS
    <3> HIDE DEF step
    <3> QED
      BY <1>1, <1>3, <3>1, FoldExists
  <2>3. ASSUME NEW s \in SUBSET (1..N), s # {}
        PROVE  step[<<Max(s), g[s \ {Max(s)}]>>] = OnceOnly(g[s \ {Max(s)}], names[Max(s)])
    <3>1. g[s \ {Max(s)}] \in Seq(S) /\ Max(s) \in 1..N
      BY <1>1, <2>3, MaxIsIn
    <3> QED
      BY <3>1
  <2> HIDE DEF step
  <2>4. g = body(g)
    BY <1>1, <2>1, <2>3 DEF IsFold, OnceOnly
  <2> QED
    BY <2>4
<1>6. iter = body(iter)
  BY <1>5
<1>7. Follows(iter, N, <<>>, step, Seq(S))
  <2> HIDE DEF iter
  <2>1. iter[{}] = <<>>
    BY <1>6
  <2>2. ASSUME NEW s \in SUBSET (1..N), s # {}, iter[s \ {Max(s)}] \in Seq(S)
        PROVE  iter[s] = step[<<Max(s), iter[s \ {Max(s)}]>>]
    <3>1. Max(s) \in 1..N
      BY <1>1, <2>2, MaxIsIn
    <3>2. step[<<Max(s), iter[s \ {Max(s)}]>>] = OnceOnly(iter[s \ {Max(s)}], names[Max(s)])
      BY <2>2, <3>1
    <3>3. iter[s] = OnceOnly(iter[s \ {Max(s)}], names[Max(s)])
      <4>1. s \in SUBSET (DOMAIN names)
        BY <1>1
      <4> HIDE DEF step, N
      <4> QED
        BY <1>6, <2>2, <4>1 DEF OnceOnly
    <3> QED
      BY <3>2, <3>3
  <2> QED
    BY <2>1, <2>2 DEF Follows
<1> HIDE DEF iter, body
<1>8. StepByStep(iter, N, <<>>, step, Seq(S))
  <2>1. <<>> \in Seq(S)
    OBVIOUS
  <2>2. N \in Nat
    BY <1>1
  <2> HIDE DEF step, N
  <2> QED
    BY <1>3, <1>7, <2>1, <2>2, FoldSteps
<1>9. ASSUME NEW i \in 1..N
      PROVE  iter[1..i] = OnceOnly(iter[1..(i - 1)], names[i])
  <2>1. i - 1 \in 0..N /\ iter[1..(i - 1)] \in Seq(S)
    BY <1>8 DEF StepByStep
  <2> QED
    BY <1>8, <2>1 DEF StepByStep
<1> DEFINE Good == {i \in 0..N : Range(iter[1..i]) = {names[j] : j \in 1..i}}
<1>10. 0 \in Good
  BY <1>8 DEF StepByStep, Range
<1>11. ASSUME NEW i \in 1..N, i - 1 \in Good PROVE i \in Good
  <2> DEFINE seen == iter[1..(i - 1)]
  <2>1. seen \in Seq(S) /\ Range(seen) = {names[j] : j \in 1..(i - 1)} /\ names[i] \in S
    BY <1>1, <1>8, <1>11 DEF StepByStep
  <2> HIDE DEF seen
  <2>2. Range(OnceOnly(seen, names[i])) = Range(seen) \cup {names[i]}
    <3>1. Range(Append(seen, names[i])) = Range(seen) \cup {names[i]}
      BY <2>1, AppendRange
    <3> QED
      BY <3>1 DEF OnceOnly
  <2>3. 1..i = (1..(i - 1)) \cup {i}
    OBVIOUS
  <2> QED
    BY <1>9, <2>1, <2>2, <2>3 DEF seen
<1>12. N \in Good
  <2>1. N \in Nat /\ N \in 0..N
    BY <1>1
  <2> HIDE DEF Good, N
  <2> QED
    BY <1>10, <1>11, <2>1, Counting
<1>13. N \in 0..N /\ DOMAIN names = 1..N
  BY <1>1
<1> HIDE DEF N
<1>14. Distinct(names) = iter[1..N] /\ iter[1..N] \in Seq(S)
  BY <1>4, <1>8, <1>13 DEF StepByStep
<1>15. Range(iter[1..N]) = {names[j] : j \in 1..N}
  BY <1>12
<1>16. Range(names) = {names[j] : j \in 1..N}
  BY <1>13 DEF Range
<1> QED
  BY <1>14, <1>15, <1>16

\* A sequence of sequences made one holds what they held.
LEMMA FlattenKeeps ==
    ASSUME NEW S, NEW seqs \in Seq(Seq(S))
    PROVE  /\ FlattenSeq(seqs) \in Seq(S)
           /\ Range(FlattenSeq(seqs)) = UNION {Range(seqs[i]) : i \in DOMAIN seqs}
<1> DEFINE N == Len(seqs)
           step == [p \in (1..N) \X Seq(S) |-> p[2] \o seqs[p[1]]]
           body(g) == [i \in 1..Len(seqs) |-> IF i = 1 THEN seqs[i] ELSE g[i - 1] \o seqs[i]]
           flat == CHOOSE g : g = body(g)
<1>1. N \in Nat /\ DOMAIN seqs = 1..N /\ \A i \in 1..N : seqs[i] \in Seq(S)
  BY LenProperties
<1>2. \E g : g = body(g)
  <2>1. step \in [(1..N) \X Seq(S) -> Seq(S)]
    BY <1>1, ConcatProperties
  <2>2. <<>> \in Seq(S) /\ N \in Nat
    BY <1>1
  <2>3. PICK iter \in [SUBSET (1..N) -> Seq(S)] : IsFold(iter, N, <<>>, step)
    <3> HIDE DEF step, N
    <3> QED
      BY <2>1, <2>2, FoldExists
  <2>4. Follows(iter, N, <<>>, step, Seq(S))
    <3>1. \A s \in SUBSET (1..N) : iter[s] = IF s = {} THEN <<>> ELSE step[<<Max(s), iter[s \ {Max(s)}]>>]
      BY <2>3 DEF IsFold
    <3> HIDE DEF step, N
    <3> QED
      BY <3>1 DEF Follows
  <2>5. StepByStep(iter, N, <<>>, step, Seq(S))
    <3> HIDE DEF step, N
    <3> QED
      BY <2>1, <2>2, <2>4, FoldSteps
  <2>6. ASSUME NEW i \in 1..N
        PROVE  iter[1..i] = IF i = 1 THEN seqs[i] ELSE iter[1..(i - 1)] \o seqs[i]
    <3>0. i - 1 \in 0..N
      BY <1>1
    <3>1. i - 1 \in 0..N /\ iter[1..(i - 1)] \in Seq(S)
      <4> HIDE DEF step, N
      <4> QED
        BY <2>5, <3>0 DEF StepByStep
    <3>2. step[<<i, iter[1..(i - 1)]>>] = iter[1..(i - 1)] \o seqs[i]
      BY <2>6, <3>1
    <3>3. iter[1..i] = iter[1..(i - 1)] \o seqs[i]
      <4> HIDE DEF step, N
      <4> QED
        BY <2>5, <2>6, <3>2 DEF StepByStep
    <3>4. CASE i = 1
      <4>1. iter[1..(i - 1)] = <<>>
        BY <2>5, <3>4 DEF StepByStep
      <4>2. <<>> \o seqs[i] = seqs[i]
        BY <1>1, <2>6, ConcatEmptySeq
      <4> QED
        BY <3>3, <3>4, <4>1, <4>2
    <3> QED
      BY <3>3, <3>4
  <2> DEFINE g == [i \in 1..N |-> iter[1..i]]
  <2>7. \A i \in 1..N : i # 1 => i - 1 \in 1..N
    BY <1>1
  <2>8. g = body(g)
    BY <1>1, <2>6, <2>7
  <2> QED
    BY <2>8
<1>3. flat = body(flat)
  BY <1>2
<1>4. N # 0 => FlattenSeq(seqs) = flat[N]
  BY DEF FlattenSeq
<1> HIDE DEF flat
<1>5. \A i \in 1..N : flat[i] = IF i = 1 THEN seqs[i] ELSE flat[i - 1] \o seqs[i]
  BY <1>3
<1> HIDE DEF body
<1> DEFINE Good == {i \in 0..N : i = 0 \/ (flat[i] \in Seq(S) /\ Range(flat[i]) = UNION {Range(seqs[j]) : j \in 1..i})}
<1>6. 0 \in Good
  BY <1>1
<1>7. ASSUME NEW i \in 1..N, i - 1 \in Good PROVE i \in Good
  <2>1. CASE i = 1
    <3>1. flat[i] = seqs[1] /\ seqs[1] \in Seq(S) /\ 1..i = {1}
      BY <1>1, <1>5, <1>7, <2>1
    <3> QED
      BY <1>1, <3>1
  <2>2. CASE i # 1
    <3>0. i - 1 # 0 /\ i - 1 \in Good /\ seqs[i] \in Seq(S)
      BY <1>1, <1>7, <2>2
    <3>1. /\ flat[i] = flat[i - 1] \o seqs[i] /\ seqs[i] \in Seq(S)
          /\ flat[i - 1] \in Seq(S) /\ Range(flat[i - 1]) = UNION {Range(seqs[j]) : j \in 1..(i - 1)}
      BY <1>5, <1>7, <2>2, <3>0
    <3>2. flat[i] \in Seq(S) /\ Range(flat[i]) = Range(flat[i - 1]) \cup Range(seqs[i])
      BY <3>1, ConcatRange
    <3>3. \A j : j \in 1..i <=> j \in 1..(i - 1) \/ j = i
      BY <1>1
    <3>4. Range(flat[i]) = UNION {Range(seqs[j]) : j \in 1..i}
      BY <3>1, <3>2, <3>3
    <3> QED
      BY <1>1, <3>2, <3>4
  <2> QED
    BY <2>1, <2>2
<1>8. N \in Good
  <2>1. N \in Nat /\ N \in 0..N
    BY <1>1
  <2> HIDE DEF Good, N
  <2> QED
    BY <1>6, <1>7, <2>1, Counting
<1>9. CASE N = 0
  <2>1. FlattenSeq(seqs) = seqs /\ DOMAIN seqs = {} /\ seqs = <<>>
    BY <1>1, <1>9, EmptySeq DEF FlattenSeq
  <2> QED
    BY <2>1 DEF Range
<1>10. CASE N # 0
  BY <1>1, <1>4, <1>8, <1>10
<1> QED
  BY <1>9, <1>10

-----------------------------------------------------------------------------
(* The web scanner's probes.  First what a check attempts on a page; then the
   invariant: what has been gone past is accounted for. *)

LEMMA SingleName ==
    ASSUME NEW S, NEW x \in S
    PROVE  <<x>> \in Seq(S) /\ <<>> \in Seq(S)
<1>1. <<x>> \in [1..1 -> S] /\ 1 \in Nat
  OBVIOUS
<1>2. <<x>> \in Seq(S)
  BY <1>1, IsASeq
<1> QED
  BY <1>2, EmptySeq

LEMMA FewNames ==
    ASSUME NEW S, NEW x \in S, NEW y \in S, NEW z \in S
    PROVE  <<x, y>> \in Seq(S) /\ <<x, y, z>> \in Seq(S)
<1>1. <<x, y>> \in [1..2 -> S] /\ <<x, y, z>> \in [1..3 -> S]
  OBVIOUS
<1> QED
  BY <1>1, IsASeq

\* The provers do not know that a literal is a string.
Words == STRING \cup {"GET", "q", "query", "search", ".git/HEAD", ".env"}

LEMMA Literals ==
    /\ STRING \subseteq Words /\ "GET" \in Words
    /\ <<"q", "query", "search">> \in Seq(Words) /\ <<".git/HEAD", ".env">> \in Seq(Words)
<1>1. STRING \subseteq Words /\ {"GET", "q", "query", "search", ".git/HEAD", ".env"} \subseteq Words
  BY DEF Words
<1>2. \A x, y, z \in Words : <<x, y>> \in Seq(Words) /\ <<x, y, z>> \in Seq(Words)
  BY FewNames
<1> QED
  BY <1>1, <1>2, Zenon

LEMMA OnlyKeeps ==
    ASSUME NEW names \in Seq(Words), NEW wanted
    PROVE  Only(names, wanted) \in Seq(Words)
<1> DEFINE parts == [i \in DOMAIN names |-> IF names[i] \in wanted THEN <<names[i]>> ELSE <<>>]
<1>1. DOMAIN names = 1..Len(names) /\ Len(names) \in Nat /\ \A i \in 1..Len(names) : names[i] \in Words
  BY LenProperties
<1>2. \A i \in 1..Len(names) : (IF names[i] \in wanted THEN <<names[i]>> ELSE <<>>) \in Seq(Words)
  <2> TAKE i \in 1..Len(names)
  <2>1. <<names[i]>> \in Seq(Words) /\ <<>> \in Seq(Words)
    BY <1>1, SingleName
  <2> QED
    BY <2>1
<1>3. parts \in Seq(Seq(Words))
  <2>1. parts \in [1..Len(names) -> Seq(Words)]
    BY <1>1, <1>2, Zenon
  <2> HIDE DEF parts
  <2> QED
    BY <1>1, <2>1, IsASeq
<1>4. Only(names, wanted) = FlattenSeq(parts)
  BY DEF Only
<1> HIDE DEF parts
<1> QED
  BY <1>3, <1>4, FlattenKeeps

\* The kinds of attempts a check makes.
KindsOf(check) ==
    CASE check = "exposure" -> {"exposure"}
      [] check = "xss" -> {"xssForm", "xssUrl"}
      [] check = "sqli" -> {"sqli"}
      [] check = "ssrf" -> {"ssrf"}
      [] check = "traversal" -> {"traversalForm", "traversalUrl"}
      [] check = "command" -> {"command"}

AttemptsOf(kinds) == [kind : kinds, param : Words, at : Words, method : Words]

LEMMA OnUrlKeeps ==
    ASSUME NEW kinds, NEW kind \in kinds, NEW at \in Words, NEW names \in Seq(Words)
    PROVE  OnUrl(kind, at, names) \in Seq(AttemptsOf(kinds))
<1>1. DOMAIN names = 1..Len(names) /\ Len(names) \in Nat /\ \A i \in 1..Len(names) : names[i] \in Words
  BY LenProperties
<1>2. ASSUME NEW i \in 1..Len(names) PROVE Attempt(kind, names[i], at, "GET") \in AttemptsOf(kinds)
  <2>1. names[i] \in Words
    BY <1>1
  <2> QED
    BY <2>1, Literals DEF Attempt, AttemptsOf
<1>3. OnUrl(kind, at, names) \in [1..Len(names) -> AttemptsOf(kinds)]
  BY <1>1, <1>2 DEF OnUrl
<1> QED
  BY <1>1, <1>3, IsASeq

LEMMA OnFormsKeeps ==
    ASSUME NEW page \in WpPages, NEW kinds, NEW kind \in kinds, NEW names
    PROVE  OnForms(page, kind, names) \in Seq(AttemptsOf(kinds))
<1> DEFINE forms == page.forms
           wanted(i) == Only(forms[i].inputs, names)
           some(i) == [j \in DOMAIN wanted(i) |-> Attempt(kind, wanted(i)[j], forms[i].action, forms[i].method)]
           parts == [i \in DOMAIN forms |-> some(i)]
<1>1. forms \in Seq(WpForms)
  BY DEF WpPages
<1> HIDE DEF forms
<1>2. DOMAIN forms = 1..Len(forms) /\ Len(forms) \in Nat /\ \A i \in 1..Len(forms) : forms[i] \in WpForms
  BY <1>1, LenProperties
<1>3. ASSUME NEW i \in 1..Len(forms) PROVE some(i) \in Seq(AttemptsOf(kinds))
  <2>0. forms[i] \in WpForms
    BY <1>2
  <2>1. forms[i].action \in Words /\ forms[i].method \in Words /\ forms[i].inputs \in Seq(Words)
    BY <2>0, Literals, SeqMonotonic DEF WpForms
  <2>5. wanted(i) \in Seq(Words)
    BY <2>1, OnlyKeeps
  <2> HIDE DEF wanted
  <2>2. /\ DOMAIN wanted(i) = 1..Len(wanted(i)) /\ Len(wanted(i)) \in Nat
        /\ \A j \in 1..Len(wanted(i)) : wanted(i)[j] \in Words
    BY <2>5, LenProperties
  <2>3. \A j \in 1..Len(wanted(i)) : Attempt(kind, wanted(i)[j], forms[i].action, forms[i].method) \in AttemptsOf(kinds)
    BY <2>1, <2>2 DEF Attempt, AttemptsOf
  <2>4. some(i) \in [1..Len(wanted(i)) -> AttemptsOf(kinds)]
    BY <2>2, <2>3
  <2> HIDE DEF some
  <2> QED
    BY <2>2, <2>4, IsASeq
<1>4. OnForms(page, kind, names) = FlattenSeq(parts)
  BY DEF OnForms, forms
<1> HIDE DEF some
<1>5. parts \in [1..Len(forms) -> Seq(AttemptsOf(kinds))]
  BY <1>2, <1>3
<1> HIDE DEF parts
<1>6. parts \in Seq(Seq(AttemptsOf(kinds)))
  BY <1>2, <1>5, IsASeq
<1> QED
  BY <1>4, <1>6, FlattenKeeps

LEMMA InputsAreNames ==
    ASSUME NEW page \in WpPages
    PROVE  Inputs(page) \in Seq(Words)
<1> DEFINE forms == page.forms
           parts == [i \in DOMAIN forms |-> forms[i].inputs]
<1>1. forms \in Seq(WpForms)
  BY DEF WpPages
<1> HIDE DEF forms
<1>0. DOMAIN forms = 1..Len(forms) /\ Len(forms) \in Nat /\ \A i \in 1..Len(forms) : forms[i] \in WpForms
  BY <1>1, LenProperties
<1>2. DOMAIN forms = 1..Len(forms) /\ Len(forms) \in Nat /\ \A i \in 1..Len(forms) : forms[i].inputs \in Seq(Words)
  BY <1>0, Literals, SeqMonotonic DEF WpForms
<1>3. parts \in [1..Len(forms) -> Seq(Words)]
  BY <1>2
<1>4. Inputs(page) = FlattenSeq(parts)
  BY DEF Inputs, forms
<1> HIDE DEF parts
<1>5. parts \in Seq(Seq(Words))
  BY <1>2, <1>3, IsASeq
<1> QED
  BY <1>4, <1>5, FlattenKeeps

\* What a check attempts on a page is a sequence of attempts of its kinds.
LEMMA AttemptsKnown ==
    ASSUME NEW page \in WpPages, NEW check \in Range(ProbeChecks)
    PROVE  Attempts(page, check) \in Seq(AttemptsOf(KindsOf(check)))
<1> USE DEF KindsOf
<1>1. /\ Inputs(page) \in Seq(Words) /\ page.url \in Words /\ page.query \in Seq(Words)
      /\ page.query \o Inputs(page) \in Seq(Words)
  <2>1. page.url \in STRING /\ page.query \in Seq(STRING)
    BY DEF WpPages
  <2>2. page.url \in Words /\ page.query \in Seq(Words)
    BY <2>1, Literals, SeqMonotonic
  <2> QED
    BY <2>2, InputsAreNames, ConcatProperties
<1>2. check \in {"exposure", "xss", "sqli", "ssrf", "traversal", "command"}
  BY DEF ProbeChecks, Range
<1>3. CASE check = "exposure"
  <2>1. <<".git/HEAD", ".env">> \in Seq(Words)
    BY Literals
  <2> QED
    BY <1>1, <1>3, <2>1, OnUrlKeeps DEF Attempts
<1>4. CASE check = "xss"
  <2>1. Candidates(page) \in Seq(Words)
    <3>1. (IF page.searching THEN <<"q", "query", "search">> ELSE <<>>) \in Seq(Words)
      <4>1. <<"q", "query", "search">> \in Seq(Words) /\ <<>> \in Seq(Words)
        BY Literals, EmptySeq
      <4> QED
        BY <4>1
    <3>2. (IF page.searching THEN <<"q", "query", "search">> ELSE <<>>) \o Inputs(page) \in Seq(Words)
      BY <1>1, <3>1, ConcatProperties
    <3> QED
      BY <3>2, DistinctKeeps DEF Candidates
  <2> DEFINE A == OnForms(page, "xssForm", Names(page))
             B == OnUrl("xssUrl", page.url, page.query)
             C == OnUrl("xssUrl", page.url, Candidates(page))
             K == AttemptsOf({"xssForm", "xssUrl"})
  <2>2. A \in Seq(K) /\ B \in Seq(K) /\ C \in Seq(K)
    BY <1>1, <2>1, OnUrlKeeps, OnFormsKeeps
  <2>3. Attempts(page, check) = A \o B \o C
    BY <1>4 DEF Attempts
  <2>4. KindsOf(check) = {"xssForm", "xssUrl"}
    BY <1>4
  <2> HIDE DEF A, B, C, K
  <2>5. A \o B \o C \in Seq(K)
    BY <2>2, ConcatProperties
  <2> QED
    BY <2>3, <2>4, <2>5 DEF K
<1>5. CASE check = "sqli"
  BY <1>5, OnFormsKeeps DEF Attempts
<1>6. CASE check = "ssrf"
  BY <1>6, OnFormsKeeps DEF Attempts
<1>7. CASE check = "command"
  BY <1>7, OnFormsKeeps DEF Attempts
<1>8. CASE check = "traversal"
  <2>1. Only(Distinct(page.query \o Inputs(page)), WpFileLike) \in Seq(Words)
    BY <1>1, DistinctKeeps, OnlyKeeps
  <2> DEFINE A == OnForms(page, "traversalForm", WpFileLike)
             B == OnUrl("traversalUrl", page.url, Only(Distinct(page.query \o Inputs(page)), WpFileLike))
             K == AttemptsOf({"traversalForm", "traversalUrl"})
  <2>2. A \in Seq(K) /\ B \in Seq(K)
    BY <1>1, <2>1, OnUrlKeeps, OnFormsKeeps
  <2>3. Attempts(page, check) = A \o B
    BY <1>8 DEF Attempts
  <2>4. KindsOf(check) = {"traversalForm", "traversalUrl"}
    BY <1>8
  <2> HIDE DEF A, B, K
  <2>5. A \o B \in Seq(K)
    BY <2>2, ConcatProperties
  <2> QED
    BY <2>3, <2>4, <2>5 DEF K
<1> QED
  BY <1>2, <1>3, <1>4, <1>5, <1>6, <1>7, <1>8

IsSequence(s) == s \in Seq(Range(s))

LEMMA SequenceGrows ==
    ASSUME NEW s, IsSequence(s), NEW t, IsSequence(t), NEW x
    PROVE  /\ IsSequence(Append(s, x)) /\ Range(Append(s, x)) = Range(s) \cup {x}
           /\ IsSequence(s \o t) /\ Range(s) \subseteq Range(s \o t)
<1> DEFINE S == Range(s) \cup Range(t) \cup {x}
<1>1. s \in Seq(S) /\ t \in Seq(S) /\ x \in S /\ s \in Seq(Range(s) \cup {x}) /\ x \in Range(s) \cup {x}
      /\ s \in Seq(Range(s) \cup Range(t)) /\ t \in Seq(Range(s) \cup Range(t))
  BY SeqMonotonic DEF IsSequence
<1> HIDE DEF S
<1>2. Append(s, x) \in Seq(Range(s) \cup {x}) /\ Range(Append(s, x)) = Range(s) \cup {x}
  BY <1>1, AppendRange
<1>3. s \o t \in Seq(Range(s) \cup Range(t)) /\ Range(s \o t) = Range(s) \cup Range(t)
  BY <1>1, ConcatRange
<1> QED
  BY <1>2, <1>3 DEF IsSequence

LEMMA SinglesAreSequences ==
    ASSUME NEW x
    PROVE  IsSequence(<<x>>) /\ IsSequence(<<>>)
<1>1. <<x>> \in Seq({x}) /\ <<>> \in Seq(Range(<<>>))
  BY SingleName, EmptySeq
<1>2. Range(<<x>>) = {x}
  <2>1. DOMAIN <<x>> = {1} /\ <<x>>[1] = x
    OBVIOUS
  <2> QED
    BY <2>1 DEF Range
<1> QED
  BY <1>1, <1>2 DEF IsSequence

LEMMA HeadersAreSequences ==
    ASSUME NEW page
    PROVE  IsSequence(HeaderFindings(page))
<1> DEFINE A == << [title |-> [what |-> "headers", param |-> page.missing, at |-> ""], class |-> "CORS"] >>
           B == << [title |-> [what |-> "wildcard", param |-> "", at |-> page.url], class |-> "CORS"] >>
<1>1. IsSequence(A) /\ IsSequence(B) /\ IsSequence(<<>>)
  BY SinglesAreSequences
<1>2. HeaderFindings(page) = (IF page.missing = "" THEN <<>> ELSE A) \o (IF page.wildcard THEN B ELSE <<>>)
  BY DEF HeaderFindings
<1> HIDE DEF A, B
<1>3. IsSequence(IF page.missing = "" THEN <<>> ELSE A) /\ IsSequence(IF page.wildcard THEN B ELSE <<>>)
  BY <1>1
<1> QED
  BY <1>2, <1>3, SequenceGrows

-----------------------------------------------------------------------------
(* What the probes go past *)

\* What a hole needs to be seen.
Sees(attempt, hole) ==
    /\ attempt.kind = hole.kind /\ attempt.param = hole.param /\ attempt.at = hole.at
    /\ Submittable(attempt)
TodoOf(p, k) == Attempts(wpScan.pages[p], ProbeChecks[k])

\* The scan has gone past this payload of this attempt.
Behind(p, k, a, payload) ==
    \/ p < wpPage
    \/ p = wpPage /\ k < wpCheck
    \/ p = wpPage /\ k = wpCheck /\ a < wpAttempt
    \/ p = wpPage /\ k = wpCheck /\ a = wpAttempt /\ payload < wpPayload
Accounted(p, k, a, hole) ==
    \/ wpScan.inspect /\ hole.kind # "exposure"
    \/ ProbeFinding(hole) \in Range(wpFindings)
    \/ <<p, ProbeChecks[k], a, hole.payload>> \in wpFailed
    \/ wpUsed[<<p, ProbeChecks[k]>>] >= wpScan.budget

Slots == (DOMAIN wpScan.pages) \X Range(ProbeChecks)

ScanKnown ==
    /\ wpScan.pages \in Seq(WpPages) /\ wpScan.holes \subseteq UNION WpHoles
    /\ wpScan.budget \in Nat /\ wpScan.consent \in BOOLEAN /\ wpScan.inspect \in BOOLEAN
    /\ IsSequence(wpFindings)
    /\ wpUsed \in [Slots -> Nat]
PlaceKnown ==
    /\ wpPage \in Nat \ {0} /\ wpCheck \in 0..LastCheck
    /\ wpCheck > 0 => /\ wpScan.consent /\ wpPage <= Len(wpScan.pages)
                      /\ wpAttempt \in Nat \ {0} /\ wpPayload \in Nat \ {0}
                      /\ wpCount = wpUsed[Slot]
\* What has not been come to has used nothing.
UntouchedUnused ==
    \A p \in DOMAIN wpScan.pages, k \in 1..6 :
        (p > wpPage \/ (p = wpPage /\ k > wpCheck) \/ ~wpScan.consent) => wpUsed[<<p, ProbeChecks[k]>>] = 0
BehindAccounted ==
    wpScan.consent =>
        \A p \in DOMAIN wpScan.pages, k \in 1..6 : \A a \in DOMAIN TodoOf(p, k) : \A hole \in wpScan.holes :
            Behind(p, k, a, hole.payload) /\ Sees(TodoOf(p, k)[a], hole) => Accounted(p, k, a, hole)
WpInv ==
    /\ wpStage \in {"idle", "pages", "reported"}
    /\ wpStage = "pages" => ScanKnown /\ PlaceKnown /\ UntouchedUnused /\ BehindAccounted
    /\ wpStage = "reported" => VulnerableReported

-----------------------------------------------------------------------------
LEMMA ChecksDiffer ==
    /\ Len(ProbeChecks) = 6 /\ \A k \in 1..6 : ProbeChecks[k] \in Range(ProbeChecks)
    /\ \A k, l \in 1..6 : ProbeChecks[k] = ProbeChecks[l] => k = l
    /\ \A k \in 2..6 : "exposure" \notin KindsOf(ProbeChecks[k])
    /\ Range(ProbeChecks) = {ProbeChecks[k] : k \in 1..6}
<1>1. Len(ProbeChecks) = 6 /\ DOMAIN ProbeChecks = 1..6
  BY DEF ProbeChecks
<1>2. \A k \in 1..6 : ProbeChecks[k] \in Range(ProbeChecks)
  BY <1>1 DEF Range
<1>3. /\ ProbeChecks[1] = "exposure" /\ ProbeChecks[2] = "xss" /\ ProbeChecks[3] = "sqli"
      /\ ProbeChecks[4] = "ssrf" /\ ProbeChecks[5] = "traversal" /\ ProbeChecks[6] = "command"
  BY DEF ProbeChecks
<1>4. \A k, l \in 1..6 : ProbeChecks[k] = ProbeChecks[l] => k = l
  BY <1>3
<1>5. \A k \in 2..6 : k \in {2, 3, 4, 5, 6}
  OBVIOUS
<1>6. \A k \in 2..6 : "exposure" \notin KindsOf(ProbeChecks[k])
  BY <1>3, <1>5 DEF KindsOf
<1>7. Range(ProbeChecks) = {ProbeChecks[k] : k \in 1..6}
  BY <1>1 DEF Range
<1> QED
  BY <1>1, <1>2, <1>4, <1>6, <1>7

\* The slot of a page and a check.
LEMMA SlotsKnown ==
    ASSUME NEW p \in DOMAIN wpScan.pages, NEW k \in 1..6, ScanKnown
    PROVE  /\ <<p, ProbeChecks[k]>> \in Slots /\ wpUsed[<<p, ProbeChecks[k]>>] \in Nat
           /\ TodoOf(p, k) \in Seq(AttemptsOf(KindsOf(ProbeChecks[k])))
           /\ p \in 1..Len(wpScan.pages)
<1>1. wpScan.pages[p] \in WpPages /\ DOMAIN wpScan.pages = 1..Len(wpScan.pages)
  BY LenProperties DEF ScanKnown
<1>2. ProbeChecks[k] \in Range(ProbeChecks)
  BY ChecksDiffer
<1> QED
  BY <1>1, <1>2, AttemptsKnown DEF TodoOf, ScanKnown, Slots

\* A payload that was tried, or not tried for a reason the property names, and the
\* step on to the next one keep the invariant.
LEMMA PayloadKeeps ==
    ASSUME WpInv, wpStage = "pages", AtPayload, NEW over \in BOOLEAN, Forward(over),
           UNCHANGED <<wpScan, wpStage, wpPage, wpCheck>>,
           IsSequence(wpFindings'), Range(wpFindings) \subseteq Range(wpFindings'), wpFailed \subseteq wpFailed',
           NEW n \in Nat, wpCount' = wpCount + n, wpUsed' = [wpUsed EXCEPT ![Slot] = @ + n],
           \A hole \in wpScan.holes : \A p, k, a :
               /\ p = wpPage /\ k = wpCheck /\ a = wpAttempt
               /\ Sees(Todo[wpAttempt], hole) /\ (hole.payload = wpPayload \/ over)
               => Accounted(p, k, a, hole)'
    PROVE  WpInv'
<1>1. ScanKnown /\ PlaceKnown /\ UntouchedUnused /\ BehindAccounted
  BY DEF WpInv
<1>2. /\ wpCheck \in 1..6 /\ wpPage \in DOMAIN wpScan.pages /\ Slot = <<wpPage, ProbeChecks[wpCheck]>>
      /\ wpAttempt \in Nat \ {0} /\ wpPayload \in Nat \ {0} /\ wpScan.consent /\ wpCount = wpUsed[Slot]
  BY <1>1, ChecksDiffer, LenProperties DEF PlaceKnown, ScanKnown, AtPayload, Looking, LastCheck, Slot, CheckName
<1>3. /\ Todo = TodoOf(wpPage, wpCheck) /\ DOMAIN Todo = 1..Len(Todo) /\ Len(Todo) \in Nat
      /\ Slot \in Slots /\ wpUsed[Slot] \in Nat /\ wpAttempt \in DOMAIN Todo
  <2>1. Todo = TodoOf(wpPage, wpCheck)
    BY DEF Todo, TodoOf, Page, CheckName
  <2>2. TodoOf(wpPage, wpCheck) \in Seq(AttemptsOf(KindsOf(ProbeChecks[wpCheck]))) /\ Slot \in Slots /\ wpUsed[Slot] \in Nat
    BY <1>1, <1>2, SlotsKnown
  <2> HIDE DEF Todo
  <2>3. DOMAIN Todo = 1..Len(Todo) /\ Len(Todo) \in Nat
    BY <2>1, <2>2, LenProperties
  <2> QED
    BY <1>2, <2>1, <2>2, <2>3 DEF AtPayload
<1>4. Slots' = Slots /\ LastCheck' = LastCheck /\ Slot' = Slot /\ \A p, k : TodoOf(p, k)' = TodoOf(p, k)
  BY DEF Slots, LastCheck, Slot, CheckName, TodoOf
<1>5. wpUsed' \in [Slots -> Nat] /\ wpUsed'[Slot] = wpUsed[Slot] + n
      /\ \A slot \in Slots : slot # Slot => wpUsed'[slot] = wpUsed[slot]
  BY <1>1, <1>3 DEF ScanKnown
<1>6. ScanKnown'
  BY <1>1, <1>4, <1>5 DEF ScanKnown
<1>7. PlaceKnown'
  <2>1. wpAttempt' \in Nat \ {0} /\ wpPayload' \in Nat \ {0}
    BY <1>2 DEF Forward
  <2>2. wpCount' = wpUsed'[Slot']
    BY <1>2, <1>4, <1>5
  <2> QED
    BY <1>1, <1>2, <1>4, <2>1, <2>2 DEF PlaceKnown
<1>8. \A p \in DOMAIN wpScan.pages, k \in 1..6 : (p # wpPage \/ k # wpCheck) =>
          wpUsed'[<<p, ProbeChecks[k]>>] = wpUsed[<<p, ProbeChecks[k]>>]
  <2> SUFFICES ASSUME NEW p \in DOMAIN wpScan.pages, NEW k \in 1..6, p # wpPage \/ k # wpCheck
               PROVE  wpUsed'[<<p, ProbeChecks[k]>>] = wpUsed[<<p, ProbeChecks[k]>>]
    OBVIOUS
  <2>1. <<p, ProbeChecks[k]>> \in Slots
    BY <1>1, SlotsKnown
  <2>2. <<p, ProbeChecks[k]>> # Slot
    BY <1>2, ChecksDiffer
  <2> QED
    BY <1>5, <2>1, <2>2
<1>9. \A p \in DOMAIN wpScan.pages, k \in 1..6 :
          wpUsed'[<<p, ProbeChecks[k]>>] >= wpUsed[<<p, ProbeChecks[k]>>]
  <2> SUFFICES ASSUME NEW p \in DOMAIN wpScan.pages, NEW k \in 1..6
               PROVE  wpUsed'[<<p, ProbeChecks[k]>>] >= wpUsed[<<p, ProbeChecks[k]>>]
    OBVIOUS
  <2>1. wpUsed[<<p, ProbeChecks[k]>>] \in Nat
    BY <1>1, SlotsKnown
  <2>2. CASE p = wpPage /\ k = wpCheck
    BY <1>2, <1>5, <2>1, <2>2
  <2>3. CASE p # wpPage \/ k # wpCheck
    BY <1>8, <2>1, <2>3
  <2> QED
    BY <2>2, <2>3
<1>10. UntouchedUnused'
  <2> SUFFICES ASSUME NEW p \in DOMAIN wpScan.pages, NEW k \in 1..6, p > wpPage \/ (p = wpPage /\ k > wpCheck)
               PROVE  wpUsed'[<<p, ProbeChecks[k]>>] = 0
    BY <1>2 DEF UntouchedUnused
  <2>1. p # wpPage \/ k # wpCheck
    <3>1. p \in 1..Len(wpScan.pages) /\ Len(wpScan.pages) \in Nat
      BY <1>1, SlotsKnown, LenProperties DEF ScanKnown
    <3> QED
      BY <1>2, <3>1, <1>1 DEF PlaceKnown
  <2> QED
    BY <1>1, <1>8, <2>1 DEF UntouchedUnused
<1>11. BehindAccounted'
  <2> SUFFICES ASSUME NEW p \in DOMAIN wpScan.pages, NEW k \in 1..6, NEW a \in DOMAIN TodoOf(p, k),
                      NEW hole \in wpScan.holes,
                      Behind(p, k, a, hole.payload)', Sees(TodoOf(p, k)[a], hole)
               PROVE  Accounted(p, k, a, hole)'
    BY <1>4 DEF BehindAccounted
  <2>0. /\ hole.payload \in Nat \ {0} /\ hole.payload \in 1..Payloads[hole.kind]
        /\ a \in Nat \ {0} /\ Payloads[hole.kind] \in Nat
    <3>1. IsHole(hole)
      BY <1>1, ProbeAssumption DEF ScanKnown
    <3>2. \A kind \in DOMAIN Payloads : Payloads[kind] \in Nat
      BY DEF Payloads
    <3>3. TodoOf(p, k) \in Seq(AttemptsOf(KindsOf(ProbeChecks[k])))
      BY <1>1, SlotsKnown
    <3>4. DOMAIN TodoOf(p, k) = 1..Len(TodoOf(p, k))
      BY <3>3, LenProperties
    <3> QED
      BY <3>1, <3>2, <3>4 DEF IsHole
  <2>1. CASE Behind(p, k, a, hole.payload)
    <3>1. Accounted(p, k, a, hole)
      BY <1>1, <1>2, <2>1 DEF BehindAccounted
    <3>2. wpScan.budget \in Nat /\ wpUsed[<<p, ProbeChecks[k]>>] \in Nat /\ wpUsed'[<<p, ProbeChecks[k]>>] \in Nat
      <4>1. <<p, ProbeChecks[k]>> \in Slots /\ wpUsed[<<p, ProbeChecks[k]>>] \in Nat
        BY <1>1, SlotsKnown
      <4> QED
        BY <1>1, <1>5, <4>1 DEF ScanKnown
    <3> QED
      BY <1>9, <3>1, <3>2 DEF Accounted
  <2>2. CASE ~Behind(p, k, a, hole.payload)
    <3>1. /\ p = wpPage /\ k = wpCheck /\ a = wpAttempt
          /\ hole.payload = wpPayload \/ over \/ (hole.payload > wpPayload /\ wpPayload = Payloads[Todo[wpAttempt].kind])
      BY <1>2, <2>0, <2>2 DEF Behind, Forward
    <3>2. Sees(Todo[wpAttempt], hole)
      BY <1>3, <3>1
    <3>3. ~(hole.payload > wpPayload /\ wpPayload = Payloads[Todo[wpAttempt].kind])
      BY <1>2, <2>0, <3>2 DEF Sees
    <3> QED
      BY <3>1, <3>2, <3>3
  <2> QED
    BY <2>1, <2>2
<1> QED
  BY <1>6, <1>7, <1>10, <1>11 DEF WpInv

\* What the attempt at a place has found, for every hole it sees.
LEMMA SameTitle ==
    ASSUME NEW attempt, NEW hole, Sees(attempt, hole)
    PROVE  ProbeFinding(hole) = ProbeFinding(attempt)
  BY DEF Sees, ProbeFinding, TitleOf

LEMMA ProbeKeeps ==
    ASSUME WpInv, wpStage = "pages", NEW hops \in {1, 2}, Probe(hops)
    PROVE  WpInv'
<1> DEFINE attempt == Todo[wpAttempt]
           over == Shows(attempt) /\ attempt.kind \notin GoesOn
<1>1. IsSequence(wpFindings)
  BY DEF WpInv, ScanKnown
<1>2. /\ AtPayload /\ over \in BOOLEAN /\ Forward(over) /\ UNCHANGED <<wpScan, wpStage, wpPage, wpCheck>>
      /\ wpFailed \subseteq wpFailed' /\ hops \in Nat /\ wpCount' = wpCount + hops
      /\ wpUsed' = [wpUsed EXCEPT ![Slot] = @ + hops]
      /\ wpFindings' = IF Shows(attempt) THEN Append(wpFindings, ProbeFinding(attempt)) ELSE wpFindings
  BY DEF Probe
<1> HIDE DEF attempt
<1>3. /\ IsSequence(wpFindings') /\ Range(wpFindings) \subseteq Range(wpFindings')
      /\ Shows(attempt) => ProbeFinding(attempt) \in Range(wpFindings')
  <2>1. /\ IsSequence(Append(wpFindings, ProbeFinding(attempt)))
        /\ Range(Append(wpFindings, ProbeFinding(attempt))) = Range(wpFindings) \cup {ProbeFinding(attempt)}
    BY <1>1, SequenceGrows
  <2> QED
    BY <1>1, <1>2, <2>1
<1>4. ASSUME NEW hole \in wpScan.holes, Sees(attempt, hole), hole.payload = wpPayload \/ over
      PROVE  ProbeFinding(hole) \in Range(wpFindings')
  <2>1. Shows(attempt)
    BY <1>4 DEF Sees, Shows
  <2> QED
    BY <1>3, <1>4, <2>1, SameTitle
<1>5. \A hole \in wpScan.holes : \A p, k, a :
          /\ p = wpPage /\ k = wpCheck /\ a = wpAttempt
          /\ Sees(Todo[wpAttempt], hole) /\ (hole.payload = wpPayload \/ over)
          => Accounted(p, k, a, hole)'
  BY <1>4 DEF Accounted, attempt, ProbeFinding, TitleOf
<1> HIDE DEF over
<1> QED
  BY <1>2, <1>3, <1>5, PayloadKeeps

LEMMA NoProbeKeeps ==
    ASSUME WpInv, wpStage = "pages", ProbeFails \/ ProbeRefused \/ ProbeCutShort
    PROVE  WpInv'
<1>1. ScanKnown /\ PlaceKnown /\ IsSequence(wpFindings)
  BY DEF WpInv, ScanKnown
<1>2. /\ AtPayload /\ FALSE \in BOOLEAN /\ Forward(FALSE) /\ UNCHANGED <<wpScan, wpStage, wpPage, wpCheck, wpFindings>>
      /\ wpFailed \subseteq wpFailed'
  BY DEF ProbeFails, ProbeRefused, ProbeCutShort
<1>3. IsSequence(wpFindings') /\ Range(wpFindings) \subseteq Range(wpFindings')
  BY <1>1, <1>2
<1>4. /\ wpCheck \in 1..6 /\ wpPage \in DOMAIN wpScan.pages /\ Slot = <<wpPage, ProbeChecks[wpCheck]>>
      /\ wpCount = wpUsed[Slot] /\ wpUsed[Slot] \in Nat /\ Slot \in Slots /\ wpScan.budget \in Nat
  <2>1. /\ wpCheck \in 1..6 /\ wpPage \in DOMAIN wpScan.pages /\ Slot = <<wpPage, ProbeChecks[wpCheck]>>
        /\ wpCount = wpUsed[Slot] /\ wpScan.budget \in Nat
    BY <1>1, <1>2, ChecksDiffer, LenProperties DEF PlaceKnown, ScanKnown, AtPayload, Looking, LastCheck, Slot, CheckName
  <2> QED
    BY <1>1, <2>1, SlotsKnown
<1>5. CASE ProbeFails
  <2>1. 1 \in Nat /\ wpCount' = wpCount + 1 /\ wpUsed' = [wpUsed EXCEPT ![Slot] = @ + 1]
    BY <1>5 DEF ProbeFails
  <2>2. \A hole \in wpScan.holes : \A p, k, a :
            /\ p = wpPage /\ k = wpCheck /\ a = wpAttempt
            /\ Sees(Todo[wpAttempt], hole) /\ (hole.payload = wpPayload \/ FALSE)
            => Accounted(p, k, a, hole)'
    BY <1>5 DEF ProbeFails, Accounted, CheckName
  <2> QED
    BY <1>2, <1>3, <2>1, <2>2, PayloadKeeps
<1>6. CASE ProbeRefused
  <2>1. 0 \in Nat /\ wpCount' = wpCount + 0 /\ wpUsed' = [wpUsed EXCEPT ![Slot] = @ + 0]
    BY <1>1, <1>4, <1>6 DEF ProbeRefused, ScanKnown
  <2>2. ~Submittable(Todo[wpAttempt]) \/ wpUsed'[Slot] >= wpScan.budget
    BY <1>4, <1>6 DEF ProbeRefused
  <2>3. \A hole \in wpScan.holes : \A p, k, a :
            /\ p = wpPage /\ k = wpCheck /\ a = wpAttempt
            /\ Sees(Todo[wpAttempt], hole) /\ (hole.payload = wpPayload \/ FALSE)
            => Accounted(p, k, a, hole)'
    BY <1>2, <1>4, <2>2 DEF Accounted, Sees
  <2> QED
    BY <1>2, <1>3, <2>1, <2>3, PayloadKeeps
<1>7. CASE ProbeCutShort
  <2>1. 1 \in Nat /\ wpCount' = wpCount + 1 /\ wpUsed' = [wpUsed EXCEPT ![Slot] = @ + 1]
    BY <1>7 DEF ProbeCutShort
  <2>2. wpUsed'[Slot] >= wpScan.budget
    BY <1>1, <1>4, <1>7 DEF ProbeCutShort, ScanKnown
  <2>3. \A hole \in wpScan.holes : \A p, k, a :
            /\ p = wpPage /\ k = wpCheck /\ a = wpAttempt
            /\ Sees(Todo[wpAttempt], hole) /\ (hole.payload = wpPayload \/ FALSE)
            => Accounted(p, k, a, hole)'
    BY <1>2, <1>4, <2>2 DEF Accounted
  <2> QED
    BY <1>2, <1>3, <2>1, <2>3, PayloadKeeps
<1> QED
  BY <1>5, <1>6, <1>7

\* The passive checks and the next check: what is gone past was gone past before, or
\* there is nothing to see there.
LEMMA OnwardKeeps ==
    ASSUME WpInv, wpStage = "pages", PassiveChecks \/ NextCheck
    PROVE  WpInv'
<1>1. ScanKnown /\ PlaceKnown /\ UntouchedUnused /\ BehindAccounted
  BY DEF WpInv
<1>2. UNCHANGED <<wpScan, wpStage, wpUsed, wpFailed>> /\ Looking
  BY DEF PassiveChecks, NextCheck
<1>3. IsSequence(wpFindings') /\ Range(wpFindings) \subseteq Range(wpFindings')
  <2>1. IsSequence(wpFindings \o HeaderFindings(Page)) /\ Range(wpFindings) \subseteq Range(wpFindings \o HeaderFindings(Page))
    BY <1>1, HeadersAreSequences, SequenceGrows DEF ScanKnown
  <2> QED
    BY <1>1, <2>1 DEF PassiveChecks, NextCheck, ScanKnown
<1>4. /\ wpPage \in DOMAIN wpScan.pages /\ DOMAIN wpScan.pages = 1..Len(wpScan.pages) /\ Len(wpScan.pages) \in Nat
      /\ wpPage \in Nat \ {0} /\ LastCheck \in 1..6 /\ LastCheck' = LastCheck /\ wpCheck \in 0..LastCheck
      /\ LastCheck = 6 \/ (LastCheck = 1 /\ wpScan.inspect)
  BY <1>1, <1>2, ChecksDiffer, LenProperties DEF PlaceKnown, ScanKnown, Looking, LastCheck
<1>5. Slots' = Slots /\ \A p, k : TodoOf(p, k)' = TodoOf(p, k)
  BY <1>2 DEF Slots, TodoOf
<1>6. \/ wpCheck' = 0 /\ wpPage' = wpPage + 1 /\ (wpCheck = LastCheck \/ ~wpScan.consent)
      \/ wpCheck < LastCheck /\ wpScan.consent /\ wpPage' = wpPage /\ OnToCheck(wpCheck + 1)
  BY <1>1, <1>2, <1>4 DEF PassiveChecks, NextCheck, PlaceKnown, OnToCheck
<1>7. ScanKnown'
  BY <1>1, <1>2, <1>3, <1>5 DEF ScanKnown
<1>8. PlaceKnown'
  <2>1. CASE wpCheck' = 0 /\ wpPage' = wpPage + 1
    BY <1>4, <2>1 DEF PlaceKnown
  <2>2. CASE wpCheck < LastCheck /\ wpScan.consent /\ wpPage' = wpPage /\ OnToCheck(wpCheck + 1)
    <3>0. wpCheck + 1 \in 1..6 /\ wpCheck + 1 > wpCheck
      BY <1>4, <2>2
    <3>1. wpCheck + 1 \in 1..6 /\ wpUsed[<<wpPage, ProbeChecks[wpCheck + 1]>>] = 0
      BY <1>1, <1>4, <3>0 DEF UntouchedUnused
    <3>2. Slot' = <<wpPage, ProbeChecks[wpCheck + 1]>>
      BY <2>2 DEF Slot, CheckName, OnToCheck
    <3> QED
      BY <1>2, <1>4, <2>2, <3>1, <3>2 DEF PlaceKnown, OnToCheck
  <2> QED
    BY <1>6, <2>1, <2>2
<1>9. UntouchedUnused'
  <2> SUFFICES ASSUME NEW p \in DOMAIN wpScan.pages, NEW k \in 1..6,
                      p > wpPage' \/ (p = wpPage' /\ k > wpCheck') \/ ~wpScan.consent
               PROVE  wpUsed[<<p, ProbeChecks[k]>>] = 0
    BY <1>2 DEF UntouchedUnused
  <2>1. p > wpPage \/ (p = wpPage /\ k > wpCheck) \/ ~wpScan.consent
    BY <1>4, <1>6 DEF OnToCheck
  <2> QED
    BY <1>1, <2>1 DEF UntouchedUnused
<1>10. BehindAccounted'
  <2> SUFFICES ASSUME wpScan.consent, NEW p \in DOMAIN wpScan.pages, NEW k \in 1..6, NEW a \in DOMAIN TodoOf(p, k),
                      NEW hole \in wpScan.holes,
                      Behind(p, k, a, hole.payload)', Sees(TodoOf(p, k)[a], hole)
               PROVE  Accounted(p, k, a, hole)'
    BY <1>2, <1>5 DEF BehindAccounted
  <2>0. /\ hole.payload \in Nat \ {0} /\ a \in Nat \ {0} /\ a <= Len(TodoOf(p, k)) /\ Len(TodoOf(p, k)) \in Nat
        /\ TodoOf(p, k) \in Seq(AttemptsOf(KindsOf(ProbeChecks[k])))
    <3>1. IsHole(hole)
      BY <1>1, ProbeAssumption DEF ScanKnown
    <3>2. \A kind \in DOMAIN Payloads : Payloads[kind] \in Nat
      BY DEF Payloads
    <3>3. TodoOf(p, k) \in Seq(AttemptsOf(KindsOf(ProbeChecks[k])))
      BY <1>1, SlotsKnown
    <3>4. DOMAIN TodoOf(p, k) = 1..Len(TodoOf(p, k)) /\ Len(TodoOf(p, k)) \in Nat
      BY <3>3, LenProperties
    <3> QED
      BY <3>1, <3>2, <3>3, <3>4 DEF IsHole
  <2>1. CASE Behind(p, k, a, hole.payload)
    <3>1. Accounted(p, k, a, hole)
      BY <1>1, <2>1 DEF BehindAccounted
    <3> QED
      BY <1>2, <1>3, <3>1 DEF Accounted
  <2>2. CASE wpScan.inspect /\ k \in 2..6
    <3>0. TodoOf(p, k)[a] \in AttemptsOf(KindsOf(ProbeChecks[k]))
      BY <2>0
    <3>1. TodoOf(p, k)[a].kind \in KindsOf(ProbeChecks[k])
      BY <3>0 DEF AttemptsOf
    <3>2. hole.kind # "exposure"
      BY <2>2, <3>1, ChecksDiffer DEF Sees
    <3> QED
      BY <1>2, <2>2, <3>2 DEF Accounted
  <2>3. CASE ~Behind(p, k, a, hole.payload) /\ ~(wpScan.inspect /\ k \in 2..6)
    <3>1. p = wpPage /\ k = wpCheck /\ wpCheck > 0 /\ ~(a < wpAttempt)
      BY <1>1, <1>4, <1>6, <2>0, <2>3 DEF Behind, OnToCheck, PlaceKnown
    <3>2. Todo = TodoOf(p, k)
      BY <3>1 DEF Todo, TodoOf, Page, CheckName
    <3>3. ~AtPayload
      BY <3>1 DEF PassiveChecks, NextCheck
    <3> QED
      BY <1>1, <1>2, <2>0, <3>1, <3>2, <3>3 DEF AtPayload, PlaceKnown
  <2> QED
    BY <2>1, <2>2, <2>3
<1> QED
  BY <1>2, <1>7, <1>8, <1>9, <1>10 DEF WpInv

LEMMA ReportKeeps ==
    ASSUME WpInv, WpReport
    PROVE  WpInv'
<1>1. ScanKnown /\ PlaceKnown /\ UntouchedUnused /\ BehindAccounted
  BY DEF WpInv, WpReport
<1>2. UNCHANGED <<wpScan, wpUsed, wpFailed>> /\ wpStage' = "reported" /\ wpPage > Len(wpScan.pages) /\ wpPage \in Nat
      /\ DOMAIN wpScan.pages = 1..Len(wpScan.pages) /\ Len(wpScan.pages) \in Nat
  BY <1>1, LenProperties DEF WpReport, Looking, PlaceKnown, ScanKnown
<1>3. Range(wpFindings') = Range(wpFindings)
  <2>1. Range(Distinct(wpFindings)) = Range(wpFindings)
    BY <1>1, DistinctKeeps DEF ScanKnown, IsSequence
  <2> QED
    BY <2>1 DEF WpReport, Deduped
<1>4. DOMAIN wpUsed = Slots /\ \A slot \in Slots : \E p \in DOMAIN wpScan.pages, k \in 1..6 : slot = <<p, ProbeChecks[k]>>
  BY <1>1, ChecksDiffer DEF ScanKnown, Slots
<1>5. ASSUME wpScan.consent, NEW hole \in wpScan.holes, NEW slot \in AttemptsAt(hole)
      PROVE  \/ wpScan.inspect /\ hole.kind # "exposure"
             \/ ProbeFinding(hole) \in Range(wpFindings)
             \/ <<slot[1][1], slot[1][2], slot[2], hole.payload>> \in wpFailed
             \/ wpUsed[slot[1]] >= wpScan.budget
  <2>1. slot[1] \in Slots
    BY <1>4 DEF AttemptsAt
  <2>2. PICK p \in DOMAIN wpScan.pages, k \in 1..6 : slot[1] = <<p, ProbeChecks[k]>>
    BY <1>4, <2>1
  <2>3. slot[1][1] = p /\ slot[1][2] = ProbeChecks[k]
    BY <2>2
  <2>4. slot[2] \in DOMAIN TodoOf(p, k) /\ Sees(TodoOf(p, k)[slot[2]], hole)
    BY <2>3 DEF AttemptsAt, TodoOf, Sees
  <2>5. Behind(p, k, slot[2], hole.payload)
    BY <1>2 DEF Behind
  <2>6. Accounted(p, k, slot[2], hole)
    BY <1>1, <1>5, <2>4, <2>5 DEF BehindAccounted
  <2> QED
    BY <2>2, <2>3, <2>6 DEF Accounted
<1>6. ASSUME ~wpScan.consent, NEW slot \in DOMAIN wpUsed PROVE wpUsed[slot] = 0
  <2>1. PICK p \in DOMAIN wpScan.pages, k \in 1..6 : slot = <<p, ProbeChecks[k]>>
    BY <1>4, <1>6
  <2>2. wpUsed[<<p, ProbeChecks[k]>>] = 0
    BY <1>1, <1>6 DEF UntouchedUnused
  <2> QED
    BY <2>1, <2>2
<1>7. VulnerableReported'
  <2>1. \A hole : AttemptsAt(hole)' = AttemptsAt(hole)
    BY <1>2 DEF AttemptsAt
  <2> QED
    BY <1>2, <1>3, <1>5, <1>6, <2>1 DEF VulnerableReported
<1> QED
  BY <1>2, <1>7 DEF WpInv

LEMMA ProbesBegin ==
    ASSUME NEW site \in WpSites, NEW holes \in WpHoles, NEW budget \in WpBudgets, NEW consent \in BOOLEAN,
           NEW inspect \in BOOLEAN, wpFindings = <<>>,
           WpBegin([pages |-> site, holes |-> holes, consent |-> consent, budget |-> budget, inspect |-> inspect])
    PROVE  WpInv'
<1>1. /\ wpScan' = [pages |-> site, holes |-> holes, consent |-> consent, budget |-> budget, inspect |-> inspect]
      /\ wpStage' = "pages" /\ wpPage' = 1 /\ wpCheck' = 0 /\ wpFindings' = <<>>
      /\ wpUsed' = [slot \in (DOMAIN site) \X Range(ProbeChecks) |-> 0]
  BY DEF WpBegin
<1>2. site \in Seq(WpPages) /\ holes \subseteq UNION WpHoles /\ budget \in Nat
  BY ProbeAssumption
<1>3. /\ wpScan'.pages = site /\ wpScan'.holes = holes /\ wpScan'.consent = consent
      /\ wpScan'.budget = budget /\ wpScan'.inspect = inspect
  BY <1>1
<1>4. ScanKnown'
  <2>1. IsSequence(<<>>)
    BY SinglesAreSequences
  <2> QED
    BY <1>1, <1>2, <1>3, <2>1 DEF ScanKnown, Slots
<1>5. PlaceKnown'
  <2>1. LastCheck' \in Nat
    BY ChecksDiffer DEF LastCheck
  <2> QED
    BY <1>1, <2>1 DEF PlaceKnown
<1>6. UntouchedUnused'
  <2> SUFFICES ASSUME NEW p \in DOMAIN site, NEW k \in 1..6 PROVE wpUsed'[<<p, ProbeChecks[k]>>] = 0
    BY <1>3 DEF UntouchedUnused
  <2> QED
    BY <1>1, ChecksDiffer
<1>7. BehindAccounted'
  <2>1. \A p \in 1..Len(site), k \in 1..6 : \A a, payload : ~Behind(p, k, a, payload)'
    BY <1>1 DEF Behind
  <2>2. DOMAIN site = 1..Len(site)
    BY <1>2, LenProperties
  <2> QED
    BY <1>3, <2>1, <2>2 DEF BehindAccounted
<1> QED
  BY <1>1, <1>4, <1>5, <1>6, <1>7 DEF WpInv

\* The invariant, with what the idle scan has: nothing.
WpWhole == WpInv /\ (wpStage = "idle" => wpFindings = <<>>)

LEMMA WpStarts == WpInit => WpWhole
  BY DEF WpInit, WpWhole, WpInv

LEMMA WpKeeps == WpWhole /\ [WpNext]_wpVars => WpWhole'
<1> SUFFICES ASSUME WpWhole, [WpNext]_wpVars PROVE WpWhole'
  OBVIOUS
<1>1. WpInv /\ (wpStage = "idle" => wpFindings = <<>>)
  BY DEF WpWhole
<1>2. ASSUME NEW site \in WpSites, NEW holes \in WpHoles, NEW budget \in WpBudgets, NEW consent \in BOOLEAN,
             NEW inspect \in BOOLEAN,
             WpBegin([pages |-> site, holes |-> holes, consent |-> consent, budget |-> budget, inspect |-> inspect])
      PROVE  WpWhole'
  <2>1. wpFindings = <<>> /\ wpStage' = "pages"
    BY <1>1, <1>2 DEF WpBegin
  <2> QED
    BY <1>2, <2>1, ProbesBegin DEF WpWhole
<1>3. CASE WpStep
  <2>1. wpStage = "pages" /\ wpStage' \in {"pages", "reported"}
    BY <1>3 DEF WpStep, PassiveChecks, NextCheck, Probe, ProbeFails, ProbeRefused, ProbeCutShort, WpReport, AtPayload,
                Looking
  <2>2. WpInv'
    <3>1. CASE PassiveChecks \/ NextCheck
      BY <1>1, <2>1, <3>1, OnwardKeeps
    <3>2. CASE Probe(1) \/ Probe(2)
      BY <1>1, <2>1, <3>2, ProbeKeeps
    <3>3. CASE ProbeFails \/ ProbeRefused \/ ProbeCutShort
      BY <1>1, <2>1, <3>3, NoProbeKeeps
    <3>4. CASE WpReport
      BY <1>1, <3>4, ReportKeeps
    <3> QED
      BY <1>3, <3>1, <3>2, <3>3, <3>4 DEF WpStep
  <2> QED
    BY <2>1, <2>2 DEF WpWhole
<1>4. CASE UNCHANGED wpVars
  <2>1. /\ UNCHANGED <<wpScan, wpStage, wpPage, wpCheck, wpAttempt, wpPayload, wpCount>>
        /\ UNCHANGED <<wpFindings, wpUsed, wpFailed>>
    BY <1>4 DEF wpVars
  <2>2. ScanKnown' = ScanKnown
    BY <2>1 DEF ScanKnown, Slots
  <2>3. PlaceKnown' = PlaceKnown /\ UntouchedUnused' = UntouchedUnused
    BY <2>1 DEF PlaceKnown, LastCheck, Slot, CheckName, UntouchedUnused
  <2>4. BehindAccounted' = BehindAccounted
    BY <2>1 DEF BehindAccounted, TodoOf, Behind, Accounted
  <2>5. VulnerableReported' = VulnerableReported
    BY <2>1 DEF VulnerableReported, AttemptsAt
  <2> QED
    BY <1>1, <2>1, <2>2, <2>3, <2>4, <2>5 DEF WpWhole, WpInv
<1> QED
  BY <1>2, <1>3, <1>4 DEF WpNext

LEMMA ProbesGoOn == WpSpec => []WpWhole
<1> QED
  BY WpStarts, WpKeeps, PTL DEF WpSpec

LEMMA WpHolds == WpWhole => VulnerableReported
  BY DEF WpWhole, WpInv, VulnerableReported

\* With consent no hole that an attempt can see goes unreported but for the reasons named,
\* and without it nothing is sent (vest-scanner/src/web.rs).
THEOREM HolesReported == WpSpec => []VulnerableReported
<1> QED
  BY ProbesGoOn, WpHolds, PTL

-----------------------------------------------------------------------------
(* What the rules do to a finding *)

LEMMA EnrichedTwice ==
    ASSUME NEW f \in Finding
    PROVE  /\ Enriched(f) \in Finding /\ Enriched(Enriched(f)) = Enriched(f)
           /\ Enriched(f).title = f.title /\ Enriched(f).location = f.location
<1>1. f.title \in Titles
  BY DEF Finding
<1>2. CASE f.class = "Unknown"
  <2>1. Enriched(f) = [f EXCEPT !.class = TitleClass[f.title]]
    BY <1>2 DEF Enriched
  <2>2. TitleClass[f.title] \in {"Unknown"} \cup {TitleClass[t] : t \in Titles}
    BY <1>1
  <2>3. Enriched(f) \in Finding /\ Enriched(f).class = TitleClass[f.title]
        /\ Enriched(f).title = f.title /\ Enriched(f).location = f.location
    BY <2>1, <2>2 DEF Finding
  <2>4. [Enriched(f) EXCEPT !.class = TitleClass[f.title]] = Enriched(f)
    BY <2>1, <2>3 DEF Finding
  <2> QED
    BY <2>3, <2>4 DEF Enriched
<1>3. CASE f.class # "Unknown"
  BY <1>3 DEF Enriched
<1> QED
  BY <1>2, <1>3

LEMMA KeptAlike ==
    ASSUME NEW f \in Finding
    PROVE  KeepHeuristic(Enriched(f), FALSE) = KeepHeuristic(f, FALSE)
  BY EnrichedTwice DEF KeepHeuristic, HeuristicFinding

\* What is kept of findings is kept one by one.
LEMMA EachKept ==
    ASSUME NEW found \in Seq(Finding), NEW f \in Range(found), KeepHeuristic(f, FALSE) # <<>>
    PROVE  KeepHeuristic(f, FALSE)[1] \in Range(FlattenSeq([i \in DOMAIN found |-> KeepHeuristic(found[i], FALSE)]))
<1> DEFINE parts == [i \in DOMAIN found |-> KeepHeuristic(found[i], FALSE)]
           S == {HeuristicFinding(g) : g \in Finding}
<1>1. DOMAIN found = 1..Len(found) /\ Len(found) \in Nat /\ \A i \in 1..Len(found) : found[i] \in Finding
  BY LenProperties
<1>2. ASSUME NEW g \in Finding PROVE KeepHeuristic(g, FALSE) \in Seq(S)
  <2>1. HeuristicFinding(g) \in S
    OBVIOUS
  <2> HIDE DEF S
  <2>2. <<HeuristicFinding(g)>> \in Seq(S) /\ <<>> \in Seq(S)
    BY <2>1
  <2> QED
    BY <2>2 DEF KeepHeuristic
<1>3. parts \in Seq(Seq(S))
  <2>1. parts \in [1..Len(found) -> Seq(S)]
    BY <1>1, <1>2
  <2> HIDE DEF parts, S
  <2> QED
    BY <1>1, <2>1, IsASeq
<1>4. PICK i \in DOMAIN found : f = found[i]
  BY DEF Range
<1>5. parts[i] = <<HeuristicFinding(f)>> /\ KeepHeuristic(f, FALSE) = <<HeuristicFinding(f)>> /\ i \in DOMAIN parts
  BY <1>4 DEF KeepHeuristic
<1> HIDE DEF parts, S
<1>6. HeuristicFinding(f) \in Range(parts[i])
  BY <1>5 DEF Range
<1>7. HeuristicFinding(f) \in Range(FlattenSeq(parts))
  BY <1>3, <1>5, <1>6, FlattenKeeps
<1>8. KeepHeuristic(f, FALSE)[1] = HeuristicFinding(f)
  <2>1. \A x : <<x>>[1] = x
    OBVIOUS
  <2> QED
    BY <1>5, <2>1, Zenon
<1>9. FlattenSeq(parts) = FlattenSeq([j \in DOMAIN found |-> KeepHeuristic(found[j], FALSE)])
  BY DEF parts
<1> QED
  BY <1>7, <1>8, <1>9

-----------------------------------------------------------------------------
(* The pipeline's merge *)

SamePlace(f, g) == f.title = g.title /\ f.location = g.location
\* One scanner finding is added, or there is one.
TakenIn(all, f) ==
    IF \E i \in DOMAIN all : all[i].title = f.title /\ all[i].location = f.location THEN all ELSE Append(all, Enriched(f))

LEMMA TakenKeeps ==
    ASSUME NEW all \in Seq(Finding), NEW f \in Finding
    PROVE  /\ TakenIn(all, f) \in Seq(Finding) /\ Range(all) \subseteq Range(TakenIn(all, f))
           /\ Range(TakenIn(all, f)) \subseteq Range(all) \cup {Enriched(f)}
           /\ Enriched(f) \in Range(TakenIn(all, f)) \/ \E g \in Range(all) : SamePlace(g, f)
<1>1. Append(all, Enriched(f)) \in Seq(Finding) /\ Range(Append(all, Enriched(f))) = Range(all) \cup {Enriched(f)}
  BY EnrichedTwice, AppendRange
<1> QED
  BY <1>1 DEF TakenIn, SamePlace, Range

\* Every scanner finding is in what the pipeline merges, or another stands for it.
StandsFor(all, found, scanned, i) ==
    \/ Enriched(scanned[i]) \in Range(all)
    \/ \E g \in Range(found) \cup {scanned[j] : j \in 1..(i - 1)} : SamePlace(g, scanned[i])

LEMMA PipelineKeeps ==
    ASSUME NEW found \in Seq(Finding), agRun.scanned \in Seq(Finding), agRun.mode = "pipeline"
    PROVE  /\ WithScanned(found) \in Seq(Finding)
           /\ \A i \in DOMAIN agRun.scanned : StandsFor(WithScanned(found), found, agRun.scanned, i)
<1> DEFINE scanned == agRun.scanned
           N == Len(scanned)
           step == [p \in (1..N) \X Seq(Finding) |-> TakenIn(p[2], scanned[p[1]])]
           body(g) == [s \in SUBSET (DOMAIN scanned) |->
                         IF s = {} THEN found
                         ELSE IF \E i \in DOMAIN g[s \ {Max(s)}] :
                                    /\ g[s \ {Max(s)}][i].title = scanned[Max(s)].title
                                    /\ g[s \ {Max(s)}][i].location = scanned[Max(s)].location
                              THEN g[s \ {Max(s)}]
                              ELSE Append(g[s \ {Max(s)}], Enriched(scanned[Max(s)]))]
           iter == CHOOSE g : g = body(g)
<1>1. N \in Nat /\ DOMAIN scanned = 1..N /\ \A i \in 1..N : scanned[i] \in Finding
  BY LenProperties
<1>2. WithScanned(found) = iter[DOMAIN scanned]
  BY DEF WithScanned, FoldLeft, MapThenFoldSet
<1> HIDE DEF scanned
<1>3. step \in [(1..N) \X Seq(Finding) -> Seq(Finding)]
  BY <1>1, TakenKeeps
<1>4. \E g : g = body(g)
  <2>1. PICK g \in [SUBSET (1..N) -> Seq(Finding)] : IsFold(g, N, found, step)
    <3> HIDE DEF step
    <3> QED
      BY <1>1, <1>3, FoldExists
  <2>2. ASSUME NEW s \in SUBSET (1..N), s # {}
        PROVE  step[<<Max(s), g[s \ {Max(s)}]>>] = TakenIn(g[s \ {Max(s)}], scanned[Max(s)])
    <3>1. g[s \ {Max(s)}] \in Seq(Finding) /\ Max(s) \in 1..N
      BY <1>1, <2>2, MaxIsIn
    <3> QED
      BY <3>1
  <2> HIDE DEF step
  <2>3. g = body(g)
    BY <1>1, <2>1, <2>2 DEF IsFold, TakenIn
  <2> QED
    BY <2>3
<1>5. iter = body(iter)
  BY <1>4
<1>6. Follows(iter, N, found, step, Seq(Finding))
  <2> HIDE DEF iter
  <2>1. iter[{}] = found
    BY <1>5
  <2>2. ASSUME NEW s \in SUBSET (1..N), s # {}, iter[s \ {Max(s)}] \in Seq(Finding)
        PROVE  iter[s] = step[<<Max(s), iter[s \ {Max(s)}]>>]
    <3>1. Max(s) \in 1..N
      BY <1>1, <2>2, MaxIsIn
    <3>2. step[<<Max(s), iter[s \ {Max(s)}]>>] = TakenIn(iter[s \ {Max(s)}], scanned[Max(s)])
      BY <2>2, <3>1
    <3>3. iter[s] = TakenIn(iter[s \ {Max(s)}], scanned[Max(s)])
      <4>1. s \in SUBSET (DOMAIN scanned)
        BY <1>1
      <4> HIDE DEF step, N
      <4> QED
        BY <1>5, <2>2, <4>1 DEF TakenIn
    <3> QED
      BY <3>2, <3>3
  <2> QED
    BY <2>1, <2>2 DEF Follows
<1> HIDE DEF iter, body
<1>7. StepByStep(iter, N, found, step, Seq(Finding))
  <2>1. N \in Nat
    BY <1>1
  <2> HIDE DEF step, N
  <2> QED
    BY <1>3, <1>6, <2>1, FoldSteps
<1>8. ASSUME NEW i \in 1..N
      PROVE  iter[1..i] = TakenIn(iter[1..(i - 1)], scanned[i]) /\ iter[1..(i - 1)] \in Seq(Finding)
  <2>1. i - 1 \in 0..N /\ iter[1..(i - 1)] \in Seq(Finding)
    BY <1>7 DEF StepByStep
  <2> QED
    BY <1>7, <2>1 DEF StepByStep
<1> HIDE DEF step
<1> DEFINE Good == {i \in 0..N : /\ Range(iter[1..i]) \subseteq Range(found) \cup {Enriched(scanned[j]) : j \in 1..i}
                                 /\ \A j \in 1..i : StandsFor(iter[1..i], found, scanned, j)}
<1>9. 0 \in Good
  BY <1>1, <1>7 DEF StepByStep
<1>10. ASSUME NEW i \in 1..N, i - 1 \in Good PROVE i \in Good
  <2> DEFINE all == iter[1..(i - 1)]
  <2>1. /\ all \in Seq(Finding) /\ iter[1..i] = TakenIn(all, scanned[i]) /\ scanned[i] \in Finding
        /\ Range(all) \subseteq Range(found) \cup {Enriched(scanned[j]) : j \in 1..(i - 1)}
        /\ \A j \in 1..(i - 1) : StandsFor(all, found, scanned, j) /\ scanned[j] \in Finding
    <3>1. all \in Seq(Finding) /\ iter[1..i] = TakenIn(all, scanned[i])
      BY <1>8
    <3>2. /\ Range(all) \subseteq Range(found) \cup {Enriched(scanned[j]) : j \in 1..(i - 1)}
          /\ \A j \in 1..(i - 1) : StandsFor(all, found, scanned, j)
      BY <1>10
    <3>3. scanned[i] \in Finding /\ \A j \in 1..(i - 1) : scanned[j] \in Finding
      BY <1>1
    <3> QED
      BY <3>1, <3>2, <3>3
  <2> HIDE DEF all
  <2>2. /\ Range(all) \subseteq Range(TakenIn(all, scanned[i]))
        /\ Range(TakenIn(all, scanned[i])) \subseteq Range(all) \cup {Enriched(scanned[i])}
        /\ Enriched(scanned[i]) \in Range(TakenIn(all, scanned[i])) \/ \E g \in Range(all) : SamePlace(g, scanned[i])
    BY <2>1, TakenKeeps
  <2>3. \A j : j \in 1..i <=> j \in 1..(i - 1) \/ j = i
    BY <1>1
  <2>4. \A j \in 1..(i - 1) : StandsFor(iter[1..i], found, scanned, j)
    BY <2>1, <2>2 DEF StandsFor
  <2>5. StandsFor(iter[1..i], found, scanned, i)
    <3>1. CASE Enriched(scanned[i]) \in Range(TakenIn(all, scanned[i]))
      BY <2>1, <3>1 DEF StandsFor
    <3>2. CASE \E g \in Range(all) : SamePlace(g, scanned[i])
      <4>1. PICK g \in Range(all) : SamePlace(g, scanned[i])
        BY <3>2
      <4>2. CASE g \in Range(found)
        BY <4>1, <4>2 DEF StandsFor
      <4>3. CASE g \notin Range(found)
        <5>1. PICK j \in 1..(i - 1) : g = Enriched(scanned[j])
          BY <2>1, <4>3
        <5>2. SamePlace(scanned[j], scanned[i])
          BY <2>1, <4>1, <5>1, EnrichedTwice DEF SamePlace
        <5> QED
          BY <5>2 DEF StandsFor
      <4> QED
        BY <4>2, <4>3
    <3> QED
      BY <2>2, <3>1, <3>2
  <2>6. Range(iter[1..i]) \subseteq Range(found) \cup {Enriched(scanned[j]) : j \in 1..i}
    BY <2>1, <2>2, <2>3
  <2> QED
    BY <2>3, <2>4, <2>5, <2>6
<1>11. N \in Good
  <2>1. N \in Nat /\ N \in 0..N
    BY <1>1
  <2> HIDE DEF Good, N
  <2> QED
    BY <1>9, <1>10, <2>1, Counting
<1>12. N \in 0..N /\ DOMAIN scanned = 1..N
  BY <1>1
<1> HIDE DEF N
<1>13. WithScanned(found) = iter[1..N] /\ iter[1..N] \in Seq(Finding)
  BY <1>2, <1>7, <1>12 DEF StepByStep
<1>14. \A j \in 1..N : StandsFor(iter[1..N], found, scanned, j)
  BY <1>11
<1> QED
  BY <1>12, <1>13, <1>14 DEF scanned

-----------------------------------------------------------------------------
(* The swarm's merge *)

\* One finding is counted in, or not: too few reported it, or it is there.
CountedIn(kept, f, merge, found) ==
    IF /\ Count(f, found) >= Threshold(merge)
       /\ \A i \in DOMAIN kept : ~Same(kept[i], f)
    THEN Append(kept, f) ELSE kept

\* What the merge has made of the first j findings.
Chosen(kept, merge, found, j) ==
    /\ kept \in Seq(Finding) /\ Range(kept) \subseteq Range(found)
    /\ \A i, l \in DOMAIN kept : Same(kept[i], kept[l]) => i = l
    /\ \A i \in DOMAIN kept : Count(kept[i], found) >= Threshold(merge)
    /\ \A l \in 1..j : Count(found[l], found) >= Threshold(merge) => \E i \in DOMAIN kept : Same(kept[i], found[l])

LEMMA CountingIn ==
    ASSUME NEW merge, NEW found \in Seq(Finding), NEW j \in 1..Len(found), NEW kept,
           Chosen(kept, merge, found, j - 1)
    PROVE  Chosen(CountedIn(kept, found[j], merge, found), merge, found, j)
<1> DEFINE f == found[j]
           in == CountedIn(kept, f, merge, found)
<1>1. f \in Finding /\ f \in Range(found) /\ Same(f, f) /\ kept \in Seq(Finding)
  BY DEF Range, Same, Chosen
<1>2. \A l \in 1..j : l \in 1..(j - 1) \/ l = j
  OBVIOUS
<1> HIDE DEF f
<1>3. CASE Count(f, found) >= Threshold(merge) /\ \A i \in DOMAIN kept : ~Same(kept[i], f)
  <2>1. /\ in = Append(kept, f) /\ in \in Seq(Finding) /\ Range(in) = Range(kept) \cup {f}
        /\ DOMAIN in = 1..(Len(kept) + 1) /\ DOMAIN kept = 1..Len(kept) /\ Len(kept) \in Nat
        /\ \A i \in DOMAIN kept : in[i] = kept[i]
        /\ in[Len(kept) + 1] = f
    BY <1>1, <1>3, AppendRange, AppendProperties, LenProperties DEF CountedIn
  <2> HIDE DEF in
  <2>2. \A i \in DOMAIN in : i \in DOMAIN kept \/ i = Len(kept) + 1
    BY <2>1
  <2>3. \A i, l \in DOMAIN in : Same(in[i], in[l]) => i = l
    <3>1. \A i \in DOMAIN kept : ~Same(f, kept[i])
      BY <1>3 DEF Same
    <3> QED
      BY <1>3, <2>1, <2>2, <3>1 DEF Chosen
  <2>4. \A i \in DOMAIN in : Count(in[i], found) >= Threshold(merge)
    BY <1>3, <2>1, <2>2 DEF Chosen
  <2>5. \A l \in 1..j : Count(found[l], found) >= Threshold(merge) => \E i \in DOMAIN in : Same(in[i], found[l])
    <3> SUFFICES ASSUME NEW l \in 1..j, Count(found[l], found) >= Threshold(merge)
                 PROVE  \E i \in DOMAIN in : Same(in[i], found[l])
      OBVIOUS
    <3>1. CASE l = j
      <4>1. Len(kept) + 1 \in DOMAIN in
        BY <2>1
      <4> QED
        BY <1>1, <2>1, <3>1, <4>1 DEF f
    <3>2. CASE l \in 1..(j - 1)
      <4>1. PICK i \in DOMAIN kept : Same(kept[i], found[l])
        BY <3>2 DEF Chosen
      <4>2. i \in DOMAIN in
        BY <2>1
      <4> QED
        BY <2>1, <4>1, <4>2
    <3> QED
      BY <1>2, <3>1, <3>2
  <2> QED
    BY <1>1, <2>1, <2>3, <2>4, <2>5 DEF Chosen, f, in
<1>4. CASE ~(Count(f, found) >= Threshold(merge) /\ \A i \in DOMAIN kept : ~Same(kept[i], f))
  <2>1. CountedIn(kept, f, merge, found) = kept
    BY <1>4 DEF CountedIn
  <2>2. \A l \in 1..j : Count(found[l], found) >= Threshold(merge) => \E i \in DOMAIN kept : Same(kept[i], found[l])
    BY <1>2, <1>4 DEF Chosen, f
  <2> QED
    BY <2>1, <2>2 DEF Chosen, f
<1> QED
  BY <1>3, <1>4

LEMMA MergedKeeps ==
    ASSUME NEW merge, NEW found \in Seq(Finding)
    PROVE  Chosen(Merged(merge, found), merge, found, Len(found))
<1> DEFINE N == Len(found)
           step == [p \in (1..N) \X Seq(Finding) |-> CountedIn(p[2], found[p[1]], merge, found)]
           body(g) == [s \in SUBSET (DOMAIN found) |->
                         IF s = {} THEN <<>>
                         ELSE IF /\ Count(found[Max(s)], found) >= Threshold(merge)
                                 /\ \A i \in DOMAIN g[s \ {Max(s)}] : ~Same(g[s \ {Max(s)}][i], found[Max(s)])
                              THEN Append(g[s \ {Max(s)}], found[Max(s)])
                              ELSE g[s \ {Max(s)}]]
           iter == CHOOSE g : g = body(g)
<1>1. N \in Nat /\ DOMAIN found = 1..N /\ \A i \in 1..N : found[i] \in Finding
  BY LenProperties
<1>2. Merged(merge, found) = iter[DOMAIN found]
  BY DEF Merged, FoldLeft, MapThenFoldSet
<1>3. step \in [(1..N) \X Seq(Finding) -> Seq(Finding)]
  <2>1. \A kept \in Seq(Finding), f \in Finding : CountedIn(kept, f, merge, found) \in Seq(Finding)
    BY AppendProperties DEF CountedIn
  <2> QED
    BY <1>1, <2>1
<1>4. \E g : g = body(g)
  <2>1. PICK g \in [SUBSET (1..N) -> Seq(Finding)] : IsFold(g, N, <<>>, step)
    <3>1. <<>> \in Seq(Finding)
      BY EmptySeq
    <3> HIDE DEF step
    <3> QED
      BY <1>1, <1>3, <3>1, FoldExists
  <2>2. ASSUME NEW s \in SUBSET (1..N), s # {}
        PROVE  step[<<Max(s), g[s \ {Max(s)}]>>] = CountedIn(g[s \ {Max(s)}], found[Max(s)], merge, found)
    <3>1. g[s \ {Max(s)}] \in Seq(Finding) /\ Max(s) \in 1..N
      BY <1>1, <2>2, MaxIsIn
    <3> QED
      BY <3>1
  <2> HIDE DEF step
  <2>3. g = body(g)
    BY <1>1, <2>1, <2>2 DEF IsFold, CountedIn
  <2> QED
    BY <2>3
<1>5. iter = body(iter)
  BY <1>4
<1>6. Follows(iter, N, <<>>, step, Seq(Finding))
  <2> HIDE DEF iter
  <2>1. iter[{}] = <<>>
    BY <1>5
  <2>2. ASSUME NEW s \in SUBSET (1..N), s # {}, iter[s \ {Max(s)}] \in Seq(Finding)
        PROVE  iter[s] = step[<<Max(s), iter[s \ {Max(s)}]>>]
    <3>1. Max(s) \in 1..N
      BY <1>1, <2>2, MaxIsIn
    <3>2. step[<<Max(s), iter[s \ {Max(s)}]>>] = CountedIn(iter[s \ {Max(s)}], found[Max(s)], merge, found)
      BY <2>2, <3>1
    <3>3. iter[s] = CountedIn(iter[s \ {Max(s)}], found[Max(s)], merge, found)
      <4>1. s \in SUBSET (DOMAIN found)
        BY <1>1
      <4> HIDE DEF step, N
      <4> QED
        BY <1>5, <2>2, <4>1 DEF CountedIn
    <3> QED
      BY <3>2, <3>3
  <2> QED
    BY <2>1, <2>2 DEF Follows
<1> HIDE DEF iter, body
<1>7. StepByStep(iter, N, <<>>, step, Seq(Finding))
  <2>1. N \in Nat /\ <<>> \in Seq(Finding)
    BY <1>1, EmptySeq
  <2> HIDE DEF step, N
  <2> QED
    BY <1>3, <1>6, <2>1, FoldSteps
<1>8. ASSUME NEW i \in 1..N
      PROVE  iter[1..i] = CountedIn(iter[1..(i - 1)], found[i], merge, found)
  <2>1. i - 1 \in 0..N /\ iter[1..(i - 1)] \in Seq(Finding)
    BY <1>7 DEF StepByStep
  <2> QED
    BY <1>7, <2>1 DEF StepByStep
<1> HIDE DEF step
<1> DEFINE Good == {i \in 0..N : Chosen(iter[1..i], merge, found, i)}
<1>9. 0 \in Good
  <2>1. iter[1..0] = <<>> /\ <<>> \in Seq(Finding) /\ DOMAIN <<>> = {} /\ Range(<<>>) = {}
    BY <1>7, EmptySeq DEF StepByStep, Range
  <2>2. Chosen(<<>>, merge, found, 0)
    BY <2>1 DEF Chosen
  <2>3. 0 \in 0..N
    BY <1>1
  <2> QED
    BY <2>1, <2>2, <2>3
<1>10. ASSUME NEW i \in 1..N, i - 1 \in Good PROVE i \in Good
  <2>1. Chosen(iter[1..(i - 1)], merge, found, i - 1)
    BY <1>10
  <2>2. Chosen(iter[1..i], merge, found, i)
    BY <1>8, <2>1, CountingIn
  <2> QED
    BY <2>2
<1>11. N \in Good
  <2>1. N \in Nat /\ N \in 0..N
    BY <1>1
  <2> HIDE DEF Good, N
  <2> QED
    BY <1>9, <1>10, <2>1, Counting
<1>12. Chosen(iter[1..N], merge, found, N)
  BY <1>11
<1> QED
  BY <1>1, <1>2, <1>12

-----------------------------------------------------------------------------
(* Votes *)

LEMMA AsMany ==
    ASSUME NEW S, IsFiniteSet(S), NEW T, NEW F \in [S -> T],
           \A x, y \in S : F[x] = F[y] => x = y, \A z \in T : \E x \in S : F[x] = z
    PROVE  IsFiniteSet(T) /\ Cardinality(T) = Cardinality(S)
<1>1. F \in Bijection(S, T)
  BY DEF Bijection, Injection, Surjection, IsInjective
<1>2. ExistsBijection(S, T)
  BY <1>1 DEF ExistsBijection
<1> QED
  BY <1>2, FS_Bijection

\* Where the findings are that count for one, in a sequence and in the reports.
Hits(found, f) == {i \in DOMAIN found : Key(found[i]) = Key(f)}
Ballots(f) == UNION {{<<t, i>> : i \in {j \in DOMAIN agSaid[t] : Key(agSaid[t][j]) = Key(f)}} : t \in DOMAIN agSaid}

LEMMA HitsFinite ==
    ASSUME NEW found \in Seq(Finding), NEW f
    PROVE  IsFiniteSet(Hits(found, f)) /\ Count(f, found) = Cardinality(Hits(found, f)) /\ Count(f, found) \in Nat
<1>1. DOMAIN found = 1..Len(found) /\ Len(found) \in Nat
  BY LenProperties
<1>2. IsFiniteSet(1..Len(found)) /\ Hits(found, f) \in SUBSET (1..Len(found))
  BY <1>1, FS_Interval DEF Hits
<1>3. IsFiniteSet(Hits(found, f))
  BY <1>2, FS_Subset
<1> QED
  BY <1>3, FS_CardinalityType DEF Count, Hits

LEMMA CountConcat ==
    ASSUME NEW found \in Seq(Finding), NEW report \in Seq(Finding), NEW f
    PROVE  Count(f, found \o report) = Count(f, found) + Count(f, report)
<1> DEFINE A == Hits(found, f)
           B == {Len(found) + i : i \in Hits(report, f)}
           F == [i \in Hits(report, f) |-> Len(found) + i]
<1>1. /\ DOMAIN found = 1..Len(found) /\ Len(found) \in Nat /\ DOMAIN report = 1..Len(report) /\ Len(report) \in Nat
      /\ Len(found \o report) = Len(found) + Len(report) /\ DOMAIN (found \o report) = 1..(Len(found) + Len(report))
      /\ \A i \in 1..Len(found) : (found \o report)[i] = found[i]
      /\ \A i \in 1..Len(report) : (found \o report)[Len(found) + i] = report[i]
  BY LenProperties, ConcatProperties
<1>2. IsFiniteSet(A) /\ Cardinality(A) = Count(f, found) /\ IsFiniteSet(Hits(report, f))
      /\ Cardinality(Hits(report, f)) = Count(f, report) /\ Count(f, found) \in Nat /\ Count(f, report) \in Nat
      /\ Count(f, found \o report) = Cardinality(Hits(found \o report, f))
  BY HitsFinite, ConcatProperties
<1>3. Hits(report, f) \subseteq 1..Len(report) /\ A \subseteq 1..Len(found)
  BY <1>1 DEF Hits
<1>4. IsFiniteSet(B) /\ Cardinality(B) = Cardinality(Hits(report, f))
  <2>1. F \in [Hits(report, f) -> B]
    OBVIOUS
  <2>2. \A x, y \in Hits(report, f) : F[x] = F[y] => x = y
    BY <1>1, <1>3
  <2>3. \A z \in B : \E x \in Hits(report, f) : F[x] = z
    OBVIOUS
  <2> HIDE DEF F, B
  <2> QED
    BY <1>2, <2>1, <2>2, <2>3, AsMany
<1>5. A \cap B = {}
  BY <1>1, <1>3
<1>6. Hits(found \o report, f) = A \cup B
  <2>1. ASSUME NEW i \in Hits(found \o report, f) PROVE i \in A \cup B
    <3>1. i \in 1..(Len(found) + Len(report)) /\ Key((found \o report)[i]) = Key(f)
      BY <1>1, <2>1 DEF Hits
    <3>2. CASE i <= Len(found)
      <4>1. i \in 1..Len(found)
        BY <1>1, <3>1, <3>2
      <4> QED
        BY <1>1, <3>1, <4>1 DEF Hits
    <3>3. CASE i > Len(found)
      <4>1. i - Len(found) \in 1..Len(report) /\ i = Len(found) + (i - Len(found))
        BY <1>1, <3>1, <3>3
      <4>2. i - Len(found) \in Hits(report, f)
        BY <1>1, <3>1, <4>1 DEF Hits
      <4> QED
        BY <4>1, <4>2
    <3> QED
      BY <1>1, <3>1, <3>2, <3>3
  <2>2. ASSUME NEW i \in A PROVE i \in Hits(found \o report, f)
    BY <1>1, <2>2 DEF Hits
  <2>3. ASSUME NEW i \in B PROVE i \in Hits(found \o report, f)
    <3>1. PICK j \in Hits(report, f) : i = Len(found) + j
      OBVIOUS
    <3>2. i \in 1..(Len(found) + Len(report))
      BY <1>1, <1>3, <3>1
    <3> QED
      BY <1>1, <1>3, <3>1, <3>2 DEF Hits
  <2> QED
    BY <2>1, <2>2, <2>3
<1> HIDE DEF A, B
<1>7. Cardinality(A \cup B) = Cardinality(A) + Cardinality(B) - Cardinality(A \cap B)
  BY <1>2, <1>4, FS_Union
<1>8. Cardinality(A \cap B) = 0
  BY <1>5, FS_EmptySet
<1> QED
  BY <1>2, <1>4, <1>6, <1>7, <1>8

\* The votes of one more report.
LEMMA BallotsCast ==
    ASSUME NEW t \in DOMAIN agSaid, agSaid[t] = <<>>, NEW report \in Seq(Finding),
           agSaid' = [agSaid EXCEPT ![t] = report], NEW f, IsFiniteSet(Ballots(f))
    PROVE  IsFiniteSet(Ballots(f)') /\ Cardinality(Ballots(f)') = Cardinality(Ballots(f)) + Count(f, report)
<1> DEFINE H == Hits(report, f)
           B == {<<t, i>> : i \in H}
           F == [i \in H |-> <<t, i>>]
<1>1. IsFiniteSet(H) /\ Count(f, report) = Cardinality(H) /\ Count(f, report) \in Nat
  BY HitsFinite
<1>2. IsFiniteSet(B) /\ Cardinality(B) = Cardinality(H)
  <2>1. F \in [H -> B] /\ (\A x, y \in H : F[x] = F[y] => x = y) /\ \A z \in B : \E x \in H : F[x] = z
    OBVIOUS
  <2> HIDE DEF F, B, H
  <2> QED
    BY <1>1, <2>1, AsMany
<1> DEFINE Of(s, said) == {<<s, i>> : i \in {j \in DOMAIN said[s] : Key(said[s][j]) = Key(f)}}
<1>3. /\ Ballots(f) = UNION {Of(s, agSaid) : s \in DOMAIN agSaid}
      /\ Ballots(f)' = UNION {Of(s, agSaid') : s \in DOMAIN agSaid}
  BY DEF Ballots
<1>4. /\ Of(t, agSaid) = {} /\ Of(t, agSaid') = B
      /\ \A s \in DOMAIN agSaid : s # t => Of(s, agSaid') = Of(s, agSaid)
  <2>1. agSaid'[t] = report /\ \A s \in DOMAIN agSaid : s # t => agSaid'[s] = agSaid[s]
    OBVIOUS
  <2>2. Of(t, agSaid) = {}
    OBVIOUS
  <2>3. Of(t, agSaid') = B
    BY <2>1 DEF Hits
  <2>4. \A s \in DOMAIN agSaid : s # t => Of(s, agSaid') = Of(s, agSaid)
    BY <2>1
  <2> QED
    BY <2>2, <2>3, <2>4
<1>5. \A s : \A x \in Of(s, agSaid) : x[1] = s
  OBVIOUS
<1>6. \A x \in B : x[1] = t
  OBVIOUS
<1> HIDE DEF Of, B, H
<1>7. Ballots(f)' = Ballots(f) \cup B
  BY <1>3, <1>4
<1>8. Ballots(f) \cap B = {}
  BY <1>3, <1>4, <1>5, <1>6
<1>9. IsFiniteSet(Ballots(f) \cup B)
      /\ Cardinality(Ballots(f) \cup B) = Cardinality(Ballots(f)) + Cardinality(B) - Cardinality(Ballots(f) \cap B)
  BY <1>2, FS_Union
<1>10. Cardinality(Ballots(f) \cap B) = 0
  BY <1>8, FS_EmptySet
<1>11. Cardinality(Ballots(f)) \in Nat
  BY FS_CardinalityType
<1> QED
  BY <1>1, <1>2, <1>7, <1>9, <1>10, <1>11

-----------------------------------------------------------------------------
(* The agents' phase *)

\* While agents run nothing reported is lost and nothing counted twice.
Gathered ==
    /\ agRun \in Runs /\ agFound \in Seq(Finding)
    /\ DOMAIN agSaid = DOMAIN agTasks
    /\ \A t \in DOMAIN agSaid : agSaid[t] \in Seq(Finding) /\ (agTasks[t] # "done" => agSaid[t] = <<>>)
    /\ Range(agFound) = Said
    /\ \A f \in Finding : IsFiniteSet(Ballots(f)) /\ Count(f, agFound) = Cardinality(Ballots(f))
Decided ==
    agRun.mode = "swarm" =>
        /\ \A f \in Said :
             Cardinality({i \in DOMAIN FromAgents : Same(FromAgents[i], f)})
                 = IF Votes(f) >= Threshold(agRun.merge) THEN 1 ELSE 0
        /\ \A i \in DOMAIN FromAgents : FromAgents[i] \in Said
ScannedMerged ==
    /\ agRun \in Runs /\ agFound \in Seq(Finding)
    /\ \A i \in DOMAIN agRun.scanned :
          \/ \E g \in Range(agFound) : KeepHeuristic(g, FALSE) = KeepHeuristic(agRun.scanned[i], FALSE)
          \/ /\ agRun.mode = "pipeline"
             /\ \E g \in Said \cup {agRun.scanned[j] : j \in 1..(i - 1)} : SamePlace(g, agRun.scanned[i])
AgInv ==
    /\ agStep \in Steps
    /\ agStep \in {"idle", "planning"} => agFound = <<>>
    /\ agStep = "planning" => agRun \in Runs
    /\ agStep \in {"running", "merging"} => Gathered
    /\ agStep \in {"checking", "returned"} => Decided /\ ScannedMerged
    /\ ScannerFindingsStay

LEMMA NothingSaid ==
    ASSUME agRun' \in Runs, agFound' = <<>>, agSaid' = [t \in DOMAIN agTasks' |-> <<>>]
    PROVE  Gathered'
<1>1. <<>> \in Seq(Finding) /\ DOMAIN <<>> = {} /\ Range(<<>>) = {}
  BY EmptySeq DEF Range
<1>2. DOMAIN agSaid' = DOMAIN agTasks' /\ \A t \in DOMAIN agSaid' : agSaid'[t] = <<>>
  OBVIOUS
<1>3. Said' = {}
  BY <1>1, <1>2 DEF Said
<1>4. \A f \in Finding : Ballots(f)' = {}
  BY <1>1, <1>2 DEF Ballots
<1>5. \A f \in Finding : Count(f, <<>>) = Cardinality({})
  BY <1>1 DEF Count
<1> QED
  BY <1>1, <1>2, <1>3, <1>4, <1>5, FS_EmptySet DEF Gathered

LEMMA ReportGathered ==
    ASSUME Gathered, NEW t \in DOMAIN agTasks, agTasks[t] = "running", NEW report \in Seq(Finding),
           agFound' = agFound \o report, agSaid' = [agSaid EXCEPT ![t] = report],
           agTasks' = [agTasks EXCEPT ![t] = "done"], agRun' = agRun
    PROVE  Gathered'
<1>1. /\ agFound \in Seq(Finding) /\ t \in DOMAIN agSaid /\ agSaid[t] = <<>> /\ Range(agFound) = Said
      /\ DOMAIN agSaid' = DOMAIN agSaid /\ DOMAIN agTasks' = DOMAIN agTasks /\ DOMAIN agSaid = DOMAIN agTasks
      /\ agSaid'[t] = report /\ \A s \in DOMAIN agSaid : s # t => agSaid'[s] = agSaid[s] /\ agTasks'[s] = agTasks[s]
  BY DEF Gathered
<1>2. agFound' \in Seq(Finding) /\ Range(agFound') = Range(agFound) \cup Range(report)
  BY <1>1, ConcatRange
<1>3. \A s \in DOMAIN agSaid' : agSaid'[s] \in Seq(Finding) /\ (agTasks'[s] # "done" => agSaid'[s] = <<>>)
  BY <1>1 DEF Gathered
<1>4. Range(agFound') = Said'
  <2> DEFINE Of(said, s) == {said[s][i] : i \in DOMAIN said[s]}
  <2>1. Said = UNION {Of(agSaid, s) : s \in DOMAIN agSaid} /\ Said' = UNION {Of(agSaid', s) : s \in DOMAIN agSaid}
    BY <1>1 DEF Said
  <2>2. Of(agSaid, t) = {} /\ Of(agSaid', t) = Range(report)
        /\ \A s \in DOMAIN agSaid : s # t => Of(agSaid', s) = Of(agSaid, s)
    BY <1>1 DEF Range
  <2> HIDE DEF Of
  <2>3. Said' = Said \cup Range(report)
    <3>1. ASSUME NEW x \in Said' PROVE x \in Said \cup Range(report)
      <4>1. PICK s \in DOMAIN agSaid : x \in Of(agSaid', s)
        BY <2>1
      <4> QED
        BY <2>1, <2>2, <4>1
    <3>2. ASSUME NEW x \in Said PROVE x \in Said'
      <4>1. PICK s \in DOMAIN agSaid : x \in Of(agSaid, s)
        BY <2>1
      <4> QED
        BY <2>1, <2>2, <4>1
    <3>3. Range(report) \subseteq Said'
      BY <1>1, <2>1, <2>2
    <3> QED
      BY <3>1, <3>2, <3>3
  <2> QED
    BY <1>1, <1>2, <2>3
<1>5. ASSUME NEW f \in Finding PROVE IsFiniteSet(Ballots(f)') /\ Count(f, agFound') = Cardinality(Ballots(f)')
  <2>1. IsFiniteSet(Ballots(f)) /\ Count(f, agFound) = Cardinality(Ballots(f))
    BY DEF Gathered
  <2>2. IsFiniteSet(Ballots(f)') /\ Cardinality(Ballots(f)') = Cardinality(Ballots(f)) + Count(f, report)
    BY <1>1, <2>1, BallotsCast
  <2>3. Count(f, agFound \o report) = Count(f, agFound) + Count(f, report)
    BY <1>1, CountConcat
  <2> QED
    BY <2>1, <2>2, <2>3
<1> QED
  BY <1>1, <1>2, <1>3, <1>4, <1>5 DEF Gathered

\* The swarm keeps each kind once, if the votes are enough.
LEMMA OneOfAKind ==
    ASSUME NEW merge, NEW found \in Seq(Finding), NEW kept, Chosen(kept, merge, found, Len(found)), NEW f \in Range(found)
    PROVE  Cardinality({i \in DOMAIN kept : Same(kept[i], f)}) = IF Count(f, found) >= Threshold(merge) THEN 1 ELSE 0
<1> DEFINE alike == {i \in DOMAIN kept : Same(kept[i], f)}
<1>1. DOMAIN found = 1..Len(found)
  BY LenProperties
<1>2. PICK l \in 1..Len(found) : f = found[l]
  BY <1>1 DEF Range
<1>3. \A i \in alike : Count(f, found) = Count(kept[i], found)
  BY DEF Count, Key, Same
<1>4. \A i, j \in alike : i = j
  BY DEF Chosen, Same
<1>5. CASE Count(f, found) >= Threshold(merge)
  <2>1. PICK i \in DOMAIN kept : Same(kept[i], f)
    BY <1>2, <1>5 DEF Chosen
  <2>2. alike = {i}
    BY <1>4, <2>1
  <2> QED
    BY <1>5, <2>2, FS_Singleton
<1>6. CASE ~(Count(f, found) >= Threshold(merge))
  <2>1. alike = {}
    BY <1>3, <1>6 DEF Chosen
  <2> QED
    BY <1>6, <2>1, FS_EmptySet
<1> QED
  BY <1>5, <1>6

\* What is before the scanners' findings.
LEMMA FirstPart ==
    ASSUME NEW s \in Seq(Finding), NEW t \in Seq(Finding)
    PROVE  SubSeq(s \o t, 1, Len(s \o t) - Len(t)) = s
<1>1. /\ s \o t \in Seq(Finding) /\ Len(s \o t) = Len(s) + Len(t) /\ Len(s) \in Nat /\ Len(t) \in Nat
      /\ Len(s \o t) - Len(t) = Len(s) /\ \A i \in 1..Len(s) : (s \o t)[i] = s[i]
  BY ConcatProperties, LenProperties
<1>2. CASE Len(s) = 0
  <2>1. s = <<>> /\ 0 < 1
    BY <1>2, EmptySeq
  <2>2. SubSeq(s \o t, 1, 0) = <<>>
    BY <1>1, SubSeqEmpty
  <2> QED
    BY <1>1, <1>2, <2>1, <2>2
<1>3. CASE Len(s) # 0
  <2>1. 1 \in 1..Len(s) /\ Len(s) \in 1..Len(s)
    BY <1>1, <1>3
  <2>2. SubSeq(s \o t, 1, Len(s)) = SubSeq(s, 1, Len(s))
    BY <2>1, SubSeqOfConcat1
  <2> QED
    BY <1>1, <2>2, SubSeqFull
<1> QED
  BY <1>2, <1>3

LEMMA MergeKeeps ==
    ASSUME Gathered, Merge
    PROVE  Decided' /\ ScannedMerged'
<1> DEFINE own == IF agRun.mode = "swarm" THEN Merged(agRun.merge, agFound) ELSE agFound
           scanned == agRun.scanned
<1>1. /\ UNCHANGED <<agRun, agSaid>> /\ agFound' = WithScanned(own) /\ agRun \in Runs /\ agFound \in Seq(Finding)
      /\ Range(agFound) = Said
  BY DEF Merge, Gathered
<1>2. scanned \in Seq(Finding) /\ DOMAIN scanned = 1..Len(scanned) /\ \A i \in 1..Len(scanned) : scanned[i] \in Finding
  <2>1. scanned \in Seq(Finding)
    BY <1>1, AgentAssumption DEF Runs
  <2> HIDE DEF scanned
  <2> QED
    BY <2>1, LenProperties
<1>3. agRun.mode = "swarm" => Chosen(own, agRun.merge, agFound, Len(agFound))
  BY <1>1, MergedKeeps
<1>4. own \in Seq(Finding) /\ Range(own) \subseteq Said
  BY <1>1, <1>3 DEF Chosen
<1> HIDE DEF own
<1>5. Said' = Said /\ \A f : Ballots(f)' = Ballots(f)
  BY <1>1 DEF Said, Ballots
<1>6. CASE agRun.mode = "pipeline"
  <2>1. /\ WithScanned(own) \in Seq(Finding)
        /\ \A i \in DOMAIN scanned : StandsFor(WithScanned(own), own, scanned, i)
    BY <1>2, <1>4, <1>6, PipelineKeeps
  <2>2. Decided'
    BY <1>1, <1>6 DEF Decided
  <2>3. ASSUME NEW i \in DOMAIN scanned
        PROVE  \/ \E g \in Range(agFound') : KeepHeuristic(g, FALSE) = KeepHeuristic(scanned[i], FALSE)
               \/ \E g \in Said \cup {scanned[j] : j \in 1..(i - 1)} : SamePlace(g, scanned[i])
    <3>1. StandsFor(agFound', own, scanned, i) /\ scanned[i] \in Finding
      BY <1>1, <1>2, <2>1
    <3> HIDE DEF scanned
    <3> QED
      BY <1>4, <3>1, KeptAlike DEF StandsFor
  <2> QED
    BY <1>1, <1>5, <1>6, <2>1, <2>2, <2>3 DEF ScannedMerged
<1>7. CASE agRun.mode # "pipeline"
  <2>1. agFound' = own \o scanned
    BY <1>1, <1>7 DEF WithScanned
  <2>2. agFound' \in Seq(Finding) /\ Range(agFound') = Range(own) \cup Range(scanned)
    <3> HIDE DEF scanned
    <3> QED
      BY <1>2, <1>4, <2>1, ConcatRange
  <2>3. \A i \in DOMAIN scanned : scanned[i] \in Range(agFound')
    BY <2>2 DEF Range
  <2>4. ScannedMerged'
    BY <1>1, <2>2, <2>3 DEF ScannedMerged
  <2>5. FromAgents' = own
    <3>1. FromAgents' = SubSeq(own \o scanned, 1, Len(own \o scanned) - Len(scanned))
      BY <1>1, <2>1 DEF FromAgents
    <3> HIDE DEF scanned
    <3> QED
      BY <1>2, <1>4, <3>1, FirstPart
  <2>6. ASSUME agRun.mode = "swarm", NEW f \in Said
        PROVE  Cardinality({i \in DOMAIN own : Same(own[i], f)}) = IF Votes(f) >= Threshold(agRun.merge) THEN 1 ELSE 0
    <3>1. Cardinality({i \in DOMAIN own : Same(own[i], f)})
              = IF Count(f, agFound) >= Threshold(agRun.merge) THEN 1 ELSE 0
      BY <1>1, <1>3, <2>6, OneOfAKind
    <3>2. f \in Finding
      BY <1>1, <2>6, LenProperties DEF Range
    <3>3. Count(f, agFound) = Votes(f)
      BY <3>2 DEF Gathered, Ballots, Votes
    <3> QED
      BY <3>1, <3>3
  <2>7. Decided'
    <3>1. \A f : Votes(f)' = Votes(f)
      BY <1>1 DEF Votes
    <3>2. \A i \in DOMAIN own : own[i] \in Said
      BY <1>4 DEF Range
    <3> QED
      BY <1>1, <1>5, <2>5, <2>6, <3>1, <3>2 DEF Decided
  <2> QED
    BY <2>4, <2>7
<1> QED
  BY <1>6, <1>7

LEMMA CheckKeeps ==
    ASSUME Decided, ScannedMerged, Check
    PROVE  Decided' /\ ScannedMerged' /\ ScannerFindingsStay'
<1>1. UNCHANGED <<agRun, agTasks, agFound, agSaid>>
      /\ agResult' = FlattenSeq([i \in DOMAIN agFound |-> KeepHeuristic(agFound[i], FALSE)])
  BY DEF Check
<1>2. Decided' /\ ScannedMerged'
  <2>1. Decided' = Decided
    BY <1>1 DEF Decided, FromAgents, Said, Votes
  <2>2. ScannedMerged' = ScannedMerged
    BY <1>1 DEF ScannedMerged, Said
  <2> QED
    BY <2>1, <2>2
<1>3. ASSUME NEW i \in DOMAIN agRun.scanned, KeepHeuristic(agRun.scanned[i], FALSE) # <<>>,
             NEW g \in Range(agFound), KeepHeuristic(g, FALSE) = KeepHeuristic(agRun.scanned[i], FALSE)
      PROVE  \E j \in DOMAIN agResult' : agResult'[j] = KeepHeuristic(agRun.scanned[i], FALSE)[1]
  <2>1. KeepHeuristic(g, FALSE)[1] \in Range(agResult')
    BY <1>1, <1>3, EachKept DEF ScannedMerged
  <2> QED
    BY <1>3, <2>1 DEF Range
<1>4. ScannerFindingsStay'
  <2>1. Said' = Said /\ agRun' = agRun
    BY <1>1 DEF Said
  <2> SUFFICES ASSUME NEW i \in DOMAIN agRun'.scanned
               PROVE  \/ KeepHeuristic(agRun'.scanned[i], FALSE) = <<>>
                      \/ \E j \in DOMAIN agResult' : agResult'[j] = KeepHeuristic(agRun'.scanned[i], FALSE)[1]
                      \/ /\ agRun'.mode = "pipeline"
                         /\ \E g \in Said' \cup {agRun'.scanned[j] : j \in 1..(i - 1)} :
                               g.title = agRun'.scanned[i].title /\ g.location = agRun'.scanned[i].location
    BY DEF ScannerFindingsStay
  <2>2. CASE \E g \in Range(agFound) : KeepHeuristic(g, FALSE) = KeepHeuristic(agRun.scanned[i], FALSE)
    BY <1>3, <2>1, <2>2
  <2>3. CASE /\ agRun.mode = "pipeline"
             /\ \E g \in Said \cup {agRun.scanned[j] : j \in 1..(i - 1)} : SamePlace(g, agRun.scanned[i])
    BY <2>1, <2>3 DEF SamePlace
  <2> QED
    BY <2>1, <2>2, <2>3 DEF ScannedMerged
<1> QED
  BY <1>2, <1>4

LEMMA AgStarts == AgInit => AgInv
  BY DEF AgInit, AgInv, Steps, ScannerFindingsStay

LEMMA AgKeeps == AgInv /\ [AgNext]_agVars => AgInv'
<1> SUFFICES ASSUME AgInv, [AgNext]_agVars PROVE AgInv'
  OBVIOUS
<1>0. /\ agStep \in {"idle", "planning"} => agFound = <<>>
      /\ agStep = "planning" => agRun \in Runs
      /\ agStep \in {"running", "merging"} => Gathered
      /\ agStep \in {"checking", "returned"} => Decided /\ ScannedMerged
      /\ agStep \in Steps
  BY DEF AgInv
<1>1. ASSUME NEW run \in Runs, AgBegin(run) PROVE AgInv'
  <2>1. /\ agStep' \in {"failed", "planning", "running"} /\ agRun' \in Runs /\ agFound' = <<>>
        /\ agSaid' = [t \in DOMAIN agTasks' |-> <<>>]
    BY <1>0, <1>1 DEF AgBegin
  <2>2. Gathered'
    BY <2>1, NothingSaid
  <2> QED
    BY <2>1, <2>2 DEF AgInv, Steps, ScannerFindingsStay
<1>2. ASSUME NEW n \in 0..MaxSubtasks, PlanAnswered(n) PROVE AgInv'
  <2>1. /\ agStep' = "running" /\ agRun' \in Runs /\ agFound' = <<>> /\ agSaid' = [t \in DOMAIN agTasks' |-> <<>>]
    BY <1>0, <1>2 DEF PlanAnswered, Queue
  <2>2. Gathered'
    BY <2>1, NothingSaid
  <2> QED
    BY <2>1, <2>2 DEF AgInv, Steps, ScannerFindingsStay
<1>3. CASE PlanFails \/ MergePanics
  BY <1>3 DEF PlanFails, MergePanics, AgInv, Steps, ScannerFindingsStay
<1>4. ASSUME NEW t \in DOMAIN agTasks, TaskStarts(t) \/ TaskPanics(t) PROVE AgInv'
  <2>1. /\ Gathered /\ UNCHANGED <<agRun, agFound, agSaid>> /\ agStep' \in {"running", "crashed"}
        /\ DOMAIN agTasks' = DOMAIN agTasks /\ agTasks[t] \in {"queued", "running"}
        /\ \A s \in DOMAIN agTasks : s # t => agTasks'[s] = agTasks[s]
    BY <1>0, <1>4 DEF TaskStarts, TaskPanics
  <2>2. Said' = Said /\ \A f : Ballots(f)' = Ballots(f)
    BY <2>1 DEF Said, Ballots
  <2>3. Gathered'
    BY <2>1, <2>2 DEF Gathered
  <2> QED
    BY <2>1, <2>3 DEF AgInv, Steps, ScannerFindingsStay
<1>5. ASSUME NEW t \in DOMAIN agTasks, NEW report \in Reports \cup {<<>>}, TaskReports(t, report) PROVE AgInv'
  <2>1. report \in Seq(Finding)
    BY AgentAssumption, EmptySeq
  <2>2. Gathered /\ agStep' = "running"
    BY <1>0, <1>5 DEF TaskReports
  <2>3. Gathered'
    BY <1>5, <2>1, <2>2, ReportGathered DEF TaskReports
  <2> QED
    BY <2>2, <2>3 DEF AgInv, Steps, ScannerFindingsStay
<1>6. CASE AllEnded
  <2>1. Gathered /\ agStep' = "merging" /\ UNCHANGED <<agRun, agTasks, agFound, agSaid>>
    BY <1>0, <1>6 DEF AllEnded
  <2>2. Gathered'
    BY <2>1 DEF Gathered, Said, Ballots
  <2> QED
    BY <2>1, <2>2 DEF AgInv, Steps, ScannerFindingsStay
<1>7. CASE Merge
  <2>1. Gathered /\ agStep' = "checking"
    BY <1>0, <1>7 DEF Merge
  <2> QED
    BY <1>7, <2>1, MergeKeeps DEF AgInv, Steps, ScannerFindingsStay
<1>8. CASE Check
  <2>1. Decided /\ ScannedMerged /\ agStep' = "returned"
    BY <1>0, <1>8 DEF Check
  <2> QED
    BY <1>8, <2>1, CheckKeeps DEF AgInv, Steps
<1>9. CASE UNCHANGED agVars
  <2>1. UNCHANGED <<agRun, agStep, agTasks, agFound, agSaid, agResult>>
    BY <1>9 DEF agVars
  <2>2. Gathered' = Gathered
    BY <2>1 DEF Gathered, Said, Ballots
  <2>3. Decided' = Decided
    BY <2>1 DEF Decided, FromAgents, Said, Votes
  <2>4. ScannedMerged' = ScannedMerged /\ ScannerFindingsStay' = ScannerFindingsStay
    BY <2>1 DEF ScannedMerged, ScannerFindingsStay, Said
  <2> QED
    BY <1>0, <2>1, <2>2, <2>3, <2>4 DEF AgInv
<1> QED
  BY <1>1, <1>2, <1>3, <1>4, <1>5, <1>6, <1>7, <1>8, <1>9 DEF AgNext, AgStep

LEMMA PhaseGoesOn == AgSpec => []AgInv
<1> QED
  BY AgStarts, AgKeeps, PTL DEF AgSpec

LEMMA AgHolds == AgInv => VotesDecide /\ ScannerFindingsStay
  BY DEF AgInv, Decided, VotesDecide

\* The votes decide what a swarm keeps, in whichever order its agents end and whichever
\* of them panic (swarm.rs).
THEOREM VotesCounted == AgSpec => []VotesDecide
<1> QED
  BY PhaseGoesOn, AgHolds, PTL

\* No finding of the scanners is lost in the agents' phase, in any of its modes
\* (pipeline.rs, orchestrator.rs).
THEOREM ScannersHeard == AgSpec => []ScannerFindingsStay
<1> QED
  BY PhaseGoesOn, AgHolds, PTL
===============================================================================
