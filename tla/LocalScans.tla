------------------------------- MODULE LocalScans -------------------------------
(***************************************************************************)
(* A scan by one of the scanners that look at data at rest, item by item:  *)
(* the files a walk selected (files, browser), a program (binary), a page  *)
(* (page), a host (network) or the simulated memory (memory).  Files may   *)
(* have gone or be unreadable when their turn comes, and a page need not   *)
(* answer every question.                                                  *)
(***************************************************************************)
EXTENDS ScanRules, MemoryRules

CONSTANT LcJobs     \* what is scanned, see IsLocalJob

LocalScanners == {"files", "browser", "binary", "page", "network", "memory"}
IsLocalJob(job) ==
    /\ job.scanner \in LocalScanners
    /\ DOMAIN job = {"scanner", "options", "items", "catalogs", "found", "allowed"}
    /\ job.items \in Seq({job.items[i] : i \in DOMAIN job.items})
    /\ \A i \in DOMAIN job.items : DOMAIN job.items[i] = {"features", "openPorts", "ports"}
    /\ job.scanner \notin {"files", "browser"} => Len(job.items) = 1
ASSUME LocalAssumption == \A job \in LcJobs : IsLocalJob(job)

VARIABLES
    lcJob,      \* what is scanned, how; whether it is there and allowed
    lcStage,    \* "idle", "looking", "done"
    lcSeen,     \* of every item looked at, the features that could be seen
    lcFound,    \* the findings: pairs of an item's number and a finding
    lcError     \* "none" or the error the scan ended with

lcVars == <<lcJob, lcStage, lcSeen, lcFound, lcError>>

NothingToScan == [scanner |-> "files", options |-> {}, items |-> <<>>, catalogs |-> {}, found |-> TRUE, allowed |-> TRUE]

LcTypeOK ==
    /\ lcJob \in LcJobs \cup {NothingToScan}
    /\ lcStage \in {"idle", "looking", "done"}
    /\ Len(lcSeen) <= Len(lcJob.items)
    /\ \A pair \in lcFound : pair[1] \in DOMAIN lcSeen
    /\ lcError \in {"none", "Config", "InvalidInput", "Unsupported", "UnsupportedFormat", "Provider", "Internal", "Io"}

LcInit == lcJob = NothingToScan /\ lcStage = "idle" /\ lcSeen = <<>> /\ lcFound = {} /\ lcError = "none"

-----------------------------------------------------------------------------
\* Why a scan does not begin: no target, or one that is too large, must not be
\* navigated to, or is the memory without the consent to simulate it.
Refusal(job) ==
    CASE job.scanner \in {"files", "browser", "binary"} /\ ~job.found                -> "Config"
      [] job.scanner = "binary" /\ job.found /\ "oversized" \in job.items[1].features -> "InvalidInput"
      [] job.scanner = "page" /\ ~NavigateAllowed(job.items[1].features)             -> "Config"
      [] job.scanner = "memory" /\ ~job.allowed                                      -> "Unsupported"
      [] OTHER                                                                       -> "none"

LcBegin(job) ==
    /\ lcStage = "idle"
    /\ lcJob' = job
    /\ lcError' = Refusal(job)
    /\ lcStage' = IF lcError' = "none" THEN "looking" ELSE "done"
    /\ UNCHANGED <<lcSeen, lcFound>>

Looked == Len(lcSeen)
Turn == lcStage = "looking" /\ Looked < Len(lcJob.items)
Item == lcJob.items[Looked + 1]

\* What the item gives, of which the features seen could be seen.
FindingsOf(job, item, seen) ==
    CASE job.scanner = "files"   -> FileFindings(seen, job.options)
      [] job.scanner = "browser" -> BrowserFindings(seen, job.options)
      [] job.scanner = "binary"  -> BinaryFindings(seen, job.options, job.catalogs)
      [] job.scanner = "page"    -> PageFindings(seen)
      [] job.scanner = "network" -> NetworkFindings([item EXCEPT !.features = seen], job.options)
      [] job.scanner = "memory"  -> MemoryFindings("linux", job.options, 600)

Panics(seen) ==
    \/ lcJob.scanner = "files" /\ FilePanics(seen, lcJob.options)
    \/ lcJob.scanner = "binary" /\ BinaryPanics(seen, lcJob.options)

LookAt(seen) ==
    /\ lcFound' = lcFound \cup ({Looked + 1} \X FindingsOf(lcJob, Item, seen))
    /\ lcSeen' = Append(lcSeen, seen)
    /\ UNCHANGED <<lcJob, lcStage, lcError>>
Fail(error) ==
    /\ lcError' = error /\ lcFound' = {} /\ lcStage' = "done"
    /\ UNCHANGED <<lcJob, lcSeen>>

LookAtItem ==
    /\ Turn /\ ~Panics(Item.features)
    /\ lcJob.scanner = "binary" => FormatOf(Item.features) # "none"
    /\ lcJob.scanner = "page" => DebuggerAllowed(Item.features)
    /\ LookAt(Item.features)

\* A file that cannot be read is passed over, its name is not.  Seeded bug: the
\* scan ends there.
Unreadable_Ends ==
    /\ Turn /\ lcJob.scanner \in {"files", "browser"}
    /\ lcStage' = "done"
    /\ UNCHANGED <<lcJob, lcSeen, lcFound, lcError>>

Unreadable ==
    /\ Turn /\ lcJob.scanner \in {"files", "browser"}
    /\ LookAt(IF lcJob.scanner = "files" THEN Item.features \cup {"unreadable"} ELSE {})

\* The page tells only some of what it is asked.
PageAnswers(told) == Turn /\ lcJob.scanner = "page" /\ DebuggerAllowed(Item.features) /\ LookAt(told)

\* The item fails the whole scan: a panic, no known format, a program that has gone,
\* a browser that is not there or whose debugger is elsewhere.
ItemPanics == Turn /\ Panics(Item.features) /\ Fail("Internal")
FormatUnknown == Turn /\ lcJob.scanner = "binary" /\ FormatOf(Item.features) = "none" /\ Fail("UnsupportedFormat")
ItemGone ==
    \/ Turn /\ lcJob.scanner = "binary" /\ Fail("Io")
    \/ Turn /\ lcJob.scanner = "page" /\ Fail("Provider")

LcEnd ==
    /\ lcStage = "looking" /\ ~Turn
    /\ lcStage' = "done"
    /\ UNCHANGED <<lcJob, lcSeen, lcFound, lcError>>

LcStep ==
    \/ LookAtItem \/ Unreadable \/ ItemPanics \/ FormatUnknown \/ ItemGone \/ LcEnd
    \/ \E told \in SUBSET (IF Turn THEN Item.features ELSE {}) : PageAnswers(told)
LcNext == (\E job \in LcJobs : LcBegin(job)) \/ LcStep
LcSpec == LcInit /\ [][LcNext]_lcVars

-----------------------------------------------------------------------------
\* A scan that ends without an error has looked at every item, and found in each what
\* it would have found had the item been alone: unreadable, binary or silent
\* neighbours and their order take nothing away and add nothing.  A scan that ends
\* with an error has no findings, and an item, or the target, is to blame.
ItemsAreIndependent ==
    lcStage = "done" =>
        IF lcError = "none"
        THEN /\ Len(lcSeen) = Len(lcJob.items)
             /\ lcFound = UNION {{i} \X FindingsOf(lcJob, lcJob.items[i], lcSeen[i]) : i \in DOMAIN lcJob.items}
             /\ lcJob.scanner = "files" => \A i \in DOMAIN lcSeen : ~FilePanics(lcSeen[i], lcJob.options)
        ELSE /\ lcFound = {}
             /\ lcError = "Internal" => Panics(Item.features)
=============================================================================
