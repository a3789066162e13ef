------------------------------ MODULE ScanOutcome ------------------------------
(***************************************************************************)
(* What a run of `vest scan` tells its caller, usually a CI job, through   *)
(* its exit code, its report and the database, one run after the other:    *)
(* the gates --fail-on-severity and --fail-on-new, failures at every       *)
(* stage, resumes and kills.                                               *)
(*                                                                         *)
(* The rows of the scans are kept in the order they were created in, which *)
(* is the order the baseline of --fail-on-new goes by.                     *)
(***************************************************************************)
EXTENDS ScanCommand

CONSTANTS
    Commands,   \* command lines that are tried
    Configs,    \* configurations that are tried
    SoCalls,    \* which command line is tried with which configuration
    SoFindings, \* findings there are to find: records of title and severity
    MaxScans    \* rows in the database (bounds TLC)

ASSUME OutcomeAssumption ==
    /\ MaxScans \in Nat /\ Commands # {} /\ Configs # {} /\ SoCalls \subseteq [args : Commands, config : Configs]
    /\ \A f \in SoFindings : f.severity \in DOMAIN SeverityRank /\ DOMAIN f.title = {"words", "padded"}

VARIABLES
    soRows,     \* the rows: status, stored findings, and what is frozen for a resume
    soStage,    \* where the run is
    soArgs,     \* its command line
    soConfig,   \* and its configuration
    soRow,      \* the row it has inserted or marked running, 0 without
    soLeft,     \* scanners that have not run yet
    soErrors,   \* errors of scanners
    soRan,      \* whether a scanner ran
    soFound,    \* the findings it has
    soSoft,     \* the error of provider or agents, or "none"
    soReport,   \* what was printed: <<>> or <<findings>>
    soExit,     \* the exit code of the last run
    soToldOf    \* titles a caller knows of, each with its target (history)

soVars == <<soRows, soStage, soArgs, soConfig, soRow, soLeft, soErrors, soRan, soFound, soSoft,
            soReport, soExit, soToldOf>>

SoStages == {"idle", "start", "effects", "scanners", "agent", "report", "store", "gates"}
ExitCodes == {"success", "internal", "input", "config", "denied", "scanner", "storage", "provider",
              "gate", "killed"}

\* What rows may keep.
Frozen == {FrozenOf(args, config) : args \in Commands, config \in Configs}

SoTypeOK ==
    /\ \A i \in DOMAIN soRows : /\ soRows[i].status \in {"running", "completed", "failed"}
                                /\ soRows[i].stored \subseteq SoFindings
                                /\ soRows[i].frozen \in Frozen
    /\ soStage \in SoStages /\ soArgs \in Commands /\ soConfig \in Configs
    /\ soRow \in 0..Len(soRows) /\ soErrors \subseteq {"Config", "Scan"} /\ soRan \in BOOLEAN
    /\ soFound \subseteq SoFindings /\ soExit \in ExitCodes \cup {"none"}
    /\ soToldOf \subseteq {frozen.target : frozen \in Frozen} \X KeysOf(SoFindings)

SoInit ==
    /\ soRows = <<>> /\ soStage = "idle"
    /\ soArgs = CHOOSE c \in Commands : TRUE
    /\ soConfig = CHOOSE c \in Configs : TRUE
    /\ soRow = 0 /\ soLeft = {} /\ soErrors = {} /\ soRan = FALSE /\ soFound = {}
    /\ soSoft = "none" /\ soReport = <<>> /\ soExit = "none" /\ soToldOf = {}

-----------------------------------------------------------------------------
Stored(i) == soRows[i].stored
SetRow(status, findings) == soRows' = [soRows EXCEPT ![soRow].status = status, ![soRow].stored = findings]
TargetOf(i) == soRows[i].frozen.target
\* What somebody who sees these findings of a row knows: their titles, unless blank.
Known(i, findings) == {<<TargetOf(i), key>> : key \in KeysOf(findings) \ {Blank}}

\* The scan whose findings are the baseline: the newest other one of the target,
\* however it ended.  Seeded bug: the scan itself is taken for its predecessor.
Baseline_Itself(row) == Len(soRows)
Baseline(row) ==
    LET others == {i \in DOMAIN soRows \ {row} : SameLogicalTarget(TargetOf(i), TargetOf(row))}
    IN  IF others = {} THEN 0 ELSE CHOOSE i \in others : \A j \in others : j <= i

\* The run is over.  Its caller looks at what was stored if it failed, and does
\* not if it did not want to know of new findings or it is the first of its kind.
Over(code, stored) ==
    /\ soStage' = "idle"
    /\ soExit' = code
    /\ soToldOf' = IF code # "success" \/ ~soArgs.failOnNew \/ Baseline(soRow) = 0
                   THEN soToldOf \cup Known(soRow, stored) ELSE soToldOf
OverWithoutRow(error) == Over(CliExitCode(error), {})

\* A new run: the command line and the configuration are checked, and a dry run
\* or a refused one ends before there is a row.
SoBegin(args, config) ==
    LET refusal == FirstRefusal(Checks(args, config))
        idle == refusal # "accepted" \/ args.dry
    IN  /\ soStage = "idle" /\ ~args.resume
        /\ soArgs' = args /\ soConfig' = config
        /\ soRow' = 0 /\ soErrors' = {} /\ soRan' = FALSE /\ soFound' = {}
        /\ soSoft' = "none" /\ soReport' = <<>>
        /\ soLeft' = IF idle THEN {} ELSE SelectedScanners(args, config)
        /\ soStage' = IF idle THEN "idle" ELSE "start"
        /\ soExit' = CASE refusal # "accepted" -> CliExitCode(refusal)
                       [] refusal = "accepted" /\ args.dry -> "success"
                       [] OTHER -> "none"
        /\ UNCHANGED <<soRows, soToldOf>>

\* The resume ends and has not touched the row.
ResumeRefused(error) ==
    /\ soRow' = 0 /\ soFound' = {} /\ soLeft' = {} /\ soRan' = FALSE
    /\ soStage' = "idle" /\ soExit' = CliExitCode(error)
    /\ UNCHANGED soRows

\* The row is marked running, and only then are the severity and --dry-run looked at.
\* The scanners left are any of its list.
RowTakenUp(args, i) ==
    LET ended == ~SeverityValid(args) \/ args.dry
        scanners == soRows[i].frozen.scanners
    IN  /\ soRow' = i /\ soFound' = Stored(i)
        /\ soRows' = [soRows EXCEPT ![i].status = "running"]
        /\ soLeft' \in IF ended THEN {{}} ELSE SUBSET scanners
        /\ soRan' = (~ended /\ soLeft' # scanners)
        /\ soStage' = IF ended THEN "idle" ELSE "effects"
        /\ soExit' = CASE ~SeverityValid(args)             -> CliExitCode("InvalidInput")
                       [] SeverityValid(args) /\ args.dry -> "success"
                       [] OTHER                           -> "none"

\* A resume of the scan with id i, for which there need not be a row.
SoResume(args, config, i) ==
    LET refusal == FirstRefusal(ResumeChecks(args, config, {soRows[j] : j \in DOMAIN soRows \cap {i}}))
    IN  /\ soStage = "idle" /\ args.resume
        /\ soArgs' = args /\ soConfig' = config
        /\ soErrors' = {} /\ soSoft' = "none" /\ soReport' = <<>>
        /\ \/ refusal # "accepted" /\ ResumeRefused(refusal)
           \/ ResumeRefused("Storage")          \* the database fails
           \/ refusal = "accepted" /\ RowTakenUp(args, i)
        /\ UNCHANGED soToldOf

\* The row of the scan is inserted, or the database fails.
SoStart ==
    /\ soStage = "start"
    /\ \/ /\ Len(soRows) < MaxScans
          /\ soRows' = Append(soRows, [status |-> "running", stored |-> {}, frozen |-> FrozenOf(soArgs, soConfig)])
          /\ soRow' = Len(soRows) + 1
          /\ soStage' = "effects"
          /\ UNCHANGED <<soExit, soToldOf>>
       \/ OverWithoutRow("Storage") /\ UNCHANGED <<soRows, soRow>>
    /\ UNCHANGED <<soArgs, soConfig, soLeft, soErrors, soRan, soFound, soSoft, soReport>>

\* Effects to approve that nobody knows end the run, its row running.
SoEffects ==
    /\ soStage = "effects"
    /\ IF EffectsValid(soArgs) THEN soStage' = "scanners" /\ UNCHANGED <<soExit, soToldOf>>
                               ELSE Over("config", Stored(soRow))
    /\ UNCHANGED <<soRows, soArgs, soConfig, soRow, soLeft, soErrors, soRan, soFound, soSoft, soReport>>

\* A scanner that is not known fails, one that is switched off finds nothing.
ScannerMayFind(s) == s \in KnownScanners /\ s \notin soConfig.disabled

\* Scanner s has its findings, which are stored at once, or the database fails.
ScannerFinds(s, findings) ==
    /\ soStage = "scanners" /\ s \in soLeft
    /\ s \in KnownScanners
    /\ findings # {} => ScannerMayFind(s)
    /\ soRan' = TRUE
    /\ \/ /\ soLeft' = soLeft \ {s}
          /\ soFound' = soFound \cup findings
          /\ SetRow("running", soFound')
          /\ UNCHANGED <<soStage, soExit, soToldOf>>
       \/ /\ Over("storage", Stored(soRow))
          /\ UNCHANGED <<soRows, soLeft, soFound>>
    /\ UNCHANGED <<soArgs, soConfig, soRow, soErrors, soSoft, soReport>>

ScannerFails(s, error) ==
    /\ soStage = "scanners" /\ s \in soLeft
    /\ IF s \in KnownScanners THEN ScannerMayFind(s) ELSE error = "Config"
    /\ soLeft' = soLeft \ {s}
    /\ soErrors' = soErrors \cup {ScannerError(error)}
    /\ UNCHANGED <<soRows, soStage, soArgs, soConfig, soRow, soRan, soFound, soSoft, soReport, soExit, soToldOf>>

\* When no scanner ran the run is over, and its row stays as it is.
ScannersEnd ==
    /\ soStage = "scanners" /\ soLeft = {}
    /\ IF ~soRan /\ soErrors # {}
       THEN Over(CliExitCode(ScannerFailure(soErrors)), Stored(soRow))
       ELSE soStage' = "agent" /\ UNCHANGED <<soExit, soToldOf>>
    /\ UNCHANGED <<soRows, soArgs, soConfig, soRow, soLeft, soErrors, soRan, soFound, soSoft, soReport>>

\* Without a provider the findings stay; the agents replace them.
AgentEnds(findings) ==
    /\ soStage = "agent"
    /\ soRows[soRow].frozen.provider = "none" => findings = soFound
    /\ soFound' = findings
    /\ soStage' = "report"
    /\ UNCHANGED <<soRows, soArgs, soConfig, soRow, soLeft, soErrors, soRan, soSoft, soReport, soExit, soToldOf>>

AgentFails(error) ==
    /\ soStage = "agent" /\ soRows[soRow].frozen.provider # "none"
    /\ soSoft' = SoftFailure(error)
    /\ soStage' = "report"
    /\ UNCHANGED <<soRows, soArgs, soConfig, soRow, soLeft, soErrors, soRan, soFound, soReport, soExit, soToldOf>>

\* Seeded bug: only scanners count as failing.
Degraded_Scanners == soErrors # {}

Degraded == soErrors # {} \/ soSoft # "none"

\* The report is printed, and written to a file if that is asked for.
Report ==
    /\ soStage = "report"
    /\ IF soArgs.format \notin ReportFormats
       THEN Over("config", Stored(soRow)) /\ UNCHANGED soReport
       ELSE /\ soReport' = <<soFound>>
            /\ IF soArgs.output = "unwritable" THEN Over("internal", Stored(soRow))
               ELSE soStage' = "store" /\ UNCHANGED <<soExit, soToldOf>>
    /\ UNCHANGED <<soRows, soArgs, soConfig, soRow, soLeft, soErrors, soRan, soFound, soSoft>>

\* One transaction replaces the findings and ends the row, or fails.
Finalize ==
    /\ soStage = "store"
    /\ \/ /\ SetRow(IF Degraded THEN "failed" ELSE "completed", soFound)
          /\ soStage' = "gates"
          /\ UNCHANGED <<soExit, soToldOf>>
       \/ Over("storage", Stored(soRow)) /\ UNCHANGED soRows
    /\ UNCHANGED <<soArgs, soConfig, soRow, soLeft, soErrors, soRan, soFound, soSoft, soReport>>

SeverityGate == Given(soArgs.failOn) /\ \E f \in soFound : Meets(f.severity, soArgs.failOn)
NewGate == soArgs.failOnNew /\ Baseline(soRow) # 0 /\ NewTitles(soFound, Stored(Baseline(soRow))) # {}

\* Failures come before gates, and scanners' failures before the agents'.
Gates ==
    /\ soStage = "gates"
    /\ \/ Over(CASE soErrors # {}                      -> CliExitCode(ScannerFailure(soErrors))
                 [] soErrors = {} /\ soSoft # "none"   -> CliExitCode(soSoft)
                 [] ~Degraded /\ (SeverityGate \/ NewGate) -> "gate"
                 [] OTHER                              -> "success", soFound)
       \* the baseline cannot be read
       \/ ~Degraded /\ ~SeverityGate /\ soArgs.failOnNew /\ Over("storage", soFound)
    /\ UNCHANGED <<soRows, soArgs, soConfig, soRow, soLeft, soErrors, soRan, soFound, soSoft, soReport>>

\* Whatever it is doing, the run may be killed, and what it had in memory is gone.
Killed ==
    /\ soStage # "idle"
    /\ Over("killed", IF soRow = 0 THEN {} ELSE Stored(soRow))
    /\ soLeft' = {} /\ soErrors' = {} /\ soRan' = FALSE /\ soFound' = {} /\ soSoft' = "none"
    /\ UNCHANGED <<soRows, soArgs, soConfig, soRow, soReport>>

SoStep ==
    \/ SoStart \/ SoEffects \/ ScannersEnd \/ Report \/ Finalize \/ Gates
    \/ \E s \in soLeft : \/ \E findings \in SUBSET SoFindings : ScannerFinds(s, findings)
                         \/ \E error \in {"Config", "Scan"} : ScannerFails(s, error)
    \/ \E findings \in SUBSET SoFindings : AgentEnds(findings)
    \/ \E error \in {"Config", "Provider", "Timeout", "ApprovalDenied"} : AgentFails(error)

SoNext ==
    \/ \E call \in SoCalls :
         \/ SoBegin(call.args, call.config)
         \/ \E i \in {0} \cup DOMAIN soRows : SoResume(call.args, call.config, i)
    \/ SoStep \/ Killed

SoSpec == SoInit /\ [][SoNext]_soVars

-----------------------------------------------------------------------------
(***************************************************************************)
(* What a CI job may conclude.                                             *)
(***************************************************************************)
Ended(codes) == soStage = "idle" /\ soExit \in codes
HasRow == soRow # 0

\* The exit code and what is left behind agree.  Success and a closed gate mean a
\* completed row that holds what was printed, and that nothing failed on the way;
\* success, moreover, that nothing is as bad as the threshold.  (A dry run prints
\* nothing, also that of a resume, which has its row.)  When the agents failed, or
\* some of the scanners and not all, the findings of the others were printed and
\* stored.  Bad input is noticed before there is a row; only a resume may have marked
\* its row running by then, when it was asked for a severity nobody knows.
ExitCodesTell ==
    /\ Ended({"success", "gate"}) /\ HasRow /\ ~soArgs.dry =>
         /\ soRows[soRow].status = "completed"
         /\ soReport = <<Stored(soRow)>>
         /\ soErrors = {} /\ soSoft = "none" /\ soLeft = {}
         /\ soExit = "success" => \A f \in Stored(soRow) : Given(soArgs.failOn) => ~Meets(f.severity, soArgs.failOn)
    /\ Ended({"provider", "denied"}) => HasRow /\ soErrors = {}
    /\ Ended({"provider", "denied", "scanner"}) /\ soRan =>
         soRows[soRow].status = "failed" /\ soReport = <<Stored(soRow)>>
    /\ Ended({"input"}) /\ HasRow => soArgs.resume /\ ~SeverityValid(soArgs) /\ soRows[soRow].status = "running"

\* With --fail-on-new no finding slips in, unless its title is blank: every other title
\* of a run that succeeds was there when the first run on the target established the
\* baseline, or some run on it since then did not succeed or was not asked to look.
\* (A finding whose title is blank when trimmed never trips the gate.)
NewFindingsNoticed ==
    Ended({"success"}) /\ HasRow => Known(soRow, Stored(soRow)) \subseteq soToldOf
=============================================================================
