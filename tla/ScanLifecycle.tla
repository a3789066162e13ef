---------------------------- MODULE ScanLifecycle ----------------------------
(***************************************************************************)
(* The life of a scan in the SQLite database of vest.                      *)
(*                                                                         *)
(* Every `vest` invocation is an operating-system process that talks to    *)
(* the database through short transactions; nothing else is shared.  The   *)
(* invocations modelled are `vest scan TARGET`, `vest scan --resume ID`    *)
(* (with or without `--dry-run`) and `vest scans delete ID`.  An action is *)
(* one transaction (or one autocommitted statement) together with the      *)
(* private work of the process since the one before it.                    *)
(*                                                                         *)
(* A scan id is a fresh UUID, so a scan is born once.  A finding is its    *)
(* dedupe key (title, class, location and evidence) and the scanner or     *)
(* agent run that created it, which stands for its UUID.                   *)
(***************************************************************************)
EXTENDS Integers, Sequences, FiniteSets

CONSTANTS
    Procs,      \* slots an operator or a CI job runs vest in, reused
    Scans,      \* scan ids
    NoScan,     \* what a free slot works on
    Scanners,   \* names of built-in scanners
    Lists,      \* scanner lists `scan` may resolve and freeze in the row
    Keys,       \* dedupe keys of findings
    Results,    \* Results[s]: the sets of keys a run of scanner s may report
    AgentKeys,  \* the keys an agent may add
    Providers,  \* the provider a scan was started with: "none" or "agent"
    Runs,       \* identities of scanner and agent runs (bounds TLC)
    Overlap,    \* which processes may work on one scan at a time: "resume",
                \* two scanning ones; "delete", a deleting and another one
    Failing,    \* what may fail: "scanner", "provider", "process"
    MaxFaults   \* number of failures (bounds TLC)

ASSUME ScansAssumption == NoScan \notin Scans
ASSUME ListsAssumption ==
    /\ Lists \subseteq Seq(Scanners)
    /\ \A l \in Lists : Len(l) > 0
ASSUME KeysAssumption ==
    /\ Results \in [Scanners -> SUBSET (SUBSET Keys)]
    /\ \A s \in Scanners : \A found \in Results[s] : IsFiniteSet(found)
    /\ AgentKeys \subseteq Keys
    /\ IsFiniteSet(AgentKeys)
ASSUME ProvidersAssumption == Providers \subseteq {"none", "agent"}
ASSUME OverlapAssumption == Overlap \subseteq {"resume", "delete"}
ASSUME FaultsAssumption ==
    /\ Failing \subseteq {"scanner", "provider", "process"}
    /\ MaxFaults \in Nat

VARIABLES
    row,        \* row[c]: the row of table scans
    ckpt,       \* ckpt[c]: the scanners with a completed checkpoint
    stored,     \* stored[c]: the rows of table findings
    proc,       \* proc[p]: what the process in slot p is doing
    given,      \* history: given[c][s], what the checkpoint of s stored
    dismissed,  \* history: dismissed[c], keys an agent phase filtered out
    faults      \* failures so far

vars == <<row, ckpt, stored, proc, given, dismissed, faults>>

-----------------------------------------------------------------------------

Statuses == {"unborn", "running", "failed", "completed", "gone"}
Findings == [key : Keys, run : Runs]
KeysOf(fs) == {f.key : f \in fs}

\* A scan without a row: before it is inserted and after it is deleted.
NoRow(status) ==
    [status |-> status, provider |-> "none", list |-> <<>>, total |-> 0]
RowSet == [status : Statuses, provider : {"none", "agent"},
           list : Seq(Scanners), total : Nat]
Alive(c) == row[c].status \notin {"unborn", "gone"}

\* Seeded bugs: completed scans are taken up again; interrupted ones are not.
Resumable_Completed(c) == row[c].status \in {"running", "failed", "completed"}
Resumable_FailedOnly(c) == row[c].status = "failed"

\* resume_scan rejects completed (and cancelled) scans only: a running scan
\* is resumable, whether its process died or is still at work.
Resumable(c) == row[c].status \in {"running", "failed"}

Exits == {"none", "success", "scanner", "provider", "error"}
Free(exit) ==
    [pc |-> "free", exit |-> exit, scan |-> NoScan, provider |-> "none",
     list |-> <<>>, next |-> 1, skip |-> {}, mem |-> {}, loaded |-> {},
     dropped |-> {}, ok |-> FALSE, fatal |-> FALSE, soft |-> FALSE, dry |-> FALSE]
Places == {"free", "read_checkpoints", "read_findings", "mark_running",
           "plan", "scanning", "agent", "finalize",
           "delete_findings", "delete_row"}
ProcSet == [pc : Places, exit : Exits, scan : Scans \cup {NoScan},
            provider : {"none", "agent"}, list : Seq(Scanners), next : Nat \ {0},
            skip : SUBSET Scanners, mem : SUBSET Findings,
            loaded : SUBSET Findings, dropped : SUBSET Keys,
            ok : BOOLEAN, fatal : BOOLEAN, soft : BOOLEAN, dry : BOOLEAN]

At(p, place) == proc[p].pc = place
Goto(p, place) == proc' = [proc EXCEPT ![p].pc = place]
Exit(p, code) == proc' = [proc EXCEPT ![p] = Free(code)]

Working(c) == {p \in Procs : proc[p].scan = c}
Deleting(c) ==
    {p \in Working(c) : proc[p].pc \in {"delete_findings", "delete_row"}}
MayResume(c) ==
    /\ Working(c) \subseteq Deleting(c) \/ "resume" \in Overlap
    /\ Deleting(c) = {} \/ "delete" \in Overlap
MayDelete(c) == Working(c) = {} \/ "delete" \in Overlap

\* A run identity no finding in the database or in a process carries.
UsedRuns == {f.run : f \in UNION {stored[c] : c \in Scans}
                          \cup UNION {proc[p].mem : p \in Procs}}
FreshRun == CHOOSE r \in Runs : r \notin UsedRuns
HasFreshRun == \E r \in Runs : r \notin UsedRuns
MintedBy(run, keys) == {[key |-> k, run |-> run] : k \in keys}

Fault(what) ==
    /\ what \in Failing
    /\ faults < MaxFaults
    /\ faults' = faults + 1

\* Seeded bug: no deduplication.
IsDeduped_Not(kept, all, first) == kept = all

\* dedupe_findings keeps the first finding of every key.  Findings loaded by
\* a resume come first; the order of the others is left open.
IsDeduped(kept, all, first) ==
    /\ kept \subseteq all
    /\ KeysOf(kept) = KeysOf(all)
    /\ \A f, g \in kept : f.key = g.key => f = g
    /\ \A f \in kept : f.key \in KeysOf(first) => f \in first

Init ==
    /\ row = [c \in Scans |-> NoRow("unborn")]
    /\ ckpt = [c \in Scans |-> {}]
    /\ stored = [c \in Scans |-> {}]
    /\ proc = [p \in Procs |-> Free("none")]
    /\ given = [c \in Scans |-> [s \in Scanners |-> {}]]
    /\ dismissed = [c \in Scans |-> {}]
    /\ faults = 0

-----------------------------------------------------------------------------
(* vest scan TARGET *)

\* start_running_scan: target and scan rows in one transaction, before any
\* scanner runs.  Validation errors and --dry-run return before this.
StartScan(p, c, list, provider) ==
    /\ At(p, "free")
    /\ row[c].status = "unborn"
    /\ row' = [row EXCEPT ![c] =
           [status |-> "running", provider |-> provider,
            list |-> list, total |-> 0]]
    /\ proc' = [proc EXCEPT ![p] =
           [Free("none") EXCEPT !.pc = "scanning", !.scan = c,
                                !.provider = provider, !.list = list]]
    /\ UNCHANGED <<ckpt, stored, given, dismissed, faults>>

-----------------------------------------------------------------------------
(* vest scan --resume ID: separate statements, no transaction around them *)

\* get_scan and the status check; provider and scanner list come from the
\* row, not from the command line.  `dry` stands for --dry-run and for an
\* invalid --fail-on-severity: both are looked at only in ResumePlan.
ResumeOpen(p, c, dry) ==
    /\ At(p, "free")
    /\ Resumable(c)
    /\ MayResume(c)
    /\ proc' = [proc EXCEPT ![p] =
           [Free("none") EXCEPT !.pc = "read_checkpoints", !.scan = c,
                                !.provider = row[c].provider,
                                !.list = row[c].list, !.dry = dry]]
    /\ UNCHANGED <<row, ckpt, stored, given, dismissed, faults>>

ResumeReadCheckpoints(p) ==
    /\ At(p, "read_checkpoints")
    /\ proc' = [proc EXCEPT ![p].pc = "read_findings",
                            ![p].skip = ckpt[proc[p].scan]]
    /\ UNCHANGED <<row, ckpt, stored, given, dismissed, faults>>

\* Seeded bug: the stored findings are not loaded.
ResumeReadFindings_Not(p) ==
    /\ At(p, "read_findings")
    /\ Goto(p, "mark_running")
    /\ UNCHANGED <<row, ckpt, stored, given, dismissed, faults>>

ResumeReadFindings(p) ==
    /\ At(p, "read_findings")
    /\ proc' = [proc EXCEPT ![p].pc = "mark_running",
                            ![p].mem = stored[proc[p].scan],
                            ![p].loaded = stored[proc[p].scan]]
    /\ UNCHANGED <<row, ckpt, stored, given, dismissed, faults>>

\* Seeded bug: the checkpoints are read after the findings.
ResumeMarkRunning_LateSkip(p) ==
    /\ At(p, "mark_running")
    /\ Alive(proc[p].scan)
    /\ row' = [row EXCEPT ![proc[p].scan].status = "running"]
    /\ proc' = [proc EXCEPT ![p].pc = "plan",
                            ![p].skip = ckpt[proc[p].scan]]
    /\ UNCHANGED <<ckpt, stored, given, dismissed, faults>>

\* update_scan_status: NotFound when the row was deleted meanwhile.
ResumeMarkRunning(p) ==
    /\ At(p, "mark_running")
    /\ IF Alive(proc[p].scan)
          THEN /\ row' = [row EXCEPT ![proc[p].scan].status = "running"]
               /\ Goto(p, "plan")
          ELSE /\ Exit(p, "error")
               /\ UNCHANGED row
    /\ UNCHANGED <<ckpt, stored, given, dismissed, faults>>

\* Only now is --fail-on-severity parsed and --dry-run honoured.
ResumePlan(p) ==
    /\ At(p, "plan")
    /\ IF proc[p].dry THEN \E code \in {"success", "error"} : Exit(p, code)
                      ELSE Goto(p, "scanning")
    /\ UNCHANGED <<row, ckpt, stored, given, dismissed, faults>>

-----------------------------------------------------------------------------
(* run_builtin_scanners: the frozen list, one scanner after the other *)

InList(p) == At(p, "scanning") /\ proc[p].next <= Len(proc[p].list)
Scanner(p) == proc[p].list[proc[p].next]

SkipScanner(p) ==
    /\ InList(p)
    /\ Scanner(p) \in proc[p].skip
    /\ proc' = [proc EXCEPT ![p].next = @ + 1, ![p].ok = TRUE]
    /\ UNCHANGED <<row, ckpt, stored, given, dismissed, faults>>

\* Seeded bug: the findings are committed without the checkpoint.
ScannerSucceeds_NoCheckpoint(p, found) ==
    LET c == proc[p].scan
        new == MintedBy(FreshRun, found)
    IN  /\ InList(p)
        /\ Scanner(p) \notin proc[p].skip
        /\ found \in Results[Scanner(p)]
        /\ HasFreshRun
        /\ Alive(c)
        /\ stored' = [stored EXCEPT ![c] = @ \cup new]
        /\ proc' = [proc EXCEPT ![p].next = @ + 1, ![p].ok = TRUE,
                                ![p].mem = @ \cup new]
        /\ UNCHANGED <<row, ckpt, given, dismissed, faults>>

\* The scanner succeeds and persist_scanner_checkpoint commits its findings
\* and its checkpoint in one transaction; foreign keys need the scan row.
\* A scanner turned off in the configuration succeeds with no findings.
ScannerSucceeds(p, found) ==
    LET c == proc[p].scan
        s == Scanner(p)
        new == MintedBy(FreshRun, found)
    IN  /\ InList(p)
        /\ s \notin proc[p].skip
        /\ found \in Results[s]
        /\ HasFreshRun
        /\ Alive(c)
        /\ stored' = [stored EXCEPT ![c] = @ \cup new]
        /\ ckpt' = [ckpt EXCEPT ![c] = @ \cup {s}]
        /\ given' = [given EXCEPT ![c][s] = found]
        /\ proc' = [proc EXCEPT ![p].next = @ + 1, ![p].ok = TRUE,
                                ![p].mem = @ \cup new]
        /\ UNCHANGED <<row, dismissed, faults>>

\* The foreign key fails: `?` ends the process.
CheckpointRejected(p) ==
    /\ InList(p)
    /\ Scanner(p) \notin proc[p].skip
    /\ ~ Alive(proc[p].scan)
    /\ Exit(p, "error")
    /\ UNCHANGED <<row, ckpt, stored, given, dismissed, faults>>

\* The error is collected, nothing is persisted and the loop goes on.
ScannerFails(p) ==
    /\ InList(p)
    /\ Scanner(p) \notin proc[p].skip
    /\ Fault("scanner")
    /\ proc' = [proc EXCEPT ![p].next = @ + 1, ![p].fatal = TRUE]
    /\ UNCHANGED <<row, ckpt, stored, given, dismissed>>

\* With no scanner left: total failure is a hard error that leaves the row
\* running, anything else goes on to the agent.
ScannersDone(p) ==
    /\ At(p, "scanning")
    /\ proc[p].next > Len(proc[p].list)
    /\ IF proc[p].fatal /\ ~ proc[p].ok THEN Exit(p, "error")
                                        ELSE Goto(p, "agent")
    /\ UNCHANGED <<row, ckpt, stored, given, dismissed, faults>>

-----------------------------------------------------------------------------
(* The agent phase and finalize_scan *)

\* The findings of the process after its agent phase and dedupe_findings;
\* `dropped` records the keys the agent phase filtered out of them.
Settle(p, all, dropped, soft) ==
    \E kept \in SUBSET all :
        /\ IsDeduped(kept, all, proc[p].loaded)
        /\ proc' = [proc EXCEPT ![p].pc = "finalize", ![p].mem = kept,
                                ![p].dropped = dropped, ![p].soft = soft]

NoAgent(p) ==
    /\ At(p, "agent")
    /\ proc[p].provider = "none"
    /\ Settle(p, proc[p].mem, {}, FALSE)
    /\ UNCHANGED <<row, ckpt, stored, given, dismissed, faults>>

\* create_provider or Orchestrator::run fails: the findings are kept.
AgentFails(p) ==
    /\ At(p, "agent")
    /\ proc[p].provider = "agent"
    /\ Fault("provider")
    /\ Settle(p, proc[p].mem, {}, TRUE)
    /\ UNCHANGED <<row, ckpt, stored, given, dismissed>>

\* Orchestrator::run returns the findings it kept and those it added; they
\* replace the findings of the process.  What it kept was validated, what it
\* left out was judged a false positive.
AgentReplaces(p, keep, extra) ==
    /\ At(p, "agent")
    /\ proc[p].provider = "agent"
    /\ keep \subseteq proc[p].mem
    /\ extra \subseteq AgentKeys
    /\ HasFreshRun
    /\ Settle(p, keep \cup MintedBy(FreshRun, extra),
              KeysOf(proc[p].mem) \ KeysOf(keep), FALSE)
    /\ UNCHANGED <<row, ckpt, stored, given, dismissed, faults>>

Degraded(p) == proc[p].fatal \/ proc[p].soft
\* Seeded bugs: a scanner failure does not degrade; a status of no meaning.
FinalStatus_ProviderOnly(p) == IF proc[p].soft THEN "failed" ELSE "completed"
FinalStatus_Cancelled(p) == IF Degraded(p) THEN "cancelled" ELSE "completed"

FinalStatus(p) == IF Degraded(p) THEN "failed" ELSE "completed"
\* A scanner failure takes precedence over a provider failure.
FinalExit(p) == IF proc[p].fatal THEN "scanner"
                ELSE IF proc[p].soft THEN "provider" ELSE "success"

\* One transaction replaces the findings of the scan and updates its row.
\* The insertions or update_scan_finalize fail when the row is gone.
Finalize(p) ==
    LET c == proc[p].scan
    IN  /\ At(p, "finalize")
        /\ IF Alive(c)
              THEN /\ stored' = [stored EXCEPT ![c] = proc[p].mem]
                   /\ row' = [row EXCEPT ![c] =
                          [@ EXCEPT !.status = FinalStatus(p),
                                    !.total = Cardinality(proc[p].mem)]]
                   /\ dismissed' = [dismissed EXCEPT
                          ![c] = @ \cup proc[p].dropped]
                   /\ Exit(p, FinalExit(p))
              ELSE Exit(p, "error") /\ UNCHANGED <<row, stored, dismissed>>
        /\ UNCHANGED <<ckpt, given, faults>>

-----------------------------------------------------------------------------
(* vest scans delete ID: five autocommitted statements, children first     *)
(* (tables agent_actions and artifacts are never written by the CLI)       *)

DeleteCheckpoints(p, c) ==
    /\ At(p, "free")
    /\ Alive(c)
    /\ MayDelete(c)
    /\ ckpt' = [ckpt EXCEPT ![c] = {}]
    /\ proc' = [proc EXCEPT ![p] =
           [Free("none") EXCEPT !.pc = "delete_findings", !.scan = c]]
    /\ UNCHANGED <<row, stored, given, dismissed, faults>>

DeleteFindings(p) ==
    /\ At(p, "delete_findings")
    /\ stored' = [stored EXCEPT ![proc[p].scan] = {}]
    /\ Goto(p, "delete_row")
    /\ UNCHANGED <<row, ckpt, given, dismissed, faults>>

\* Seeded bug: the row goes whatever refers to it.
DeleteRow_NoForeignKey(p) ==
    /\ At(p, "delete_row")
    /\ row' = [row EXCEPT ![proc[p].scan] = NoRow("gone")]
    /\ Exit(p, "success")
    /\ UNCHANGED <<ckpt, stored, given, dismissed, faults>>

\* The row goes unless a child row has appeared since: the foreign key then
\* fails the statement.
DeleteRow(p) ==
    LET c == proc[p].scan
    IN  /\ At(p, "delete_row")
        /\ IF ckpt[c] = {} /\ stored[c] = {}
              THEN /\ row' = [row EXCEPT ![c] = NoRow("gone")]
                   /\ Exit(p, "success")
              ELSE Exit(p, "error") /\ UNCHANGED row
        /\ UNCHANGED <<ckpt, stored, given, dismissed, faults>>

-----------------------------------------------------------------------------

\* The process is killed, or ends on an error between two transactions (a
\* busy database, an unknown report format, an unwritable output file).
Abort(p) ==
    /\ ~ At(p, "free")
    /\ Fault("process")
    /\ Exit(p, "error")
    /\ UNCHANGED <<row, ckpt, stored, given, dismissed>>

\* What a process does once it has been started.
Step(p) ==
    \/ ResumeReadCheckpoints(p)
    \/ ResumeReadFindings(p)
    \/ ResumeMarkRunning(p)
    \/ ResumePlan(p)
    \/ SkipScanner(p)
    \/ \E found \in SUBSET Keys : ScannerSucceeds(p, found)
    \/ CheckpointRejected(p)
    \/ ScannerFails(p)
    \/ ScannersDone(p)
    \/ NoAgent(p)
    \/ AgentFails(p)
    \/ \E keep \in SUBSET proc[p].mem, extra \in SUBSET AgentKeys :
           AgentReplaces(p, keep, extra)
    \/ Finalize(p)
    \/ DeleteFindings(p)
    \/ DeleteRow(p)

\* What an operator starts.
Start(p) ==
    \E c \in Scans :
        \/ \E list \in Lists, provider \in Providers :
               StartScan(p, c, list, provider)
        \/ \E dry \in BOOLEAN : ResumeOpen(p, c, dry)
        \/ DeleteCheckpoints(p, c)

Next == \E p \in Procs : Start(p) \/ Step(p) \/ Abort(p)

Spec == Init /\ [][Next]_vars

\* A started process runs to its end, and the operator resumes, for real and
\* again, a scan that stays interrupted.
Fairness ==
    /\ \A p \in Procs : WF_vars(Step(p))
    /\ \A c \in Scans : SF_vars(\E p \in Procs : ResumeOpen(p, c, FALSE))

FairSpec == Spec /\ Fairness

-----------------------------------------------------------------------------
(* Properties *)

TypeOK ==
    /\ row \in [Scans -> RowSet]
    /\ ckpt \in [Scans -> SUBSET Scanners]
    /\ stored \in [Scans -> SUBSET Findings]
    /\ proc \in [Procs -> ProcSet]
    /\ given \in [Scans -> [Scanners -> SUBSET Keys]]
    /\ dismissed \in [Scans -> SUBSET Keys]
    /\ faults \in Nat

\* A checkpoint makes every later resume skip its scanner, so the findings
\* that scanner reported must still be there, unless an agent phase filtered
\* them out: across crashes, resumes that lose a scanner or the provider,
\* and a delete that was interrupted half way.
NoFindingLost ==
    \A c \in Scans : \A s \in ckpt[c] :
        given[c][s] \subseteq KeysOf(stored[c]) \cup dismissed[c]

\* A finished row's recorded total is the number of its findings, and no two
\* of them have one dedupe key, until a delete has begun.
FinishedRowMatches ==
    \A c \in Scans :
        row[c].status \in {"completed", "failed"} /\ ckpt[c] # {} =>
            /\ row[c].total = Cardinality(stored[c])
            /\ \A f, g \in stored[c] : f.key = g.key => f = g

\* Foreign keys: a scan without a row has neither checkpoints nor findings,
\* also when a delete races with the process that is still scanning.
NoOrphans ==
    \A c \in Scans : ~ Alive(c) => ckpt[c] = {} /\ stored[c] = {}

\* A scan becomes completed only when every scanner of its frozen list has
\* left a checkpoint in this or an earlier invocation.
CompletedIsCovered ==
    [][\A c \in Scans :
          row[c].status # "completed" /\ row'[c].status = "completed" =>
              \A i \in DOMAIN row[c].list : row[c].list[i] \in ckpt[c]]_vars

\* A completed scan is final: nothing but its deletion changes its row.
CompletedIsFinal ==
    [][\A c \in Scans :
          row[c].status = "completed" =>
              row'[c] = row[c] \/ row'[c].status = "gone"]_vars

\* Nothing an invocation given --dry-run does changes the database.
DryRunChangesNothing ==
    [][\A p \in Procs :
          proc[p].dry /\ proc'[p] # proc[p] =>
              UNCHANGED <<row, ckpt, stored>>]_vars

\* Without overlapping invocations the database keeps the promise of
\* ScanRecord: checkpoints are the coverage.
Record == INSTANCE ScanRecord WITH
    status <- [c \in Scans |-> row[c].status],
    list <- [c \in Scans |-> row[c].list],
    covered <- ckpt

ImplementsRecord == Record!Spec

\* An interrupted scan is finished, or deleted, in the end.
InterruptedScanEnds ==
    \A c \in Scans :
        row[c].status = "running" ~>
            row[c].status \in {"completed", "failed", "gone"}
=============================================================================
