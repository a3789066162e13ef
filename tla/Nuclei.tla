--------------------------------- MODULE Nuclei ---------------------------------
(***************************************************************************)
(* The scanner that runs nuclei (vest-scanner/src/nuclei.rs) and the       *)
(* wrapper that starts the program, waits for its output and kills it when *)
(* it takes too long (vest-tools/src/nuclei.rs).                           *)
(*                                                                         *)
(* Three actors: the child, the thread that waits for it, and the killer   *)
(* thread.  The wait is over when the child has ended and nobody holds the *)
(* pipe any more; a process the child leaves behind may hold it.  A line   *)
(* of output is a finding or it is not one.                                *)
(***************************************************************************)
EXTENDS Integers, Sequences, FiniteSets

CONSTANT NuJobs     \* what is scanned, how, and what the program does

\* templates: what is asked for; each is under the root, elsewhere or nowhere.
IsNucleiJob(job) ==
    /\ {job.enabled, job.web, job.url, job.consent, job.root, job.lingers} \subseteq BOOLEAN
    /\ job.home \in {"file", "none"} /\ job.path \in {"absolute", "relative", "none"}
    /\ job.templates \subseteq {"inside", "outside", "missing"}
    /\ job.lines \in Seq({"finding", "noise"})
    /\ job.exit \in {"success", "failure", "never"}
ASSUME NucleiAssumption == \A job \in NuJobs : IsNucleiJob(job)

VARIABLES
    nuJob,
    nuStage,    \* "idle", "waiting", "cancelled" (output complete, killer told), "done"
    nuChild,    \* "none", "running", "success", "failure", "killed"
    nuKiller,   \* "none", "armed", "killing", "fired", "dismissed"
    nuWritten,  \* lines of output so far
    nuResult    \* the number of findings of an answer and "ok", or the error

nuVars == <<nuJob, nuStage, nuChild, nuKiller, nuWritten, nuResult>>

NoNucleiJob == [enabled |-> FALSE, web |-> FALSE, url |-> FALSE, consent |-> FALSE, root |-> FALSE, lingers |-> FALSE,
          home |-> "none", path |-> "none", templates |-> {}, lines |-> <<>>, exit |-> "never"]
NoAnswer(why) == [findings |-> 0, why |-> why]

NuTypeOK ==
    /\ nuJob \in NuJobs \cup {NoNucleiJob}
    /\ nuStage \in {"idle", "waiting", "cancelled", "done"}
    /\ nuChild \in {"none", "running", "success", "failure", "killed"}
    /\ nuKiller \in {"none", "armed", "killing", "fired", "dismissed"}
    /\ nuWritten \in 0..Len(nuJob.lines)
    /\ nuResult.why \in {"none", "ok", "InvalidInput", "ApprovalDenied", "Scan", "Timeout", "ProcessFailed"}

NuInit ==
    /\ nuJob = NoNucleiJob /\ nuStage = "idle" /\ nuChild = "none" /\ nuKiller = "none"
    /\ nuWritten = 0 /\ nuResult = NoAnswer("none")

-----------------------------------------------------------------------------
\* The program: the one vest installed, or an absolute path of `which`.
FindBinary(job) ==
    CASE job.home = "file" -> "installed"
      [] job.home # "file" /\ job.path = "absolute" -> "path"
      [] OTHER -> "none"

\* Templates asked for must lie under the root; none asked for is the root itself.
TemplatesAllowed(job) == job.root /\ job.templates \subseteq {"inside"}

Severity(name) == IF name \in {"critical", "high", "medium", "low"} THEN name ELSE "info"
Found == Cardinality({i \in 1..nuWritten : nuJob.lines[i] = "finding"})

\* What is said before anything is run: a scanner that is off finds nothing.
SaidAtOnce(job) ==
    CASE ~job.enabled                   -> "ok"
      [] job.enabled /\ ~(job.web /\ job.url) -> "InvalidInput"
      [] job.enabled /\ job.web /\ job.url /\ ~job.consent -> "ApprovalDenied"
      [] job.enabled /\ job.web /\ job.url /\ job.consent
           /\ (FindBinary(job) = "none" \/ ~TemplatesAllowed(job)) -> "Scan"
      [] OTHER                          -> "none"

NuBegin(job) ==
    /\ nuStage = "idle"
    /\ nuJob' = job
    /\ nuResult' = NoAnswer(SaidAtOnce(job))
    /\ \/ SaidAtOnce(job) # "none" /\ nuStage' = "done" /\ UNCHANGED <<nuChild, nuKiller>>
       \/ SaidAtOnce(job) = "none" /\ nuStage' = "waiting" /\ nuChild' = "running" /\ nuKiller' = "armed"
    /\ UNCHANGED nuWritten

\* The child.
ChildWrites ==
    /\ nuChild = "running" /\ nuWritten < Len(nuJob.lines)
    /\ nuWritten' = nuWritten + 1
    /\ UNCHANGED <<nuJob, nuStage, nuChild, nuKiller, nuResult>>
ChildExits ==
    /\ nuChild = "running" /\ nuWritten = Len(nuJob.lines) /\ nuJob.exit # "never"
    /\ nuChild' = nuJob.exit
    /\ UNCHANGED <<nuJob, nuStage, nuKiller, nuWritten, nuResult>>

\* The killer: the time is over, kill, and only then the flag.  The child may have
\* ended, and the wait be over, before the kill.
TimeIsOver ==
    /\ nuKiller = "armed"
    /\ nuKiller' = "killing"
    /\ UNCHANGED <<nuJob, nuStage, nuChild, nuWritten, nuResult>>
ForceKill ==
    /\ nuKiller = "killing"
    /\ nuChild' = IF nuChild = "running" THEN "killed" ELSE nuChild
    /\ nuKiller' = "fired"
    /\ UNCHANGED <<nuJob, nuStage, nuWritten, nuResult>>
Dismissed ==
    /\ nuKiller = "armed" /\ nuStage = "cancelled"
    /\ nuKiller' = "dismissed"
    /\ UNCHANGED <<nuJob, nuStage, nuChild, nuWritten, nuResult>>

\* The wait is over: all output is there; the killer is told, and joined.
WaitReturns ==
    /\ nuStage = "waiting" /\ nuChild \notin {"none", "running"} /\ ~nuJob.lingers
    /\ nuStage' = "cancelled"
    /\ UNCHANGED <<nuJob, nuChild, nuKiller, nuWritten, nuResult>>

\* Seeded bug: the answer does not ask whether the killer fired.
Answer_Unjoined == IF nuChild = "success" THEN [findings |-> Found, why |-> "ok"] ELSE NoAnswer("ProcessFailed")

Answer ==
    CASE nuKiller = "fired" -> NoAnswer("Timeout")
      [] nuKiller # "fired" /\ nuChild = "success" -> [findings |-> Found, why |-> "ok"]
      [] OTHER -> NoAnswer("ProcessFailed")

NuEnd ==
    /\ nuStage = "cancelled" /\ nuKiller \in {"fired", "dismissed"}
    /\ nuResult' = Answer
    /\ nuStage' = "done"
    /\ UNCHANGED <<nuJob, nuChild, nuKiller, nuWritten>>

NuStep ==
    \/ ChildWrites \/ ChildExits \/ TimeIsOver \/ ForceKill \/ Dismissed
    \/ WaitReturns \/ NuEnd
NuNext == (\E job \in NuJobs : NuBegin(job)) \/ NuStep

\* The killer's clock runs, and both threads do; nothing is assumed of the child.
NuFairness == WF_nuVars(TimeIsOver) /\ WF_nuVars(ForceKill) /\ WF_nuVars(Dismissed)
              /\ WF_nuVars(WaitReturns) /\ WF_nuVars(NuEnd)
NuSpec == NuInit /\ [][NuNext]_nuVars /\ NuFairness

-----------------------------------------------------------------------------
\* Findings are those of a whole run: of a program that ran with consent, from an
\* allowed place, on allowed templates, that ended by itself, well and in time, with
\* every finding it wrote; a run that was cut short or failed is never a clean one.
NucleiAnswerIsWhole ==
    nuStage = "done" /\ nuResult.why = "ok" /\ nuJob.enabled =>
        /\ nuJob.consent /\ FindBinary(nuJob) # "none" /\ nuJob.templates \subseteq {"inside"}
        /\ nuChild = "success" /\ nuKiller = "dismissed"
        /\ nuResult.findings = Cardinality({i \in DOMAIN nuJob.lines : nuJob.lines[i] = "finding"})

\* The scan ends whatever the program does, unless a process it left behind holds
\* the pipe: the wait has no time limit of its own.
NucleiBegun == nuStage = "waiting" /\ ~nuJob.lingers
NucleiOver == nuStage = "done"
=============================================================================
