------------------------------ MODULE AgentPhase ------------------------------
(***************************************************************************)
(* The agent phase of a scan: the orchestrator runs its agents in one of   *)
(* four modes, merges what they report with the findings of the scanners,  *)
(* drops known false positives and validates the rest.                     *)
(*                                                                         *)
(* An agent is a run of the tool-use loop.  Its inside is module           *)
(* ToolApproval; here it ends with a report, which is empty when the       *)
(* provider never answers or it may not make a single request, or it       *)
(* panics (a reply is cut at byte 200, which may be inside a character).   *)
(***************************************************************************)
EXTENDS FindingRules, FiniteSets, SequencesExt

CONSTANTS
    SwarmTasks,     \* agents of a swarm, each with every diversity seed
    Phases,         \* phases of a pipeline
    MaxSubtasks,    \* the most subtasks a plan is looked at with
    Permits,        \* agents that may run at once
    Reports,        \* what an agent may report: sequences of findings
    ScannerFindings,\* what the scanners may have found: sequences of findings
    KeyOf,          \* title -> its first 50 bytes
    Wide            \* titles with a character across byte 50

ASSUME AgentAssumption ==
    /\ SwarmTasks \in Nat /\ Phases \in Nat /\ MaxSubtasks \in Nat
    /\ Permits \in Nat \ {0}
    /\ DOMAIN KeyOf = Titles /\ Wide \subseteq Titles
    /\ Reports \cup ScannerFindings \subseteq Seq(Finding)

Modes == {"tool_use", "pipeline", "swarm", "hierarchical"}
Merges == {"voting", "union", "strict"}

VARIABLES
    agRun,      \* what the phase was started with
    agStep,     \* how far the orchestrator is
    agTasks,    \* task -> "queued", "running", "done" or "lost"
    agFound,    \* reported findings in the order they came in
    agSaid,     \* task -> its report (history)
    agResult    \* the findings the phase returns

agVars == <<agRun, agStep, agTasks, agFound, agSaid, agResult>>

\* Whether the target may be looked at; mode and merge strategy; whether the
\* provider answers; whether an agent may make a request at all (max_iterations
\* is divided by 4 or 5 and may be 0); what the scanners found.
Runs == [allowed : BOOLEAN, mode : Modes, merge : Merges, answers : BOOLEAN,
         requests : BOOLEAN, scanned : ScannerFindings]
NoRun == [allowed |-> FALSE, mode |-> "tool_use", merge |-> "voting", answers |-> FALSE,
          requests |-> FALSE, scanned |-> <<>>]

Steps == {"idle", "planning", "running", "merging", "checking", "returned", "failed", "crashed"}

AgTypeOK ==
    /\ agRun \in Runs \cup {NoRun} /\ agStep \in Steps
    /\ \A t \in DOMAIN agTasks : agTasks[t] \in {"queued", "running", "done", "lost"}
    /\ DOMAIN agSaid = DOMAIN agTasks
    /\ \A i \in DOMAIN agFound : IsFinding(agFound[i])
    /\ \A i \in DOMAIN agResult : IsFinding(agResult[i])

AgInit ==
    /\ agRun = NoRun /\ agStep = "idle"
    /\ agTasks = <<>> /\ agFound = <<>> /\ agSaid = <<>> /\ agResult = <<>>

-----------------------------------------------------------------------------
Queue(n) == [t \in 1..n |-> "queued"]

\* One agent, the phases, the agents times the seeds; a plan comes first.
AgBegin(run) ==
    /\ agStep = "idle"
    /\ agRun' = run
    /\ agStep' = CASE ~run.allowed                                -> "failed"
                   [] run.allowed /\ run.mode = "hierarchical"    -> "planning"
                   [] OTHER                                       -> "running"
    /\ agTasks' = CASE run.mode = "tool_use"     -> Queue(1)
                    [] run.mode = "pipeline"     -> Queue(Phases)
                    [] run.mode = "swarm"        -> Queue(SwarmTasks)
                    [] run.mode = "hierarchical" -> <<>>
    /\ agSaid' = [t \in DOMAIN agTasks' |-> <<>>]
    /\ UNCHANGED <<agFound, agResult>>

\* The strategist's answer is a list of subtasks (an empty one too), or makes no
\* sense, and then three or four subtasks for the kind of target take its place.
PlanAnswered(n) ==
    /\ agStep = "planning" /\ agRun.answers
    /\ agTasks' = Queue(n)
    /\ agSaid' = [t \in 1..n |-> <<>>]
    /\ agStep' = "running"
    /\ UNCHANGED <<agRun, agFound, agResult>>

\* Only here does a failing provider fail the phase.
PlanFails ==
    /\ agStep = "planning" /\ ~agRun.answers
    /\ agStep' = "failed"
    /\ UNCHANGED <<agRun, agTasks, agFound, agSaid, agResult>>

\* Agents in tasks of their own wait for a permit; the others run in turn.
Concurrent == agRun.mode \in {"swarm", "hierarchical"}
Working == {t \in DOMAIN agTasks : agTasks[t] = "running"}
MayStart(t) ==
    IF Concurrent THEN Cardinality(Working) < Permits
    ELSE \A s \in 1..(t - 1) : agTasks[s] = "done"

TaskStarts(t) ==
    /\ agStep = "running"
    /\ agTasks[t] = "queued" /\ MayStart(t)
    /\ agTasks' = [agTasks EXCEPT ![t] = "running"]
    /\ UNCHANGED <<agRun, agStep, agFound, agSaid, agResult>>

Reportable == IF agRun.answers /\ agRun.requests THEN Reports ELSE {<<>>}

\* The agent ends: its findings go behind those that are there, its permit back.
TaskReports(t, report) ==
    /\ agStep = "running" /\ agTasks[t] = "running"
    /\ report \in Reportable
    /\ agFound' = agFound \o report
    /\ agSaid' = [agSaid EXCEPT ![t] = report]
    /\ agTasks' = [agTasks EXCEPT ![t] = "done"]
    /\ UNCHANGED <<agRun, agStep, agResult>>

\* The agent panics.  A spawned task takes its findings with it and nobody asks
\* why; elsewhere the panic is the program's.
TaskPanics(t) ==
    /\ agStep = "running" /\ agTasks[t] = "running"
    /\ agRun.answers /\ agRun.requests
    /\ agTasks' = [agTasks EXCEPT ![t] = "lost"]
    /\ agStep' = IF Concurrent THEN "running" ELSE "crashed"
    /\ UNCHANGED <<agRun, agFound, agSaid, agResult>>

\* Seeded bug: a task that panicked is waited for.
AllEnded_Done ==
    /\ agStep = "running"
    /\ \A t \in DOMAIN agTasks : agTasks[t] = "done"
    /\ agStep' = "merging"
    /\ UNCHANGED <<agRun, agTasks, agFound, agSaid, agResult>>

AllEnded ==
    /\ agStep = "running"
    /\ \A t \in DOMAIN agTasks : agTasks[t] \in {"done", "lost"}
    /\ agStep' = "merging"
    /\ UNCHANGED <<agRun, agTasks, agFound, agSaid, agResult>>

-----------------------------------------------------------------------------
\* Counting is by the first bytes of the title, telling apart by the whole title.
Key(f) == [title |-> KeyOf[f.title], class |-> f.class]
Same(f, g) == f.title = g.title /\ f.class = g.class
Count(f, found) == Cardinality({i \in DOMAIN found : Key(found[i]) = Key(f)})

\* ceil(0.4 n), at least 1, and ceil(0.7 n), at least 2.
AtLeast(low, n) == IF n < low THEN low ELSE n
Threshold(merge) ==
    CASE merge = "voting" -> AtLeast(1, (4 * AtLeast(1, SwarmTasks) + 9) \div 10)
      [] merge = "strict" -> AtLeast(2, (7 * AtLeast(1, SwarmTasks) + 9) \div 10)
      [] merge = "union"  -> 0

\* Seeded bug: what is counted together is also kept once only.
Merged_ByKey(merge, found) ==
    FoldLeft(LAMBDA kept, f :
                 IF /\ Count(f, found) >= Threshold(merge)
                    /\ \A i \in DOMAIN kept : Key(kept[i]) # Key(f)
                 THEN Append(kept, f) ELSE kept,
             <<>>, found)

\* The first of each kind that was reported often enough.
Merged(merge, found) ==
    FoldLeft(LAMBDA kept, f :
                 IF /\ Count(f, found) >= Threshold(merge)
                    /\ \A i \in DOMAIN kept : ~Same(kept[i], f)
                 THEN Append(kept, f) ELSE kept,
             <<>>, found)

\* Seeded bug: the location is not compared.
WithScanned_ByTitle(found) ==
    IF agRun.mode = "pipeline"
    THEN FoldLeft(LAMBDA all, f : IF \E i \in DOMAIN all : all[i].title = f.title THEN all ELSE Append(all, Enriched(f)),
                  found, agRun.scanned)
    ELSE found \o agRun.scanned

\* A pipeline adds the enriched scanner findings it has not got, the other modes
\* add them all.
WithScanned(found) ==
    IF agRun.mode = "pipeline"
    THEN FoldLeft(LAMBDA all, f :
                      IF \E i \in DOMAIN all : all[i].title = f.title /\ all[i].location = f.location
                      THEN all ELSE Append(all, Enriched(f)),
                  found, agRun.scanned)
    ELSE found \o agRun.scanned

MergeCrashes == agRun.mode = "swarm" /\ agRun.merge # "union"
                /\ \E i \in DOMAIN agFound : agFound[i].title \in Wide

Merge ==
    /\ agStep = "merging" /\ ~MergeCrashes
    /\ agFound' = WithScanned(IF agRun.mode = "swarm" THEN Merged(agRun.merge, agFound) ELSE agFound)
    /\ agStep' = "checking"
    /\ UNCHANGED <<agRun, agTasks, agSaid, agResult>>

\* Cutting a title inside a character panics in the orchestrator's own task.
MergePanics ==
    /\ agStep = "merging" /\ MergeCrashes
    /\ agStep' = "crashed"
    /\ UNCHANGED <<agRun, agTasks, agFound, agSaid, agResult>>

\* The orchestrator's validator has no provider and is not strict, and its memory
\* is new: there are no false positives to know, and what is confirmed now is
\* remembered by nobody.
Check ==
    /\ agStep = "checking"
    /\ agResult' = FlattenSeq([i \in DOMAIN agFound |-> KeepHeuristic(agFound[i], FALSE)])
    /\ agStep' = "returned"
    /\ UNCHANGED <<agRun, agTasks, agFound, agSaid>>

AgStep ==
    \/ \E n \in 0..MaxSubtasks : PlanAnswered(n)
    \/ PlanFails
    \/ \E t \in DOMAIN agTasks :
         \/ TaskStarts(t) \/ TaskPanics(t)
         \/ \E report \in Reports \cup {<<>>} : TaskReports(t, report)
    \/ AllEnded \/ Merge \/ MergePanics \/ Check

AgNext == (\E run \in Runs : AgBegin(run)) \/ AgStep

\* The runtime polls every task; an agent ends because its requests time out
\* and their number is limited.
AgFairness == WF_agVars(AgStep)
AgSpec == AgInit /\ [][AgNext]_agVars /\ AgFairness

-----------------------------------------------------------------------------
(***************************************************************************)
(* What must come of the agents' work, whatever the order they end in.     *)
(***************************************************************************)
\* Everything agents reported before they were lost: a task and a place in its
\* report.
Said == UNION {{agSaid[t][i] : i \in DOMAIN agSaid[t]} : t \in DOMAIN agSaid}
Votes(f) ==
    Cardinality(UNION {{<<t, i>> : i \in {j \in DOMAIN agSaid[t] : Key(agSaid[t][j]) = Key(f)}} : t \in DOMAIN agSaid})

FromAgents == SubSeq(agFound, 1, Len(agFound) - Len(agRun.scanned))

\* A swarm keeps one finding of each kind whose key was reported often enough, and
\* no other, in whichever order the agents ended and whichever were lost.
VotesDecide ==
    agRun.mode = "swarm" /\ agStep \in {"checking", "returned"} =>
        /\ \A f \in Said :
             Cardinality({i \in DOMAIN FromAgents : Same(FromAgents[i], f)})
                 = IF Votes(f) >= Threshold(agRun.merge) THEN 1 ELSE 0
        /\ \A i \in DOMAIN FromAgents : FromAgents[i] \in Said

\* No mode loses a scanner's finding: what the validator would keep of it is in
\* the result, except that in a pipeline an agent's finding of the same title and
\* location stands for it, or an earlier one of the scanners.
ScannerFindingsStay ==
    agStep = "returned" =>
        \A i \in DOMAIN agRun.scanned :
            LET f == agRun.scanned[i]
                kept == KeepHeuristic(f, FALSE)
            IN  \/ kept = <<>>
                \/ \E j \in DOMAIN agResult : agResult[j] = kept[1]
                \/ /\ agRun.mode = "pipeline"
                   /\ \E g \in Said \cup {agRun.scanned[j] : j \in 1..(i - 1)} :
                         g.title = f.title /\ g.location = f.location

\* The phase ends, whichever agents panic and however few permits there are.
PhaseBegun == agStep # "idle"
PhaseOver == agStep \in {"returned", "failed", "crashed"}
=============================================================================
