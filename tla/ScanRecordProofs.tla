-------------------------- MODULE ScanRecordProofs --------------------------
(***************************************************************************)
(* What the database tells of a scan when no two invocations overlap on    *)
(* it, for every number of processes, scans and scanners: a finished row   *)
(* is that of its findings, and the three tables are the record that       *)
(* ScanRecord specifies, step by step.                                     *)
(***************************************************************************)
EXTENDS ScanCoverageProofs

-----------------------------------------------------------------------------
(* Finished rows, when invocations do not overlap on a scan *)

Unique(fs) == \A f, g \in fs : f.key = g.key => f = g

\* What FinishedRowMatches says of one scan.
RowMatches(c) ==
    row[c].status \in {"completed", "failed"} /\ ckpt[c] # {} =>
        row[c].total = Cardinality(stored[c]) /\ Unique(stored[c])

\* From the update of its row to its finalization a scan is running: findings
\* and checkpoints are only added to a row that is not finished.  What is
\* about to be written has been deduplicated.
Marked(p) ==
    /\ proc[p].pc \in {"plan", "scanning", "agent", "finalize"} =>
           row[proc[p].scan].status = "running"
    /\ proc[p].pc = "finalize" => Unique(proc[p].mem)

FinishedInv ==
    /\ SequentialInv
    /\ \A c \in Scans : RowMatches(c)
    /\ \A p \in Procs : Marked(p)

LEMMA FinishedInvInit == Init => FinishedInv
<1> SUFFICES ASSUME Init PROVE FinishedInv
    OBVIOUS
<1>1. \A p \in Procs : Marked(p)
    BY DEF Init, Free, Marked
<1>2. \A c \in Scans : RowMatches(c)
    BY DEF Init, RowMatches
<1> QED
    BY <1>1, <1>2, SequentialInvInit DEF FinishedInv

\* A step of p on scan c, where no other process is, can only disturb what
\* is said of p and of c.
LEMMA FinishedLocally ==
    ASSUME FinishedInv, SequentialInv', NEW p \in Procs, NEW c \in Scans,
           \A q \in Procs \ {p} : proc'[q] = proc[q] /\ proc[q].scan # c,
           \A d \in Scans \ {c} :
               row'[d] = row[d] /\ ckpt'[d] = ckpt[d] /\ stored'[d] = stored[d],
           RowMatches(c)', Marked(p)'
    PROVE  FinishedInv'
<1>1. ASSUME NEW d \in Scans PROVE RowMatches(d)'
    BY DEF FinishedInv, RowMatches
<1>2. ASSUME NEW q \in Procs \ {p} PROVE Marked(q)'
  <2>1. Marked(q) /\ GoodProc(proc[q])
      BY DEF FinishedInv, SequentialInv, TypeInv
  <2>2. proc[q].pc # "free" => proc[q].scan \in Scans \ {c}
      BY <2>1 DEF GoodProc, ProcSet
  <2> QED
      BY <2>1, <2>2 DEF Marked
<1> QED
    BY <1>1, <1>2 DEF FinishedInv

\* A step of p, not in a free slot, that leaves the three tables alone.
LEMMA FinishedPrivately ==
    ASSUME FinishedInv, SequentialInv', NEW p \in Procs, ~ At(p, "free"),
           \A q \in Procs \ {p} : proc'[q] = proc[q],
           UNCHANGED <<row, ckpt, stored>>, Marked(p)'
    PROVE  FinishedInv'
<1>1. PICK c \in Scans : \A q \in Procs \ {p} : proc[q].scan # c
    BY OwnsItsScan DEF FinishedInv
<1>2. RowMatches(c)'
    BY DEF FinishedInv, RowMatches
<1> QED
    BY <1>1, <1>2, FinishedLocally

LEMMA FinishedExit ==
    ASSUME FinishedInv, SequentialInv', NEW p \in Procs, ~ At(p, "free"),
           NEW code, Exit(p, code), UNCHANGED <<row, ckpt, stored>>
    PROVE  FinishedInv'
<1>1. proc'[p].pc = "free" /\ \A q \in Procs \ {p} : proc'[q] = proc[q]
    BY DEF Exit, Free, FinishedInv, SequentialInv, TypeInv, TypeOK
<1>2. Marked(p)'
    BY <1>1 DEF Marked
<1> QED
    BY <1>1, <1>2, FinishedPrivately

LEMMA FinishedInvStart ==
    ASSUME FinishedInv, SequentialInv', Overlap = {}, NEW p \in Procs, Start(p)
    PROVE  FinishedInv'
<1>1. PICK c \in Scans :
          \/ \E list \in Lists, provider \in Providers :
                 StartScan(p, c, list, provider)
          \/ \E dry \in BOOLEAN : ResumeOpen(p, c, dry)
          \/ DeleteCheckpoints(p, c)
    BY DEF Start
<1>2. /\ proc \in [Procs -> ProcSet] /\ row \in [Scans -> RowSet]
      /\ ckpt \in [Scans -> SUBSET Scanners] /\ SequentialInv
    BY DEF FinishedInv, SequentialInv, TypeInv, TypeOK
<1>3. \A q \in Procs : proc[q].scan # c
    BY <1>1, <1>2, Alone DEF StartScan, ResumeOpen, DeleteCheckpoints
<1>4. ASSUME NEW list, NEW provider, StartScan(p, c, list, provider)
      PROVE  FinishedInv'
  <2>1. /\ row'[c].status = "running" /\ proc'[p].pc = "scanning" /\ proc'[p].scan = c
        /\ \A d \in Scans \ {c} : row'[d] = row[d]
      BY <1>2, <1>4 DEF StartScan, Free
  <2>2. RowMatches(c)' /\ Marked(p)'
      BY <2>1 DEF RowMatches, Marked
  <2> QED
      BY <1>2, <1>3, <1>4, <2>1, <2>2, FinishedLocally DEF StartScan
<1>5. ASSUME NEW dry, ResumeOpen(p, c, dry) PROVE FinishedInv'
  <2>1. proc'[p].pc = "read_checkpoints"
      BY <1>2, <1>5 DEF ResumeOpen, Free
  <2>2. RowMatches(c)' /\ Marked(p)'
      BY <1>5, <2>1 DEF ResumeOpen, FinishedInv, RowMatches, Marked
  <2> QED
      BY <1>2, <1>3, <1>5, <2>2, FinishedLocally DEF ResumeOpen
<1>6. ASSUME DeleteCheckpoints(p, c) PROVE FinishedInv'
  <2>1. proc'[p].pc = "delete_findings" /\ ckpt'[c] = {}
      BY <1>2, <1>6 DEF DeleteCheckpoints, Free
  <2>2. RowMatches(c)' /\ Marked(p)'
      BY <2>1 DEF RowMatches, Marked
  <2> QED
      BY <1>2, <1>3, <1>6, <2>2, FinishedLocally DEF DeleteCheckpoints
<1> QED
    BY <1>1, <1>4, <1>5, <1>6

LEMMA FinishedInvStep ==
    ASSUME FinishedInv, SequentialInv', NEW p \in Procs, Step(p)
    PROVE  FinishedInv'
<1>1. /\ proc \in [Procs -> ProcSet] /\ row \in [Scans -> RowSet]
      /\ ckpt \in [Scans -> SUBSET Scanners] /\ stored \in [Scans -> SUBSET Findings]
      /\ SequentialInv /\ ProcOK(p) /\ Marked(p)
    BY DEF FinishedInv, SequentialInv, TypeInv, TypeOK
<1>2. ~ At(p, "free")
    BY DEF Step, ResumeReadCheckpoints, ResumeReadFindings, ResumeMarkRunning, ResumePlan,
        SkipScanner, ScannerSucceeds, CheckpointRejected, ScannerFails, ScannersDone, NoAgent,
        AgentFails, AgentReplaces, Finalize, DeleteFindings, DeleteRow, InList, At
<1>3. PICK c \in Scans : c = proc[p].scan /\ \A q \in Procs \ {p} : proc[q].scan # c
    BY <1>1, <1>2, OwnsItsScan
\* p moves and nothing else does.
<1>4. ASSUME NEW x, proc' = [proc EXCEPT ![p] = x], UNCHANGED <<row, ckpt, stored>>,
             x.scan = c, x.pc = "finalize" => Unique(x.mem),
             x.pc \in {"plan", "scanning", "agent", "finalize"} =>
                 proc[p].pc \in {"plan", "scanning", "agent", "finalize"}
      PROVE  FinishedInv'
  <2>1. proc'[p] = x /\ \A q \in Procs \ {p} : proc'[q] = proc[q]
      BY <1>1, <1>3, <1>4
  <2>2. Marked(p)'
      BY <1>1, <1>3, <1>4, <2>1 DEF Marked
  <2> QED
      BY <1>2, <1>4, <2>1, <2>2, FinishedPrivately
<1>5. CASE ResumeReadCheckpoints(p)
  <2> DEFINE x == [proc[p] EXCEPT !.pc = "read_findings", !.skip = ckpt[c]]
  <2>1. x.scan = c /\ x.pc = "read_findings"
      BY <1>1, <1>3 DEF ProcSet
  <2> QED
      BY <1>3, <1>4, <1>5, <2>1 DEF ResumeReadCheckpoints
<1>6. CASE ResumeReadFindings(p)
  <2> DEFINE x == [proc[p] EXCEPT !.pc = "mark_running", !.mem = stored[c],
                                  !.loaded = stored[c]]
  <2>1. x.scan = c /\ x.pc = "mark_running"
      BY <1>1, <1>3 DEF ProcSet
  <2> QED
      BY <1>3, <1>4, <1>6, <2>1 DEF ResumeReadFindings
<1>7. CASE ResumeMarkRunning(p)
  <2>1. Alive(c)
      BY <1>1, <1>3, <1>7 DEF ResumeMarkRunning, At, ProcOK, Alive, ScanningPlaces, Holding
  <2>2. /\ row'[c].status = "running" /\ \A d \in Scans \ {c} : row'[d] = row[d]
        /\ proc'[p].pc = "plan" /\ proc'[p].scan = c
        /\ \A q \in Procs \ {p} : proc'[q] = proc[q]
      BY <1>1, <1>3, <1>7, <2>1 DEF ResumeMarkRunning, Goto, RowSet, ProcSet
  <2>3. RowMatches(c)' /\ Marked(p)'
      BY <2>2 DEF RowMatches, Marked
  <2> QED
      BY <1>3, <1>7, <2>2, <2>3, FinishedLocally DEF ResumeMarkRunning
<1>8. CASE ResumePlan(p)
  <2> DEFINE x == [proc[p] EXCEPT !.pc = "scanning"]
  <2>1. x.scan = c /\ x.pc = "scanning"
      BY <1>1, <1>3 DEF ProcSet
  <2>2. CASE proc[p].dry
      BY <1>2, <1>8, <2>2, FinishedExit DEF ResumePlan
  <2>3. CASE ~ proc[p].dry
      BY <1>3, <1>4, <1>8, <2>1, <2>3 DEF ResumePlan, Goto, At
  <2> QED
      BY <2>2, <2>3
<1>9. CASE SkipScanner(p)
  <2> DEFINE x == [proc[p] EXCEPT !.next = @ + 1, !.ok = TRUE]
  <2>1. x.scan = c /\ x.pc = "scanning" /\ proc[p].pc = "scanning"
      BY <1>1, <1>3, <1>9 DEF ProcSet, SkipScanner, InList, At
  <2> QED
      BY <1>3, <1>4, <1>9, <2>1 DEF SkipScanner
<1>10. ASSUME NEW found \in SUBSET Keys, ScannerSucceeds(p, found)
       PROVE  FinishedInv'
  <2> DEFINE new == MintedBy(FreshRun, found)
  <2> DEFINE x == [proc[p] EXCEPT !.next = @ + 1, !.ok = TRUE, !.mem = @ \cup new]
  <2>1. x.scan = c /\ x.pc = "scanning" /\ proc[p].pc = "scanning"
      BY <1>1, <1>3, <1>10 DEF ProcSet, ScannerSucceeds, InList, At
  <2>2. proc' = [proc EXCEPT ![p] = x]
      BY <1>10 DEF ScannerSucceeds
  <2>3. /\ row' = row
        /\ \A d \in Scans \ {c} : ckpt'[d] = ckpt[d] /\ stored'[d] = stored[d]
      BY <1>1, <1>3, <1>10 DEF ScannerSucceeds
  <2> HIDE DEF x
  <2>4. row[c].status = "running" /\ Marked(p)'
      BY <1>1, <1>3, <2>1, <2>2, <2>3 DEF Marked
  <2>5. RowMatches(c)'
      BY <2>3, <2>4 DEF RowMatches
  <2>6. \A q \in Procs \ {p} : proc'[q] = proc[q]
      BY <1>1, <1>3, <2>2
  <2> QED
      BY <1>3, <2>3, <2>4, <2>5, <2>6, FinishedLocally
<1>11. CASE CheckpointRejected(p)
    BY <1>2, <1>11, FinishedExit DEF CheckpointRejected
<1>12. CASE ScannerFails(p)
  <2> DEFINE x == [proc[p] EXCEPT !.next = @ + 1, !.fatal = TRUE]
  <2>1. x.scan = c /\ x.pc = "scanning" /\ proc[p].pc = "scanning"
      BY <1>1, <1>3, <1>12 DEF ProcSet, ScannerFails, InList, At
  <2> QED
      BY <1>4, <1>12, <2>1 DEF ScannerFails
<1>13. CASE ScannersDone(p)
  <2> DEFINE x == [proc[p] EXCEPT !.pc = "agent"]
  <2>1. x.scan = c /\ x.pc = "agent" /\ proc[p].pc = "scanning"
      BY <1>1, <1>3, <1>13 DEF ProcSet, ScannersDone, At
  <2>2. CASE proc[p].fatal /\ ~ proc[p].ok
      BY <1>2, <1>13, <2>2, FinishedExit DEF ScannersDone
  <2>3. CASE ~ (proc[p].fatal /\ ~ proc[p].ok)
      BY <1>4, <1>13, <2>1, <2>3 DEF ScannersDone, Goto
  <2> QED
      BY <2>2, <2>3
<1>14. ASSUME At(p, "agent"), NEW all, NEW dropped, NEW soft,
              Settle(p, all, dropped, soft), UNCHANGED <<row, ckpt, stored>>
       PROVE  FinishedInv'
  <2>1. PICK kept \in SUBSET all :
            /\ Unique(kept)
            /\ proc' = [proc EXCEPT ![p].pc = "finalize", ![p].mem = kept,
                                    ![p].dropped = dropped, ![p].soft = soft]
      BY <1>14 DEF Settle, IsDeduped, Unique
  <2> DEFINE x == [proc[p] EXCEPT !.pc = "finalize", !.mem = kept,
                                  !.dropped = dropped, !.soft = soft]
  <2>2. x.scan = c /\ x.pc = "finalize" /\ x.mem = kept
      BY <1>1, <1>3 DEF ProcSet
  <2>3. proc' = [proc EXCEPT ![p] = x]
      BY <2>1
  <2> HIDE DEF x
  <2> QED
      BY <1>4, <1>14, <2>1, <2>2, <2>3 DEF At
<1>15. CASE NoAgent(p)
    BY <1>14, <1>15 DEF NoAgent
<1>16. CASE AgentFails(p)
    BY <1>14, <1>16 DEF AgentFails
<1>17. ASSUME NEW keep, NEW extra, AgentReplaces(p, keep, extra) PROVE FinishedInv'
    BY <1>14, <1>17 DEF AgentReplaces
<1>18. CASE Finalize(p)
  <2>1. proc[p].pc = "finalize" /\ Alive(c)
      BY <1>1, <1>3, <1>18 DEF Finalize, At, ProcOK, Alive, ScanningPlaces, Holding
  <2> DEFINE r == [row[c] EXCEPT !.status = FinalStatus(p),
                                 !.total = Cardinality(proc[p].mem)]
  <2>2. /\ stored' = [stored EXCEPT ![c] = proc[p].mem]
        /\ row' = [row EXCEPT ![c] = r] /\ r.total = Cardinality(proc[p].mem)
        /\ ckpt' = ckpt /\ Exit(p, FinalExit(p))
      BY <1>1, <1>3, <1>18, <2>1 DEF Finalize, RowSet
  <2> HIDE DEF r
  <2>3. proc'[p].pc = "free" /\ \A q \in Procs \ {p} : proc'[q] = proc[q]
      BY <1>1, <2>2 DEF Exit, Free
  <2>4. RowMatches(c)' /\ Marked(p)'
      BY <1>1, <1>3, <2>1, <2>2, <2>3 DEF RowMatches, Marked, Unique
  <2> QED
      BY <1>1, <1>3, <2>2, <2>3, <2>4, FinishedLocally
<1>19. CASE DeleteFindings(p)
  <2>1. proc[p].pc = "delete_findings" /\ ckpt[c] = {}
      BY <1>1, <1>3, <1>19 DEF DeleteFindings, At, ProcOK, DeletingPlaces
  <2>2. /\ proc'[p].pc = "delete_row" /\ \A q \in Procs \ {p} : proc'[q] = proc[q]
        /\ row' = row /\ ckpt' = ckpt /\ \A d \in Scans \ {c} : stored'[d] = stored[d]
      BY <1>1, <1>3, <1>19 DEF DeleteFindings, Goto, ProcSet
  <2>3. RowMatches(c)' /\ Marked(p)'
      BY <2>1, <2>2 DEF RowMatches, Marked
  <2> QED
      BY <1>3, <2>2, <2>3, FinishedLocally
<1>20. CASE DeleteRow(p)
  <2>1. CASE ckpt[c] = {} /\ stored[c] = {}
    <3>1. /\ ckpt' = ckpt /\ stored' = stored
          /\ \A d \in Scans \ {c} : row'[d] = row[d]
          /\ proc'[p].pc = "free" /\ \A q \in Procs \ {p} : proc'[q] = proc[q]
        BY <1>1, <1>3, <1>20, <2>1 DEF DeleteRow, Exit, Free
    <3>2. RowMatches(c)' /\ Marked(p)'
        BY <2>1, <3>1 DEF RowMatches, Marked
    <3> QED
        BY <1>3, <3>1, <3>2, FinishedLocally
  <2>2. CASE ~ (ckpt[c] = {} /\ stored[c] = {})
      BY <1>2, <1>3, <1>20, <2>2, FinishedExit DEF DeleteRow
  <2> QED
      BY <2>1, <2>2
<1> QED
    BY <1>5, <1>6, <1>7, <1>8, <1>9, <1>10, <1>11, <1>12, <1>13, <1>15, <1>16,
       <1>17, <1>18, <1>19, <1>20 DEF Step

LEMMA FinishedInvNext ==
    ASSUME Overlap = {} PROVE FinishedInv /\ [Next]_vars => FinishedInv'
<1> SUFFICES ASSUME FinishedInv, [Next]_vars PROVE FinishedInv'
    OBVIOUS
<1>1. SequentialInv'
    BY SequentialInvNext DEF FinishedInv
<1>2. CASE UNCHANGED vars
    BY <1>1, <1>2 DEF vars, FinishedInv, RowMatches, Marked
<1>3. ASSUME NEW p \in Procs, Abort(p) PROVE FinishedInv'
    BY <1>1, <1>3, FinishedExit DEF Abort
<1> QED
    BY <1>1, <1>2, <1>3, FinishedInvStart, FinishedInvStep DEF Next

\* When invocations do not overlap on a scan, the total in a finished row is
\* the number of its findings and no two of them have one dedupe key, through
\* crashes, resumes and agent phases, until a delete begins.
THEOREM RowsMatch == ASSUME Overlap = {} PROVE Spec => []FinishedRowMatches
<1>1. Spec => []FinishedInv
    BY FinishedInvInit, FinishedInvNext, PTL DEF Spec
<1>2. FinishedInv => FinishedRowMatches
    BY DEF FinishedInv, RowMatches, Unique, FinishedRowMatches
<1> QED
    BY <1>1, <1>2, PTL

-----------------------------------------------------------------------------
(* The database implements ScanRecord, when invocations do not overlap *)

StatusOf == [c \in Scans |-> row[c].status]
ListOf == [c \in Scans |-> row[c].list]

\* What is known of the tables before and after a step.
TablesOK ==
    /\ row \in [Scans -> RowSet]
    /\ ckpt \in [Scans -> SUBSET Scanners]

\* A step on scan c changes what ScanRecord sees of c and of nothing else.
LEMMA MappedExcept ==
    ASSUME TablesOK, TablesOK', NEW c \in Scans,
           \A d \in Scans \ {c} : row'[d] = row[d] /\ ckpt'[d] = ckpt[d]
    PROVE  /\ StatusOf' = [StatusOf EXCEPT ![c] = row'[c].status]
           /\ ListOf' = [ListOf EXCEPT ![c] = row'[c].list]
           /\ ckpt' = [ckpt EXCEPT ![c] = ckpt'[c]]
    BY DEF TablesOK, StatusOf, ListOf

\* The same for the parts of c that stay.
LEMMA MappedSame ==
    ASSUME TablesOK, TablesOK', NEW c \in Scans,
           \A d \in Scans \ {c} : row'[d] = row[d] /\ ckpt'[d] = ckpt[d]
    PROVE  /\ row'[c].status = row[c].status => StatusOf' = StatusOf
           /\ row'[c].list = row[c].list => ListOf' = ListOf
           /\ ckpt'[c] = ckpt[c] => ckpt' = ckpt
    BY DEF TablesOK, StatusOf, ListOf

\* Each action of ScanRecord, in terms of the tables.
LEMMA RecordBegins ==
    ASSUME TablesOK, TablesOK', NEW c \in Scans,
           \A d \in Scans \ {c} : row'[d] = row[d] /\ ckpt'[d] = ckpt[d],
           row[c].status = "unborn", row'[c].status = "running",
           row'[c].list \in Lists, ckpt'[c] = ckpt[c]
    PROVE  Record!Next
<1>1. /\ StatusOf' = [StatusOf EXCEPT ![c] = "running"]
      /\ ListOf' = [ListOf EXCEPT ![c] = row'[c].list]
      /\ ckpt' = ckpt /\ StatusOf[c] = "unborn"
    BY MappedExcept, MappedSame DEF StatusOf
<1>2. Record!Begin(c)
    BY <1>1 DEF Record!Begin, StatusOf, ListOf
<1> QED
    BY <1>2 DEF Record!Next

LEMMA RecordCovers ==
    ASSUME TablesOK, TablesOK', NEW c \in Scans, NEW s,
           \A d \in Scans \ {c} : row'[d] = row[d] /\ ckpt'[d] = ckpt[d],
           row[c].status = "running", row'[c] = row[c], s \notin ckpt[c],
           \E i \in DOMAIN row[c].list : row[c].list[i] = s,
           ckpt'[c] = ckpt[c] \cup {s}
    PROVE  Record!Next
<1>1. /\ ckpt' = [ckpt EXCEPT ![c] = ckpt[c] \cup {s}]
      /\ StatusOf' = StatusOf /\ ListOf' = ListOf
      /\ StatusOf[c] = "running" /\ ListOf[c] = row[c].list
    BY MappedExcept, MappedSame DEF StatusOf, ListOf
<1>2. s \in {ListOf[c][i] : i \in DOMAIN ListOf[c]} \ ckpt[c]
    BY <1>1
<1>3. Record!Cover(c)
    BY <1>1, <1>2 DEF Record!Cover, Record!Listed, StatusOf, ListOf
<1> QED
    BY <1>3 DEF Record!Next

LEMMA RecordEnds ==
    ASSUME TablesOK, TablesOK', NEW c \in Scans,
           \A d \in Scans \ {c} : row'[d] = row[d] /\ ckpt'[d] = ckpt[d],
           row[c].status = "running", row'[c].list = row[c].list, ckpt'[c] = ckpt[c],
           \/ /\ row'[c].status = "completed"
              /\ \A i \in DOMAIN row[c].list : row[c].list[i] \in ckpt[c]
           \/ row'[c].status = "failed" /\ ckpt[c] # {}
    PROVE  Record!Next
<1>1. /\ StatusOf' = [StatusOf EXCEPT ![c] = row'[c].status]
      /\ ListOf' = ListOf /\ ckpt' = ckpt
      /\ StatusOf[c] = "running" /\ ListOf[c] = row[c].list
    BY MappedExcept, MappedSame DEF StatusOf, ListOf
<1>2. CASE row'[c].status = "completed" /\ \A i \in DOMAIN row[c].list : row[c].list[i] \in ckpt[c]
  <2>1. {ListOf[c][i] : i \in DOMAIN ListOf[c]} \subseteq ckpt[c]
      BY <1>1, <1>2
  <2>2. Record!Complete(c)
      BY <1>1, <1>2, <2>1 DEF Record!Complete, Record!Listed, StatusOf, ListOf
  <2> QED
      BY <2>2 DEF Record!Next
<1>3. CASE row'[c].status = "failed" /\ ckpt[c] # {}
  <2>1. Record!Degrade(c)
      BY <1>1, <1>3 DEF Record!Degrade, StatusOf, ListOf
  <2> QED
      BY <2>1 DEF Record!Next
<1> QED
    BY <1>2, <1>3

LEMMA RecordReopens ==
    ASSUME TablesOK, TablesOK', NEW c \in Scans,
           \A d \in Scans \ {c} : row'[d] = row[d] /\ ckpt'[d] = ckpt[d],
           row[c].status = "failed", row'[c].status = "running",
           row'[c].list = row[c].list, ckpt'[c] = ckpt[c]
    PROVE  Record!Next
<1>1. /\ StatusOf' = [StatusOf EXCEPT ![c] = "running"]
      /\ ListOf' = ListOf /\ ckpt' = ckpt /\ StatusOf[c] = "failed"
    BY MappedExcept, MappedSame DEF StatusOf
<1>2. Record!Reopen(c)
    BY <1>1 DEF Record!Reopen, StatusOf, ListOf
<1> QED
    BY <1>2 DEF Record!Next

LEMMA RecordForgets ==
    ASSUME TablesOK, TablesOK', NEW c \in Scans, Alive(c),
           \A d \in Scans \ {c} : row'[d] = row[d] /\ ckpt'[d] = ckpt[d],
           row'[c] = row[c], ckpt'[c] = {}
    PROVE  Record!Next
<1>1. /\ StatusOf' = StatusOf /\ ListOf' = ListOf /\ StatusOf[c] = row[c].status
      /\ ckpt' = [ckpt EXCEPT ![c] = {}]
    BY MappedExcept, MappedSame DEF StatusOf
<1>2. Record!Forget(c)
    BY <1>1 DEF Record!Forget, StatusOf, ListOf, Alive
<1> QED
    BY <1>2 DEF Record!Next

LEMMA RecordRemoves ==
    ASSUME TablesOK, TablesOK', NEW c \in Scans, Alive(c),
           \A d \in Scans \ {c} : row'[d] = row[d] /\ ckpt'[d] = ckpt[d],
           row'[c] = NoRow("gone"), ckpt[c] = {}, ckpt'[c] = {}
    PROVE  Record!Next
<1>1. row'[c].status = "gone" /\ row'[c].list = <<>>
    BY DEF NoRow
<1>2. /\ StatusOf' = [StatusOf EXCEPT ![c] = "gone"]
      /\ ListOf' = [ListOf EXCEPT ![c] = <<>>]
      /\ ckpt' = ckpt /\ StatusOf[c] = row[c].status
    BY <1>1, MappedExcept, MappedSame DEF StatusOf
<1>3. Record!Remove(c)
    BY <1>2 DEF Record!Remove, StatusOf, ListOf, Alive
<1> QED
    BY <1>3 DEF Record!Next

LEMMA RecordStutters ==
    ASSUME TablesOK, TablesOK', \A d \in Scans : row'[d].status = row[d].status,
           \A d \in Scans : row'[d].list = row[d].list, ckpt' = ckpt
    PROVE  UNCHANGED Record!vars
    BY DEF TablesOK, Record!vars

RecordInv == FinishedInv /\ CoverageInv

LEMMA RecordStart ==
    ASSUME RecordInv, TablesOK', Overlap = {}, NEW p \in Procs, Start(p)
    PROVE  Record!Next \/ UNCHANGED Record!vars
<1>1. TablesOK
    BY DEF RecordInv, FinishedInv, SequentialInv, TypeInv, TypeOK, TablesOK
<1>2. ASSUME NEW c \in Scans, NEW list \in Lists, NEW provider,
             StartScan(p, c, list, provider)
      PROVE  Record!Next
  <2>1. /\ row[c].status = "unborn" /\ row'[c].status = "running"
        /\ row'[c].list = list /\ \A d \in Scans \ {c} : row'[d] = row[d]
        /\ ckpt' = ckpt
      BY <1>1, <1>2 DEF StartScan, TablesOK
  <2> QED
      BY <1>1, <2>1, RecordBegins
<1>3. ASSUME NEW c \in Scans, NEW dry, ResumeOpen(p, c, dry)
      PROVE  UNCHANGED Record!vars
    BY <1>1, <1>3, RecordStutters DEF ResumeOpen
<1>4. ASSUME NEW c \in Scans, DeleteCheckpoints(p, c) PROVE Record!Next
  <2>1. Alive(c) /\ row' = row /\ ckpt' = [ckpt EXCEPT ![c] = {}]
      BY <1>4 DEF DeleteCheckpoints
  <2>2. ckpt'[c] = {} /\ \A d \in Scans \ {c} : ckpt'[d] = ckpt[d]
      BY <1>1, <2>1 DEF TablesOK
  <2> QED
      BY <1>1, <2>1, <2>2, RecordForgets
<1> QED
    BY <1>2, <1>3, <1>4 DEF Start

LEMMA RecordStep ==
    ASSUME RecordInv, TablesOK', NEW p \in Procs, Step(p)
    PROVE  Record!Next \/ UNCHANGED Record!vars
<1>1. TablesOK
    BY DEF RecordInv, FinishedInv, SequentialInv, TypeInv, TypeOK, TablesOK
<1>2. CASE UNCHANGED <<row, ckpt>>
    BY <1>1, <1>2, RecordStutters
<1>3. /\ proc[p] \in ProcSet /\ GoodProc(proc[p]) /\ ProcOK(p) /\ Marked(p)
      /\ Based(p) /\ Progress(p)
    BY DEF RecordInv, FinishedInv, SequentialInv, CoverageInv, TypeInv, TypeOK
<1>4. CASE ResumeMarkRunning(p)
  <2>1. PICK c \in Scans : c = proc[p].scan /\ Alive(c) /\ row[c].status \in {"running", "failed"}
      BY <1>3, <1>4 DEF ResumeMarkRunning, At, GoodProc, ProcSet, ProcOK, Alive, ScanningPlaces, Holding
  <2> DEFINE r == [row[c] EXCEPT !.status = "running"]
  <2>2. /\ row' = [row EXCEPT ![c] = r] /\ ckpt' = ckpt
        /\ r.status = "running" /\ r.list = row[c].list
      BY <1>1, <1>4, <2>1 DEF ResumeMarkRunning, TablesOK, RowSet
  <2> HIDE DEF r
  <2>3. /\ row'[c].status = "running" /\ row'[c].list = row[c].list
        /\ \A d \in Scans \ {c} : row'[d] = row[d]
      BY <1>1, <2>2 DEF TablesOK
  <2>4. CASE row[c].status = "running"
      BY <1>1, <2>1, <2>2, <2>3, <2>4, RecordStutters
  <2>5. CASE row[c].status = "failed"
      BY <1>1, <2>2, <2>3, <2>5, RecordReopens
  <2> QED
      BY <2>1, <2>4, <2>5
<1>5. ASSUME NEW found, ScannerSucceeds(p, found)
      PROVE  Record!Next \/ UNCHANGED Record!vars
  <2>1. /\ proc[p].pc = "scanning" /\ proc[p].next \in 1..Len(proc[p].list)
        /\ proc[p].list \in Seq(Scanners)
      BY <1>3, <1>5 DEF ScannerSucceeds, InList, At, ProcSet
  <2>2. PICK c \in Scans : c = proc[p].scan
      BY <1>3, <2>1 DEF GoodProc, ProcSet
  <2>3. row[c].status = "running" /\ proc[p].list = row[c].list
      BY <1>3, <2>1, <2>2 DEF Marked, Progress, ScanningPlaces, Holding
  <2> DEFINE s == proc[p].list[proc[p].next]
  <2>4. row' = row /\ ckpt' = [ckpt EXCEPT ![c] = ckpt[c] \cup {s}]
      BY <1>5, <2>2 DEF ScannerSucceeds, Scanner
  <2>5. /\ ckpt'[c] = ckpt[c] \cup {s} /\ \A d \in Scans \ {c} : ckpt'[d] = ckpt[d]
        /\ \E i \in DOMAIN row[c].list : row[c].list[i] = s
      BY <1>1, <2>1, <2>3, <2>4 DEF TablesOK
  <2> HIDE DEF s
  <2>6. CASE s \in ckpt[c]
    <3>1. ckpt' = ckpt
        BY <1>1, <2>4, <2>6 DEF TablesOK
    <3> QED
        BY <1>2, <2>4, <3>1
  <2>7. CASE s \notin ckpt[c]
      BY <1>1, <2>3, <2>4, <2>5, <2>7, RecordCovers
  <2> QED
      BY <2>6, <2>7
<1>6. CASE Finalize(p)
  <2>1. proc[p].pc = "finalize" /\ Alive(proc[p].scan)
      BY <1>3, <1>6 DEF Finalize, At, Based
  <2>2. PICK c \in Scans : c = proc[p].scan
      BY <1>3, <2>1 DEF GoodProc, ProcSet
  <2>3. /\ row[c].status = "running" /\ proc[p].list = row[c].list
        /\ proc[p].next \in Nat /\ proc[p].next > Len(proc[p].list) /\ Len(proc[p].list) > 0
        /\ proc[p].list \in Seq(Scanners) /\ Passed(p)
        /\ proc[p].ok => ckpt[c] # {} /\ (proc[p].ok \/ ~ proc[p].fatal)
      BY <1>3, <2>1, <2>2 DEF Marked, Progress, ScanningPlaces, Holding, ProcSet
  <2> DEFINE r == [row[c] EXCEPT !.status = FinalStatus(p),
                                 !.total = Cardinality(proc[p].mem)]
  <2>4. /\ row' = [row EXCEPT ![c] = r] /\ ckpt' = ckpt
        /\ r.status = FinalStatus(p) /\ r.list = row[c].list
      BY <1>1, <1>6, <2>1, <2>2 DEF Finalize, TablesOK, RowSet
  <2> HIDE DEF r
  <2>5. /\ row'[c].status = FinalStatus(p) /\ row'[c].list = row[c].list
        /\ \A d \in Scans \ {c} : row'[d] = row[d]
      BY <1>1, <2>4 DEF TablesOK
  <2>6. CASE proc[p].fatal
    <3>1. ckpt[c] # {} /\ FinalStatus(p) = "failed"
        BY <1>3, <2>1, <2>2, <2>6 DEF Progress, ScanningPlaces, Holding, FinalStatus, Degraded
    <3> QED
        BY <1>1, <2>3, <2>4, <2>5, <3>1, RecordEnds
  <2>7. CASE ~ proc[p].fatal
    <3>1. \A i \in DOMAIN row[c].list : row[c].list[i] \in ckpt[c]
        BY <2>2, <2>3, <2>7 DEF Passed
    <3>2. 1 \in DOMAIN row[c].list
        BY <2>3
    <3>3. ckpt[c] # {} /\ FinalStatus(p) \in {"completed", "failed"}
        BY <3>1, <3>2 DEF FinalStatus
    <3> QED
        BY <1>1, <2>3, <2>4, <2>5, <3>1, <3>3, RecordEnds
  <2> QED
      BY <2>6, <2>7
<1>7. CASE DeleteRow(p)
  <2>1. CASE row' = row
      BY <1>2, <1>7, <2>1 DEF DeleteRow
  <2>2. CASE row' # row
    <3>1. PICK c \in Scans : c = proc[p].scan
        BY <1>3, <1>7 DEF DeleteRow, At, GoodProc, ProcSet
    <3>2. Alive(c) /\ ckpt[c] = {}
        BY <1>3, <1>7, <3>1 DEF DeleteRow, At, ProcOK, DeletingPlaces
    <3>3. row' = [row EXCEPT ![c] = NoRow("gone")] /\ ckpt' = ckpt
        BY <1>7, <2>2, <3>1 DEF DeleteRow
    <3>4. row'[c] = NoRow("gone") /\ \A d \in Scans \ {c} : row'[d] = row[d]
        BY <1>1, <3>3 DEF TablesOK
    <3> QED
        BY <1>1, <3>2, <3>3, <3>4, RecordRemoves
  <2> QED
      BY <2>1, <2>2
<1> QED
    BY <1>2, <1>4, <1>5, <1>6, <1>7
    DEF Step, ResumeReadCheckpoints, ResumeReadFindings, ResumePlan, SkipScanner,
        CheckpointRejected, ScannerFails, ScannersDone, NoAgent, AgentFails,
        AgentReplaces, DeleteFindings

\* When invocations do not overlap on a scan, the database is a ScanRecord:
\* every transaction of every command is one of its steps on one scan, or
\* changes nothing it speaks of.
THEOREM DatabaseIsRecord == ASSUME Overlap = {} PROVE Spec => ImplementsRecord
<1>1. Init => Record!Init
    BY DEF Init, NoRow, Record!Init
<1>2. RecordInv /\ RecordInv' /\ [Next]_vars => [Record!Next]_(Record!vars)
  <2> SUFFICES ASSUME RecordInv, RecordInv', [Next]_vars
               PROVE  Record!Next \/ UNCHANGED Record!vars
      OBVIOUS
  <2>1. TablesOK /\ TablesOK'
      BY DEF RecordInv, FinishedInv, SequentialInv, TypeInv, TypeOK, TablesOK
  <2>2. CASE UNCHANGED <<row, ckpt>>
      BY <2>1, <2>2, RecordStutters
  <2> QED
      BY <2>1, <2>2, RecordStart, RecordStep DEF Next, Abort, vars
<1>3. "delete" \notin Overlap
    OBVIOUS
<1>4. Spec => []RecordInv
  <2>1. Spec => []FinishedInv
      BY FinishedInvInit, FinishedInvNext, PTL DEF Spec
  <2>2. Spec => []CoverageInv
      BY <1>3, CoverageInvInit, CoverageInvNext, PTL DEF Spec
  <2>3. FinishedInv /\ CoverageInv => RecordInv
      BY DEF RecordInv
  <2> QED
      BY <2>1, <2>2, <2>3, PTL
<1> QED
    BY <1>1, <1>2, <1>4, PTL DEF Spec, ImplementsRecord, Record!Spec
=============================================================================
