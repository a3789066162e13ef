------------------------ MODULE ScanLifecycleProofs ------------------------
(***************************************************************************)
(* Theorems about ScanLifecycle, for every number of processes, scans and  *)
(* scanners.  TypeInv is inductive whatever overlaps.  The other theorems  *)
(* need that invocations do not overlap on a scan, and rest on             *)
(* SequentialInv, which says what a process knows of the scan it works on. *)
(***************************************************************************)
EXTENDS ScanLifecycle, FiniteSetTheorems, TLAPS

\* A process works on a scan unless its slot is free, and holds finitely many
\* findings: TypeOK needs it, for finalize_scan writes their number.
GoodProc(x) ==
    /\ x \in ProcSet
    /\ IsFiniteSet(x.mem)
    /\ x.pc = "free" <=> x.scan = NoScan

TypeInv ==
    /\ TypeOK
    /\ \A c \in Scans : IsFiniteSet(stored[c])
    /\ \A p \in Procs : GoodProc(proc[p])

-----------------------------------------------------------------------------
(* Lemmas about the operators the actions are built from *)

\* A run mints one finding per key, finitely many and of the right type.
LEMMA MintedByFacts ==
    ASSUME NEW run, NEW keys
    PROVE  /\ KeysOf(MintedBy(run, keys)) = keys
           /\ IsFiniteSet(keys) => IsFiniteSet(MintedBy(run, keys))
           /\ run \in Runs /\ keys \in SUBSET Keys =>
                  MintedBy(run, keys) \in SUBSET Findings
<1>1. KeysOf(MintedBy(run, keys)) = keys
  <2> DEFINE f(k) == [key |-> k, run |-> run]
  <2>1. ASSUME NEW k \in keys PROVE k \in KeysOf(MintedBy(run, keys))
    <3>1. f(k) \in MintedBy(run, keys) /\ f(k).key = k
        BY DEF MintedBy
    <3> QED
        BY <3>1 DEF KeysOf
  <2>2. ASSUME NEW k \in KeysOf(MintedBy(run, keys)) PROVE k \in keys
    <3>1. PICK g \in MintedBy(run, keys) : k = g.key
        BY DEF KeysOf
    <3>2. PICK m \in keys : g = f(m)
        BY DEF MintedBy
    <3> QED
        BY <3>1, <3>2
  <2> QED
      BY <2>1, <2>2
<1>2. ASSUME IsFiniteSet(keys) PROVE IsFiniteSet(MintedBy(run, keys))
  <2> DEFINE f == [k \in keys |-> [key |-> k, run |-> run]]
  <2>1. f \in Surjection(keys, MintedBy(run, keys))
      BY DEF Surjection, MintedBy
  <2> QED
      BY <1>2, <2>1, FS_Surjection
<1>3. ASSUME run \in Runs, keys \in SUBSET Keys
      PROVE  MintedBy(run, keys) \in SUBSET Findings
    BY <1>3 DEF MintedBy, Findings
<1> QED
    BY <1>1, <1>2, <1>3

\* A run identity is one of Runs whenever one is fresh.
LEMMA FreshRunType == ASSUME HasFreshRun PROVE FreshRun \in Runs
    BY DEF HasFreshRun, FreshRun

LEMMA FreeGood == ASSUME NEW exit \in Exits PROVE GoodProc(Free(exit))
    BY FS_EmptySet DEF GoodProc, Free, ProcSet, Places, Exits

LEMMA RowUpdate ==
    ASSUME NEW r \in RowSet, NEW status \in Statuses, NEW total \in Nat
    PROVE  /\ [r EXCEPT !.status = status] \in RowSet
           /\ [r EXCEPT !.status = status, !.total = total] \in RowSet
    BY DEF RowSet

\* Replacing the state of one process by a good one keeps all of them good.
LEMMA GoodUpdate ==
    ASSUME proc \in [Procs -> ProcSet], \A q \in Procs : GoodProc(proc[q]),
           NEW p \in Procs, NEW x, GoodProc(x), proc' = [proc EXCEPT ![p] = x]
    PROVE  proc' \in [Procs -> ProcSet] /\ \A q \in Procs : GoodProc(proc'[q])
    BY DEF GoodProc

LEMMA ExitGood ==
    ASSUME TypeInv, NEW p \in Procs, NEW exit \in Exits, Exit(p, exit)
    PROVE  proc' \in [Procs -> ProcSet] /\ \A q \in Procs : GoodProc(proc'[q])
    BY FreeGood, GoodUpdate DEF Exit, TypeInv, TypeOK

LEMMA GotoGood ==
    ASSUME TypeInv, NEW p \in Procs, ~ At(p, "free"),
           NEW place \in Places \ {"free"}, Goto(p, place)
    PROVE  proc' \in [Procs -> ProcSet] /\ \A q \in Procs : GoodProc(proc'[q])
<1> DEFINE x == [proc[p] EXCEPT !.pc = place]
<1>1. GoodProc(x)
    BY DEF TypeInv, GoodProc, ProcSet, At
<1>2. proc' = [proc EXCEPT ![p] = x]
    BY DEF Goto
<1> QED
    BY <1>1, <1>2, GoodUpdate DEF TypeInv, TypeOK

\* Deduplication returns some of the findings it is given.
LEMMA SettleGood ==
    ASSUME TypeInv, NEW p \in Procs, ~ At(p, "free"), NEW all \in SUBSET Findings,
           IsFiniteSet(all), NEW dropped \in SUBSET Keys, NEW soft \in BOOLEAN,
           Settle(p, all, dropped, soft)
    PROVE  proc' \in [Procs -> ProcSet] /\ \A q \in Procs : GoodProc(proc'[q])
<1>1. PICK kept \in SUBSET all :
          proc' = [proc EXCEPT ![p].pc = "finalize", ![p].mem = kept,
                               ![p].dropped = dropped, ![p].soft = soft]
    BY DEF Settle
<1> DEFINE x == [proc[p] EXCEPT !.pc = "finalize", !.mem = kept,
                                !.dropped = dropped, !.soft = soft]
<1>2. GoodProc(x)
  <2>1. IsFiniteSet(kept) /\ kept \in SUBSET Findings
      BY FS_Subset
  <2>2. proc[p] \in ProcSet /\ proc[p].scan # NoScan
      BY DEF TypeInv, GoodProc, At
  <2>3. x \in ProcSet
      BY <2>1, <2>2 DEF ProcSet, Places
  <2>4. x.mem = kept /\ x.pc = "finalize" /\ x.scan = proc[p].scan
      BY <2>2 DEF ProcSet
  <2> QED
      BY <2>1, <2>2, <2>3, <2>4 DEF GoodProc
<1>3. proc' = [proc EXCEPT ![p] = x]
    BY <1>1
<1> QED
    BY <1>2, <1>3, GoodUpdate DEF TypeInv, TypeOK

-----------------------------------------------------------------------------
(* Type correctness, whatever overlaps *)

LEMMA TypeInvInit == Init => TypeInv
<1> SUFFICES ASSUME Init PROVE TypeInv
    OBVIOUS
<1>1. row \in [Scans -> RowSet]
    BY DEF Init, NoRow, RowSet, Statuses
<1>2. proc \in [Procs -> ProcSet] /\ \A p \in Procs : GoodProc(proc[p])
    BY FreeGood DEF Init, Exits, GoodProc
<1>3. faults \in Nat
    BY DEF Init
<1>4. \A c \in Scans : IsFiniteSet(stored[c])
    BY FS_EmptySet DEF Init
<1> QED
    BY <1>1, <1>2, <1>3, <1>4 DEF Init, TypeInv, TypeOK

LEMMA TypeInvStart ==
    ASSUME TypeInv, NEW p \in Procs, Start(p) PROVE TypeInv'
<1> DEFINE ProcsGood ==
        proc' \in [Procs -> ProcSet] /\ \A q \in Procs : GoodProc(proc'[q])
<1> USE DEF TypeInv, TypeOK
<1>1. GoodProc(Free("none"))
    BY FreeGood DEF Exits
<1>2. PICK c \in Scans :
          \/ \E list \in Lists, provider \in Providers :
                 StartScan(p, c, list, provider)
          \/ \E dry \in BOOLEAN : ResumeOpen(p, c, dry)
          \/ DeleteCheckpoints(p, c)
    BY DEF Start
<1>3. ASSUME NEW list \in Lists, NEW provider \in Providers,
             StartScan(p, c, list, provider)
      PROVE  TypeInv'
  <2> DEFINE x == [Free("none") EXCEPT !.pc = "scanning", !.scan = c,
                                       !.provider = provider, !.list = list]
  <2>1. list \in Seq(Scanners) /\ provider \in {"none", "agent"}
      BY ListsAssumption, ProvidersAssumption
  <2>2. GoodProc(x)
      BY <1>1, <2>1, ScansAssumption DEF GoodProc, ProcSet, Places
  <2>3. proc' = [proc EXCEPT ![p] = x]
      BY <1>3 DEF StartScan
  <2>4. ProcsGood
      BY <2>2, <2>3, GoodUpdate
  <2>5. row' \in [Scans -> RowSet]
      BY <1>3, <2>1 DEF StartScan, RowSet, Statuses
  <2> QED
      BY <1>3, <2>4, <2>5 DEF StartScan
<1>4. ASSUME NEW dry \in BOOLEAN, ResumeOpen(p, c, dry) PROVE TypeInv'
  <2> DEFINE x == [Free("none") EXCEPT !.pc = "read_checkpoints", !.scan = c,
                                       !.provider = row[c].provider,
                                       !.list = row[c].list, !.dry = dry]
  <2>1. row[c].list \in Seq(Scanners) /\ row[c].provider \in {"none", "agent"}
      BY DEF RowSet
  <2>2. GoodProc(x)
      BY <1>1, <2>1, ScansAssumption DEF GoodProc, ProcSet, Places
  <2>3. proc' = [proc EXCEPT ![p] = x]
      BY <1>4 DEF ResumeOpen
  <2>4. ProcsGood
      BY <2>2, <2>3, GoodUpdate
  <2> QED
      BY <1>4, <2>4 DEF ResumeOpen
<1>5. ASSUME DeleteCheckpoints(p, c) PROVE TypeInv'
  <2> DEFINE x == [Free("none") EXCEPT !.pc = "delete_findings", !.scan = c]
  <2>1. GoodProc(x)
      BY <1>1, ScansAssumption DEF GoodProc, ProcSet, Places
  <2>2. proc' = [proc EXCEPT ![p] = x]
      BY <1>5 DEF DeleteCheckpoints
  <2>3. ProcsGood
      BY <2>1, <2>2, GoodUpdate
  <2> QED
      BY <1>5, <2>3 DEF DeleteCheckpoints
<1> QED
    BY <1>2, <1>3, <1>4, <1>5

LEMMA TypeInvStep ==
    ASSUME TypeInv, NEW p \in Procs, Step(p) PROVE TypeInv'
<1> DEFINE c == proc[p].scan
<1> DEFINE ProcsGood ==
        proc' \in [Procs -> ProcSet] /\ \A q \in Procs : GoodProc(proc'[q])
<1> USE DEF TypeInv, TypeOK
<1>1. proc[p] \in ProcSet /\ GoodProc(proc[p])
    OBVIOUS
<1>2. ~ At(p, "free") => c \in Scans
    BY <1>1 DEF At, GoodProc, ProcSet
<1>3. CASE ResumeReadCheckpoints(p)
  <2> DEFINE x == [proc[p] EXCEPT !.pc = "read_findings", !.skip = ckpt[c]]
  <2>1. GoodProc(x)
      BY <1>1, <1>2, <1>3 DEF ResumeReadCheckpoints, At, GoodProc, ProcSet, Places
  <2>2. ProcsGood
      BY <1>3, <2>1, GoodUpdate DEF ResumeReadCheckpoints
  <2> QED
      BY <1>3, <2>2 DEF ResumeReadCheckpoints
<1>4. CASE ResumeReadFindings(p)
  <2> DEFINE x == [proc[p] EXCEPT !.pc = "mark_running", !.mem = stored[c],
                                  !.loaded = stored[c]]
  <2>1. GoodProc(x)
      BY <1>1, <1>2, <1>4 DEF ResumeReadFindings, At, GoodProc, ProcSet, Places
  <2>2. ProcsGood
      BY <1>4, <2>1, GoodUpdate DEF ResumeReadFindings
  <2> QED
      BY <1>4, <2>2 DEF ResumeReadFindings
<1>5. CASE ResumeMarkRunning(p)
  <2>1. ProcsGood
      BY <1>5, ExitGood, GotoGood DEF ResumeMarkRunning, At, Places, Exits
  <2>2. row' \in [Scans -> RowSet]
    <3>1. row[c] \in RowSet
        BY <1>2, <1>5 DEF ResumeMarkRunning, At
    <3>2. [row[c] EXCEPT !.status = "running"] \in RowSet
        BY <3>1, RowUpdate DEF Statuses
    <3>3. \/ row' = [row EXCEPT ![c] = [row[c] EXCEPT !.status = "running"]]
          \/ row' = row
        BY <1>5 DEF ResumeMarkRunning
    <3> QED
        BY <3>2, <3>3
  <2> QED
      BY <1>5, <2>1, <2>2 DEF ResumeMarkRunning
<1>6. CASE ResumePlan(p)
  <2>1. ProcsGood
      BY <1>6, ExitGood, GotoGood DEF ResumePlan, At, Places, Exits
  <2> QED
      BY <1>6, <2>1 DEF ResumePlan
<1>7. CASE SkipScanner(p)
  <2> DEFINE x == [proc[p] EXCEPT !.next = @ + 1, !.ok = TRUE]
  <2>1. x.mem = proc[p].mem /\ x.pc = proc[p].pc /\ x.scan = proc[p].scan
      BY <1>1 DEF ProcSet
  <2>2. x \in ProcSet
    <3>1. proc[p].next + 1 \in Nat \ {0}
        BY <1>1 DEF ProcSet
    <3> HIDE DEF TypeInv, TypeOK
    <3> QED
        BY <1>1, <3>1 DEF ProcSet
  <2>3. GoodProc(x)
      BY <1>1, <2>1, <2>2 DEF GoodProc
  <2>4. ProcsGood
      BY <1>7, <2>3, GoodUpdate DEF SkipScanner
  <2> QED
      BY <1>7, <2>4 DEF SkipScanner
<1>8. ASSUME NEW found \in SUBSET Keys, ScannerSucceeds(p, found) PROVE TypeInv'
  <2> DEFINE new == MintedBy(FreshRun, found)
  <2> DEFINE x == [proc[p] EXCEPT !.next = @ + 1, !.ok = TRUE, !.mem = @ \cup new]
  <2>1. Scanner(p) \in Scanners
      BY <1>1, <1>8 DEF ScannerSucceeds, InList, Scanner, ProcSet
  <2>2. IsFiniteSet(found) /\ found \in SUBSET Keys
      BY <1>8, <2>1, KeysAssumption DEF ScannerSucceeds
  <2>3. new \in SUBSET Findings /\ IsFiniteSet(new)
      BY <1>8, <2>2, FreshRunType, MintedByFacts DEF ScannerSucceeds
  <2>4. c \in Scans
      BY <1>2, <1>8 DEF ScannerSucceeds, InList, At
  <2>5. IsFiniteSet(proc[p].mem \cup new) /\ IsFiniteSet(stored[c] \cup new)
      BY <1>1, <2>3, <2>4, FS_Union DEF GoodProc
  <2>6. GoodProc(x)
    <3>0. proc[p].next + 1 \in Nat \ {0}
        BY <1>1 DEF ProcSet
    <3>1. x \in ProcSet
      <4> HIDE DEF TypeInv, TypeOK
      <4> QED
          BY <1>1, <2>3, <3>0 DEF ProcSet
    <3>2. /\ x.mem = proc[p].mem \cup new
          /\ x.pc = proc[p].pc /\ x.scan = proc[p].scan
        BY <1>1 DEF ProcSet
    <3> QED
        BY <1>1, <2>5, <3>1, <3>2 DEF GoodProc
  <2>7. ProcsGood
      BY <1>8, <2>6, GoodUpdate DEF ScannerSucceeds
  <2>8. /\ stored' \in [Scans -> SUBSET Findings]
        /\ \A d \in Scans : IsFiniteSet(stored'[d])
      BY <1>8, <2>3, <2>4, <2>5 DEF ScannerSucceeds
  <2>9. /\ ckpt' \in [Scans -> SUBSET Scanners]
        /\ given' \in [Scans -> [Scanners -> SUBSET Keys]]
      BY <1>8, <2>1, <2>2, <2>4 DEF ScannerSucceeds
  <2> QED
      BY <1>8, <2>7, <2>8, <2>9 DEF ScannerSucceeds
<1>9. CASE CheckpointRejected(p)
    BY <1>9, ExitGood DEF CheckpointRejected, Exits
<1>10. CASE ScannerFails(p)
  <2> DEFINE x == [proc[p] EXCEPT !.next = @ + 1, !.fatal = TRUE]
  <2>1. x.mem = proc[p].mem /\ x.pc = proc[p].pc /\ x.scan = proc[p].scan
      BY <1>1 DEF ProcSet
  <2>2. x \in ProcSet
    <3>1. proc[p].next + 1 \in Nat \ {0}
        BY <1>1 DEF ProcSet
    <3> HIDE DEF TypeInv, TypeOK
    <3> QED
        BY <1>1, <3>1 DEF ProcSet
  <2>3. GoodProc(x)
      BY <1>1, <2>1, <2>2 DEF GoodProc
  <2>4. ProcsGood
      BY <1>10, <2>3, GoodUpdate DEF ScannerFails
  <2> QED
      BY <1>10, <2>4 DEF ScannerFails, Fault
<1>11. CASE ScannersDone(p)
  <2>1. ProcsGood
      BY <1>11, ExitGood, GotoGood DEF ScannersDone, At, Places, Exits
  <2> QED
      BY <1>11, <2>1 DEF ScannersDone
<1>12. proc[p].mem \in SUBSET Findings /\ IsFiniteSet(proc[p].mem)
    BY <1>1 DEF GoodProc, ProcSet
<1>13. CASE NoAgent(p)
  <2>1. ProcsGood
      BY <1>12, <1>13, SettleGood DEF NoAgent, At
  <2> QED
      BY <1>13, <2>1 DEF NoAgent
<1>14. CASE AgentFails(p)
  <2>1. ProcsGood
      BY <1>12, <1>14, SettleGood DEF AgentFails, At
  <2> QED
      BY <1>14, <2>1 DEF AgentFails, Fault
<1>15. ASSUME NEW keep \in SUBSET proc[p].mem, NEW extra \in SUBSET AgentKeys,
              AgentReplaces(p, keep, extra)
       PROVE  TypeInv'
  <2> DEFINE all == keep \cup MintedBy(FreshRun, extra)
  <2> DEFINE dropped == KeysOf(proc[p].mem) \ KeysOf(keep)
  <2>1. IsFiniteSet(extra) /\ extra \in SUBSET Keys /\ IsFiniteSet(keep)
      BY <1>12, FS_Subset, KeysAssumption
  <2>2. /\ MintedBy(FreshRun, extra) \in SUBSET Findings
        /\ IsFiniteSet(MintedBy(FreshRun, extra))
      BY <1>15, <2>1, FreshRunType, MintedByFacts DEF AgentReplaces
  <2>3. all \in SUBSET Findings /\ IsFiniteSet(all)
      BY <1>12, <2>1, <2>2, FS_Union
  <2>4. dropped \in SUBSET Keys
      BY <1>12 DEF KeysOf, Findings
  <2>5. ProcsGood
    <3>1. Settle(p, all, dropped, FALSE) /\ ~ At(p, "free")
        BY <1>15 DEF AgentReplaces, At
    <3> QED
        BY <2>3, <2>4, <3>1, SettleGood
  <2> QED
      BY <1>15, <2>5 DEF AgentReplaces
<1>16. CASE Finalize(p)
  <2>1. c \in Scans /\ Cardinality(proc[p].mem) \in Nat
      BY <1>2, <1>12, <1>16, FS_CardinalityType DEF Finalize, At
  <2>2. FinalExit(p) \in Exits /\ FinalStatus(p) \in Statuses
      BY DEF FinalExit, FinalStatus, Exits, Statuses
  <2>3. ProcsGood
      BY <1>16, <2>2, ExitGood DEF Finalize, Exits
  <2>4. row' \in [Scans -> RowSet]
    <3> DEFINE r == [row[c] EXCEPT !.status = FinalStatus(p),
                                   !.total = Cardinality(proc[p].mem)]
    <3>1. r \in RowSet
        BY <2>1, <2>2, RowUpdate
    <3>2. row' = [row EXCEPT ![c] = r] \/ row' = row
        BY <1>16 DEF Finalize
    <3> QED
        BY <3>1, <3>2
  <2>5. /\ stored' \in [Scans -> SUBSET Findings]
        /\ \A d \in Scans : IsFiniteSet(stored'[d])
      BY <1>12, <1>16, <2>1 DEF Finalize
  <2>6. dismissed' \in [Scans -> SUBSET Keys]
    <3>1. proc[p].dropped \in SUBSET Keys
        BY <1>1 DEF ProcSet
    <3>2. dismissed[c] \cup proc[p].dropped \in SUBSET Keys
        BY <2>1, <3>1
    <3>3. \/ dismissed' = [dismissed EXCEPT ![c] = dismissed[c] \cup proc[p].dropped]
          \/ dismissed' = dismissed
        BY <1>16 DEF Finalize
    <3> QED
        BY <3>2, <3>3
  <2> QED
      BY <1>16, <2>3, <2>4, <2>5, <2>6 DEF Finalize
<1>17. CASE DeleteFindings(p)
  <2>1. ProcsGood
      BY <1>17, GotoGood DEF DeleteFindings, At, Places
  <2>2. /\ stored' \in [Scans -> SUBSET Findings]
        /\ \A d \in Scans : IsFiniteSet(stored'[d])
      BY <1>2, <1>17, FS_EmptySet DEF DeleteFindings, At
  <2> QED
      BY <1>17, <2>1, <2>2 DEF DeleteFindings
<1>18. CASE DeleteRow(p)
  <2>1. ProcsGood
      BY <1>18, ExitGood DEF DeleteRow, Exits
  <2>2. row' \in [Scans -> RowSet]
    <3>1. NoRow("gone") \in RowSet
        BY DEF NoRow, RowSet, Statuses
    <3> QED
        BY <1>18, <3>1 DEF DeleteRow
  <2> QED
      BY <1>18, <2>1, <2>2 DEF DeleteRow
<1> QED
    BY <1>3, <1>4, <1>5, <1>6, <1>7, <1>8, <1>9, <1>10, <1>11, <1>13, <1>14,
       <1>15, <1>16, <1>17, <1>18 DEF Step

LEMMA TypeInvNext == TypeInv /\ [Next]_vars => TypeInv'
<1> SUFFICES ASSUME TypeInv, [Next]_vars PROVE TypeInv'
    OBVIOUS
<1>1. CASE UNCHANGED vars
    BY <1>1 DEF vars, TypeInv, TypeOK, GoodProc
<1>2. ASSUME NEW p \in Procs, Abort(p) PROVE TypeInv'
    BY <1>2, ExitGood DEF Abort, Fault, Exits, TypeInv, TypeOK
<1> QED
    BY <1>1, <1>2, TypeInvStart, TypeInvStep DEF Next

\* Every variable keeps its type, the findings of a scan stay finite and the
\* total in its row is a number, however many invocations overlap.
THEOREM TypeCorrect == Spec => []TypeOK
<1>1. Spec => []TypeInv
    BY TypeInvInit, TypeInvNext, PTL DEF Spec
<1>2. TypeInv => TypeOK
    BY DEF TypeInv
<1> QED
    BY <1>1, <1>2, PTL

-----------------------------------------------------------------------------
(* Invocations that do not overlap on a scan *)

\* Where a process holds in memory all findings of its scan; in "finalize"
\* an agent phase may have dropped some.
Holding == {"mark_running", "plan", "scanning", "agent", "finalize"}
ScanningPlaces == Holding \cup {"read_checkpoints", "read_findings"}
DeletingPlaces == {"delete_findings", "delete_row"}
Held(p) ==
    KeysOf(proc[p].mem)
        \cup (IF At(p, "finalize") THEN proc[p].dropped ELSE {})

\* A scan without a row has no children, and nothing a checkpoint stands for
\* is lost.
ScanOK(c) ==
    /\ ~ Alive(c) => ckpt[c] = {} /\ stored[c] = {}
    /\ \A s \in ckpt[c] : given[c][s] \subseteq KeysOf(stored[c]) \cup dismissed[c]

\* A scan that is being worked on is neither completed nor gone; a process
\* about to overwrite its findings holds what its checkpoints stand for; one
\* that deletes it has removed the checkpoints.
ProcOK(p) ==
    LET c == proc[p].scan
    IN  /\ proc[p].pc \in ScanningPlaces => row[c].status \in {"running", "failed"}
        /\ proc[p].pc \in Holding =>
               \A s \in ckpt[c] : given[c][s] \subseteq Held(p) \cup dismissed[c]
        /\ proc[p].pc \in DeletingPlaces => Alive(c) /\ ckpt[c] = {}

\* At most one process works on a scan.
Exclusive ==
    \A p, q \in Procs : proc[p].scan = proc[q].scan /\ ~ At(p, "free") => p = q

SequentialInv ==
    /\ TypeInv
    /\ Exclusive
    /\ \A c \in Scans : ScanOK(c)
    /\ \A p \in Procs : ProcOK(p)

LEMMA SequentialInvInit == Init => SequentialInv
<1> SUFFICES ASSUME Init PROVE SequentialInv
    OBVIOUS
<1>1. \A p \in Procs : proc[p].pc = "free"
    BY DEF Init, Free
<1>2. Exclusive /\ \A p \in Procs : ProcOK(p)
    BY <1>1 DEF Exclusive, At, ProcOK, ScanningPlaces, Holding, DeletingPlaces
<1>3. \A c \in Scans : ScanOK(c)
    BY DEF Init, ScanOK
<1> QED
    BY <1>2, <1>3, TypeInvInit DEF SequentialInv

\* Who works on a scan that nobody may join is alone there.
LEMMA Alone ==
    ASSUME SequentialInv, Overlap = {}, NEW c \in Scans,
           row[c].status = "unborn" \/ MayResume(c) \/ MayDelete(c)
    PROVE  \A q \in Procs : proc[q].scan # c
<1>1. CASE row[c].status = "unborn"
  <2> SUFFICES ASSUME NEW q \in Procs, proc[q].scan = c PROVE FALSE
      OBVIOUS
  <2>1. ProcOK(q) /\ GoodProc(proc[q])
      BY DEF SequentialInv, TypeInv
  <2>2. proc[q].pc \in ScanningPlaces \cup DeletingPlaces
      BY <2>1, ScansAssumption
      DEF GoodProc, ProcSet, Places, ScanningPlaces, Holding, DeletingPlaces
  <2> QED
      BY <1>1, <2>1, <2>2 DEF ProcOK, Alive
<1>2. CASE MayResume(c) \/ MayDelete(c)
    BY <1>2 DEF MayResume, MayDelete, Working
<1> QED
    BY <1>1, <1>2

\* A step of p on scan c, where no other process is, can only disturb what
\* the invariant says of p and of c.
LEMMA Locality ==
    ASSUME SequentialInv, TypeInv', NEW p \in Procs, NEW c \in Scans,
           proc'[p].scan \in {c, NoScan},
           \A q \in Procs \ {p} : proc'[q] = proc[q] /\ proc[q].scan # c,
           \A d \in Scans \ {c} :
               /\ row'[d] = row[d] /\ ckpt'[d] = ckpt[d] /\ stored'[d] = stored[d]
               /\ given'[d] = given[d] /\ dismissed'[d] = dismissed[d],
           ScanOK(c)', ProcOK(p)'
    PROVE  SequentialInv'
<1>1. \A q \in Procs : proc'[q].pc = "free" <=> proc'[q].scan = NoScan
    BY DEF TypeInv, GoodProc
<1>2. Exclusive'
    BY <1>1, ScansAssumption DEF SequentialInv, Exclusive, At
<1>3. ASSUME NEW d \in Scans PROVE ScanOK(d)'
    BY DEF SequentialInv, ScanOK, Alive
<1>4. ASSUME NEW q \in Procs PROVE ProcOK(q)'
  <2>1. CASE q = p
      BY <2>1
  <2>2. CASE q # p /\ proc[q].pc = "free"
      BY <2>2 DEF ProcOK, ScanningPlaces, Holding, DeletingPlaces
  <2>3. CASE q # p /\ proc[q].pc # "free"
    <3>1. proc'[q] = proc[q] /\ proc[q].scan \in Scans \ {c} /\ ProcOK(q)
        BY <2>3 DEF SequentialInv, TypeInv, GoodProc, ProcSet
    <3> QED
        BY <3>1 DEF ProcOK, Held, At, Alive
  <2> QED
      BY <2>1, <2>2, <2>3
<1> QED
    BY <1>2, <1>3, <1>4 DEF SequentialInv

LEMMA KeysOfUnion ==
    ASSUME NEW a, NEW b PROVE KeysOf(a \cup b) = KeysOf(a) \cup KeysOf(b)
    BY DEF KeysOf

\* A process that is not in a free slot has its scan to itself.
LEMMA OwnsItsScan ==
    ASSUME SequentialInv, NEW p \in Procs, ~ At(p, "free")
    PROVE  /\ proc[p].scan \in Scans
           /\ \A q \in Procs \ {p} : proc[q].scan # proc[p].scan
BY DEF SequentialInv, TypeInv, GoodProc, ProcSet, Exclusive, At

\* A step that leaves the database alone.
LEMMA Privately ==
    ASSUME SequentialInv, TypeInv', NEW p \in Procs, ~ At(p, "free"), NEW x,
           proc' = [proc EXCEPT ![p] = x], x.scan \in {proc[p].scan, NoScan},
           UNCHANGED <<row, ckpt, stored, given, dismissed>>, ProcOK(p)'
    PROVE  SequentialInv'
<1>1. PICK c \in Scans :
          c = proc[p].scan /\ \A q \in Procs \ {p} : proc[q].scan # c
    BY OwnsItsScan
<1>2. proc'[p] = x /\ \A q \in Procs \ {p} : proc'[q] = proc[q]
    BY DEF SequentialInv, TypeInv, TypeOK
<1>3. ScanOK(c)'
    BY DEF SequentialInv, ScanOK, Alive
<1> QED
    BY <1>1, <1>2, <1>3, Locality

\* The process ends and leaves the database alone.
LEMMA Leaves ==
    ASSUME SequentialInv, TypeInv', NEW p \in Procs, ~ At(p, "free"), NEW code,
           Exit(p, code), UNCHANGED <<row, ckpt, stored, given, dismissed>>
    PROVE  SequentialInv'
<1>1. Free(code).scan = NoScan /\ Free(code).pc = "free"
    BY DEF Free
<1>2. proc' = [proc EXCEPT ![p] = Free(code)] /\ proc'[p] = Free(code)
    BY DEF Exit, SequentialInv, TypeInv, TypeOK
<1>3. ProcOK(p)'
    BY <1>1, <1>2 DEF ProcOK, ScanningPlaces, Holding, DeletingPlaces
<1> QED
    BY <1>1, <1>2, <1>3, Privately

LEMMA SequentialInvStart ==
    ASSUME SequentialInv, TypeInv', Overlap = {}, NEW p \in Procs, Start(p)
    PROVE  SequentialInv'
<1>1. PICK c \in Scans :
          \/ \E list \in Lists, provider \in Providers :
                 StartScan(p, c, list, provider)
          \/ \E dry \in BOOLEAN : ResumeOpen(p, c, dry)
          \/ DeleteCheckpoints(p, c)
    BY DEF Start
<1>2. \A q \in Procs : proc[q].scan # c
    BY <1>1, Alone DEF StartScan, ResumeOpen, DeleteCheckpoints
<1>3. ScanOK(c)
    BY DEF SequentialInv
<1> USE DEF TypeInv, TypeOK
<1>4. ASSUME NEW list \in Lists, NEW provider \in Providers,
             StartScan(p, c, list, provider)
      PROVE  SequentialInv'
  <2>1. proc'[p].scan = c /\ proc'[p].pc = "scanning" /\ row'[c].status = "running"
      BY <1>4 DEF StartScan, Free, SequentialInv
  <2>2. ckpt'[c] = {}
      BY <1>3, <1>4 DEF StartScan, ScanOK, Alive
  <2>3. ScanOK(c)' /\ ProcOK(p)'
      BY <2>1, <2>2 DEF ScanOK, Alive, ProcOK, DeletingPlaces
  <2> QED
      BY <1>2, <1>4, <2>1, <2>3, Locality DEF StartScan, SequentialInv
<1>5. ASSUME NEW dry \in BOOLEAN, ResumeOpen(p, c, dry) PROVE SequentialInv'
  <2>1. proc'[p].scan = c /\ proc'[p].pc = "read_checkpoints"
      BY <1>5 DEF ResumeOpen, Free, SequentialInv
  <2>2. row'[c].status \in {"running", "failed"}
      BY <1>5 DEF ResumeOpen, Resumable
  <2>3. ScanOK(c)'
      BY <1>3, <1>5 DEF ResumeOpen, ScanOK, Alive
  <2>4. ProcOK(p)'
      BY <2>1, <2>2 DEF ProcOK, DeletingPlaces, Holding
  <2> QED
      BY <1>2, <1>5, <2>1, <2>3, <2>4, Locality DEF ResumeOpen, SequentialInv
<1>6. ASSUME DeleteCheckpoints(p, c) PROVE SequentialInv'
  <2>1. proc'[p].scan = c /\ proc'[p].pc = "delete_findings"
      BY <1>6 DEF DeleteCheckpoints, Free, SequentialInv
  <2>2. ckpt'[c] = {} /\ Alive(c)'
      BY <1>6 DEF DeleteCheckpoints, SequentialInv, Alive
  <2>3. ScanOK(c)' /\ ProcOK(p)'
      BY <2>1, <2>2 DEF ScanOK, ProcOK, ScanningPlaces, Holding
  <2> QED
      BY <1>2, <1>6, <2>1, <2>3, Locality DEF DeleteCheckpoints, SequentialInv
<1> QED
    BY <1>1, <1>4, <1>5, <1>6

LEMMA SequentialInvStep ==
    ASSUME SequentialInv, TypeInv', NEW p \in Procs, Step(p)
    PROVE  SequentialInv'
<1>1. ~ At(p, "free")
    BY DEF Step, At, ResumeReadCheckpoints, ResumeReadFindings, ResumeMarkRunning,
           ResumePlan, SkipScanner, ScannerSucceeds, CheckpointRejected,
           ScannerFails, ScannersDone, InList, NoAgent, AgentFails,
           AgentReplaces, Finalize, DeleteFindings, DeleteRow
<1>2. PICK c \in Scans :
          c = proc[p].scan /\ \A q \in Procs \ {p} : proc[q].scan # c
    BY <1>1, OwnsItsScan
<1>3. /\ proc \in [Procs -> ProcSet] /\ proc[p] \in ProcSet
      /\ ProcOK(p) /\ ScanOK(c)
    BY DEF SequentialInv, TypeInv, TypeOK
<1>4. /\ row \in [Scans -> RowSet] /\ ckpt \in [Scans -> SUBSET Scanners]
      /\ stored \in [Scans -> SUBSET Findings]
      /\ given \in [Scans -> [Scanners -> SUBSET Keys]]
      /\ dismissed \in [Scans -> SUBSET Keys]
    BY DEF SequentialInv, TypeInv, TypeOK
<1>5. CASE ResumeReadCheckpoints(p)
  <2> DEFINE x == [proc[p] EXCEPT !.pc = "read_findings", !.skip = ckpt[c]]
  <2>1. x.scan = c /\ x.pc = "read_findings"
      BY <1>2, <1>3 DEF ProcSet
  <2>2. proc' = [proc EXCEPT ![p] = x] /\ proc'[p] = x
      BY <1>2, <1>3, <1>5 DEF ResumeReadCheckpoints
  <2>3. ProcOK(p)'
      BY <1>2, <1>3, <1>5, <2>1, <2>2 DEF ResumeReadCheckpoints, ProcOK, At,
             ScanningPlaces, Holding, DeletingPlaces
  <2> QED
      BY <1>1, <1>2, <1>5, <2>1, <2>2, <2>3, Privately DEF ResumeReadCheckpoints
<1>6. CASE ResumeReadFindings(p)
  <2> DEFINE x == [proc[p] EXCEPT !.pc = "mark_running", !.mem = stored[c],
                                  !.loaded = stored[c]]
  <2>1. x.scan = c /\ x.pc = "mark_running" /\ x.mem = stored[c]
      BY <1>2, <1>3 DEF ProcSet
  <2>2. proc' = [proc EXCEPT ![p] = x] /\ proc'[p] = x
      BY <1>2, <1>3, <1>6 DEF ResumeReadFindings
  <2>3. Held(p)' = KeysOf(stored[c])
      BY <2>1, <2>2 DEF Held, At, KeysOf
  <2>4. ProcOK(p)'
      BY <1>2, <1>3, <1>6, <2>1, <2>2, <2>3 DEF ResumeReadFindings, ProcOK,
             ScanOK, At, ScanningPlaces, Holding, DeletingPlaces
  <2> QED
      BY <1>1, <1>2, <1>6, <2>1, <2>2, <2>4, Privately DEF ResumeReadFindings
<1>7. CASE ResumeMarkRunning(p)
  <2>1. Alive(c)
      BY <1>2, <1>3, <1>7 DEF ResumeMarkRunning, At, ProcOK, Alive,
             ScanningPlaces, Holding
  <2> DEFINE x == [proc[p] EXCEPT !.pc = "plan"]
  <2>2. x.scan = c /\ x.pc = "plan" /\ x.mem = proc[p].mem
      BY <1>2, <1>3 DEF ProcSet
  <2>3. proc' = [proc EXCEPT ![p] = x] /\ proc'[p] = x
      BY <1>2, <1>3, <1>7, <2>1 DEF ResumeMarkRunning, Goto
  <2>4. /\ row' = [row EXCEPT ![c] = [row[c] EXCEPT !.status = "running"]]
        /\ row'[c].status = "running"
      BY <1>2, <1>4, <1>7, <2>1 DEF ResumeMarkRunning, RowSet
  <2>5. Held(p)' = Held(p)
      BY <1>7, <2>2, <2>3 DEF ResumeMarkRunning, Held, At
  <2>6. ScanOK(c)'
      BY <1>3, <1>7, <2>4 DEF ResumeMarkRunning, ScanOK, Alive
  <2>7. ProcOK(p)'
      BY <1>2, <1>3, <1>7, <2>2, <2>3, <2>4, <2>5 DEF ResumeMarkRunning, ProcOK, At,
             ScanningPlaces, Holding, DeletingPlaces
  <2> QED
      BY <1>2, <1>7, <2>2, <2>3, <2>4, <2>6, <2>7, Locality DEF ResumeMarkRunning
<1>8. CASE ResumePlan(p)
  <2>1. CASE proc[p].dry
      BY <1>1, <1>8, <2>1, Leaves DEF ResumePlan
  <2>2. CASE ~ proc[p].dry
    <3> DEFINE x == [proc[p] EXCEPT !.pc = "scanning"]
    <3>1. x.scan = c /\ x.pc = "scanning" /\ x.mem = proc[p].mem
        BY <1>2, <1>3 DEF ProcSet
    <3>2. proc' = [proc EXCEPT ![p] = x] /\ proc'[p] = x
        BY <1>3, <1>8, <2>2 DEF ResumePlan, Goto
    <3>3. Held(p)' = Held(p)
        BY <1>8, <3>1, <3>2 DEF ResumePlan, Held, At
    <3>4. ProcOK(p)'
        BY <1>2, <1>3, <1>8, <3>1, <3>2, <3>3 DEF ResumePlan, ProcOK, At,
               ScanningPlaces, Holding, DeletingPlaces
    <3> QED
        BY <1>1, <1>2, <1>8, <3>1, <3>2, <3>4, Privately DEF ResumePlan
  <2> QED
      BY <2>1, <2>2
<1>9. CASE SkipScanner(p)
  <2> DEFINE x == [proc[p] EXCEPT !.next = @ + 1, !.ok = TRUE]
  <2>1. x.scan = c /\ x.pc = "scanning" /\ x.mem = proc[p].mem
      BY <1>2, <1>3, <1>9 DEF ProcSet, SkipScanner, InList, At
  <2>2. proc' = [proc EXCEPT ![p] = x] /\ proc'[p] = x
      BY <1>3, <1>9 DEF SkipScanner
  <2>3. Held(p)' = Held(p)
      BY <1>9, <2>1, <2>2 DEF SkipScanner, InList, Held, At
  <2>4. ProcOK(p)'
      BY <1>2, <1>3, <1>9, <2>1, <2>2, <2>3 DEF SkipScanner, InList, ProcOK, At,
             ScanningPlaces, Holding, DeletingPlaces
  <2> QED
      BY <1>1, <1>2, <1>9, <2>1, <2>2, <2>4, Privately DEF SkipScanner
<1>10. ASSUME NEW found \in SUBSET Keys, ScannerSucceeds(p, found)
       PROVE  SequentialInv'
  <2> DEFINE new == MintedBy(FreshRun, found)
  <2> DEFINE x == [proc[p] EXCEPT !.next = @ + 1, !.ok = TRUE, !.mem = @ \cup new]
  <2>1. PICK s \in Scanners : s = Scanner(p)
      BY <1>3, <1>10 DEF ScannerSucceeds, InList, Scanner, ProcSet
  <2>2. x.scan = c /\ x.pc = "scanning" /\ x.mem = proc[p].mem \cup new
      BY <1>2, <1>3, <1>10 DEF ProcSet, ScannerSucceeds, InList, At
  <2>3. proc' = [proc EXCEPT ![p] = x] /\ proc'[p] = x
      BY <1>3, <1>10 DEF ScannerSucceeds
  <2>4. /\ stored' = [stored EXCEPT ![c] = stored[c] \cup new]
        /\ ckpt' = [ckpt EXCEPT ![c] = ckpt[c] \cup {s}]
        /\ given' = [given EXCEPT ![c] = [given[c] EXCEPT ![s] = found]]
        /\ row' = row /\ dismissed' = dismissed /\ Alive(c)
      BY <1>2, <1>10, <2>1 DEF ScannerSucceeds
  <2>5. KeysOf(new) = found
      BY MintedByFacts
  <2>6. ASSUME NEW t \in ckpt'[c]
        PROVE  given'[c][t] = found \/ (t \in ckpt[c] /\ given'[c][t] = given[c][t])
      BY <1>4, <2>4
  <2>7. ScanOK(c)'
    <3>1. KeysOf(stored'[c]) = KeysOf(stored[c]) \cup found
        BY <1>4, <2>4, <2>5, KeysOfUnion
    <3>2. Alive(c)'
        BY <2>4 DEF Alive
    <3>3. ASSUME NEW t \in ckpt'[c]
          PROVE  given'[c][t] \subseteq KeysOf(stored'[c]) \cup dismissed'[c]
        BY <1>3, <2>4, <2>6, <3>1 DEF ScanOK
    <3> HIDE DEF new, x
    <3> QED
        BY <3>2, <3>3 DEF ScanOK, KeysOf, Alive
  <2>8. ProcOK(p)'
    <3>1. Held(p) = KeysOf(proc[p].mem) /\ Held(p)' = KeysOf(proc[p].mem) \cup found
      <4>1. proc[p].pc = "scanning" /\ KeysOf(x.mem) = KeysOf(proc[p].mem) \cup found
          BY <1>10, <2>2, <2>5, KeysOfUnion DEF ScannerSucceeds, InList, At
      <4> QED
          BY <2>2, <2>3, <4>1 DEF Held, At, KeysOf
    <3>2. proc[p].pc = "scanning"
        BY <1>10 DEF ScannerSucceeds, InList, At
    <3>3. /\ row[c].status \in {"running", "failed"}
          /\ \A t \in ckpt[c] : given[c][t] \subseteq Held(p) \cup dismissed[c]
        BY <1>2, <1>3, <3>2 DEF ProcOK, ScanningPlaces, Holding
    <3>4. \A t \in ckpt'[c] : given'[c][t] \subseteq Held(p)' \cup dismissed'[c]
        BY <2>4, <2>6, <3>1, <3>3
    <3> HIDE DEF new, x
    <3> QED
        BY <2>2, <2>3, <2>4, <3>3, <3>4
        DEF ProcOK, ScanningPlaces, Holding, DeletingPlaces
  <2> HIDE DEF new, x
  <2>9. /\ \A q \in Procs \ {p} : proc'[q] = proc[q] /\ proc[q].scan # c
        /\ \A d \in Scans \ {c} :
              /\ row'[d] = row[d] /\ ckpt'[d] = ckpt[d] /\ stored'[d] = stored[d]
              /\ given'[d] = given[d] /\ dismissed'[d] = dismissed[d]
      BY <1>2, <1>3, <1>4, <2>3, <2>4
  <2> QED
      BY <2>2, <2>3, <2>7, <2>8, <2>9, Locality
<1>11. CASE CheckpointRejected(p)
    BY <1>1, <1>11, Leaves DEF CheckpointRejected
<1>12. CASE ScannerFails(p)
  <2> DEFINE x == [proc[p] EXCEPT !.next = @ + 1, !.fatal = TRUE]
  <2>1. x.scan = c /\ x.pc = "scanning" /\ x.mem = proc[p].mem
      BY <1>2, <1>3, <1>12 DEF ProcSet, ScannerFails, InList, At
  <2>2. proc' = [proc EXCEPT ![p] = x] /\ proc'[p] = x
      BY <1>3, <1>12 DEF ScannerFails
  <2>3. Held(p)' = Held(p)
      BY <1>12, <2>1, <2>2 DEF ScannerFails, InList, Held, At
  <2>4. ProcOK(p)'
      BY <1>2, <1>3, <1>12, <2>1, <2>2, <2>3 DEF ScannerFails, InList, ProcOK, At,
             ScanningPlaces, Holding, DeletingPlaces
  <2> QED
      BY <1>1, <1>2, <1>12, <2>1, <2>2, <2>4, Privately DEF ScannerFails
<1>13. CASE ScannersDone(p)
  <2>1. CASE proc[p].fatal /\ ~ proc[p].ok
      BY <1>1, <1>13, <2>1, Leaves DEF ScannersDone
  <2>2. CASE ~ (proc[p].fatal /\ ~ proc[p].ok)
    <3> DEFINE x == [proc[p] EXCEPT !.pc = "agent"]
    <3>1. x.scan = c /\ x.pc = "agent" /\ x.mem = proc[p].mem
        BY <1>2, <1>3 DEF ProcSet
    <3>2. proc' = [proc EXCEPT ![p] = x] /\ proc'[p] = x
        BY <1>3, <1>13, <2>2 DEF ScannersDone, Goto
    <3>3. Held(p)' = Held(p)
        BY <1>13, <3>1, <3>2 DEF ScannersDone, Held, At
    <3>4. ProcOK(p)'
        BY <1>2, <1>3, <1>13, <3>1, <3>2, <3>3 DEF ScannersDone, ProcOK, At,
               ScanningPlaces, Holding, DeletingPlaces
    <3> QED
        BY <1>1, <1>2, <1>13, <3>1, <3>2, <3>4, Privately DEF ScannersDone
  <2> QED
      BY <2>1, <2>2
\* The agent phase: what it leaves out is recorded as dropped.
<1>14. ASSUME At(p, "agent"), NEW all, NEW dropped, NEW soft,
              Settle(p, all, dropped, soft),
              KeysOf(proc[p].mem) \subseteq KeysOf(all) \cup dropped,
              UNCHANGED <<row, ckpt, stored, given, dismissed>>
       PROVE  SequentialInv'
  <2>1. PICK kept \in SUBSET all :
            /\ KeysOf(kept) = KeysOf(all)
            /\ proc' = [proc EXCEPT ![p].pc = "finalize", ![p].mem = kept,
                                    ![p].dropped = dropped, ![p].soft = soft]
      BY <1>14 DEF Settle, IsDeduped
  <2> DEFINE x == [proc[p] EXCEPT !.pc = "finalize", !.mem = kept,
                                  !.dropped = dropped, !.soft = soft]
  <2>2. /\ x.scan = c /\ x.pc = "finalize" /\ x.mem = kept /\ x.dropped = dropped
      BY <1>2, <1>3 DEF ProcSet
  <2>3. proc' = [proc EXCEPT ![p] = x] /\ proc'[p] = x
      BY <1>3, <2>1
  <2>4. Held(p) = KeysOf(proc[p].mem) /\ Held(p)' = KeysOf(all) \cup dropped
      BY <1>14, <2>1, <2>2, <2>3 DEF Held, At, KeysOf
  <2>5. /\ row[c].status \in {"running", "failed"}
        /\ \A t \in ckpt[c] : given[c][t] \subseteq Held(p) \cup dismissed[c]
      BY <1>2, <1>3, <1>14 DEF ProcOK, At, ScanningPlaces, Holding
  <2> HIDE DEF x
  <2>6. \A t \in ckpt[c] : given[c][t] \subseteq Held(p)' \cup dismissed[c]
      BY <1>14, <2>4, <2>5
  <2>7. ProcOK(p)'
      BY <1>14, <2>2, <2>3, <2>5, <2>6
      DEF ProcOK, ScanningPlaces, Holding, DeletingPlaces
  <2> QED
      BY <1>1, <1>2, <1>14, <2>2, <2>3, <2>7, Privately
<1>15. CASE NoAgent(p)
    BY <1>14, <1>15 DEF NoAgent
<1>16. CASE AgentFails(p)
    BY <1>14, <1>16 DEF AgentFails
<1>17. ASSUME NEW keep \in SUBSET proc[p].mem, NEW extra \in SUBSET AgentKeys,
              AgentReplaces(p, keep, extra)
       PROVE  SequentialInv'
  <2> DEFINE minted == MintedBy(FreshRun, extra)
  <2>1. KeysOf(proc[p].mem)
            \subseteq KeysOf(keep \cup minted) \cup (KeysOf(proc[p].mem) \ KeysOf(keep))
      BY KeysOfUnion
  <2> QED
      BY <1>14, <1>17, <2>1 DEF AgentReplaces
<1>18. CASE Finalize(p)
  <2>1. /\ row[c].status \in {"running", "failed"}
        /\ \A t \in ckpt[c] : given[c][t]
               \subseteq KeysOf(proc[p].mem) \cup proc[p].dropped \cup dismissed[c]
      BY <1>2, <1>3, <1>18
      DEF Finalize, At, ProcOK, Held, ScanningPlaces, Holding
  <2>2. Alive(c)
      BY <2>1 DEF Alive
  <2> DEFINE r == [row[c] EXCEPT !.status = FinalStatus(p),
                                 !.total = Cardinality(proc[p].mem)]
  <2>3. /\ stored' = [stored EXCEPT ![c] = proc[p].mem]
        /\ row' = [row EXCEPT ![c] = r]
        /\ dismissed' = [dismissed EXCEPT ![c] = dismissed[c] \cup proc[p].dropped]
        /\ proc' = [proc EXCEPT ![p] = Free(FinalExit(p))]
        /\ ckpt' = ckpt /\ given' = given
      BY <1>2, <1>18, <2>2 DEF Finalize, Exit
  <2>4. row'[c].status \in {"completed", "failed"}
      BY <1>4, <2>3 DEF RowSet, FinalStatus
  <2>5. proc'[p].pc = "free" /\ proc'[p].scan = NoScan
      BY <1>3, <2>3 DEF Free
  <2> HIDE DEF r
  <2>6. ScanOK(c)'
    <3>1. stored'[c] = proc[p].mem /\ dismissed'[c] = dismissed[c] \cup proc[p].dropped
        BY <1>4, <2>3
    <3>2. \A t \in ckpt'[c] :
              given'[c][t] \subseteq KeysOf(stored'[c]) \cup dismissed'[c]
        BY <2>1, <2>3, <3>1
    <3> QED
        BY <2>4, <3>2 DEF ScanOK, Alive, KeysOf
  <2>7. ProcOK(p)'
      BY <2>5 DEF ProcOK, ScanningPlaces, Holding, DeletingPlaces
  <2>8. /\ \A q \in Procs \ {p} : proc'[q] = proc[q] /\ proc[q].scan # c
        /\ \A d \in Scans \ {c} :
              /\ row'[d] = row[d] /\ ckpt'[d] = ckpt[d] /\ stored'[d] = stored[d]
              /\ given'[d] = given[d] /\ dismissed'[d] = dismissed[d]
      BY <1>2, <1>3, <1>4, <2>3
  <2> QED
      BY <2>5, <2>6, <2>7, <2>8, Locality
<1>19. CASE DeleteFindings(p)
  <2>1. Alive(c) /\ ckpt[c] = {}
      BY <1>2, <1>3, <1>19 DEF DeleteFindings, At, ProcOK, DeletingPlaces
  <2> DEFINE x == [proc[p] EXCEPT !.pc = "delete_row"]
  <2>2. x.scan = c /\ x.pc = "delete_row"
      BY <1>2, <1>3 DEF ProcSet
  <2>3. proc' = [proc EXCEPT ![p] = x] /\ proc'[p] = x
      BY <1>3, <1>19 DEF DeleteFindings, Goto
  <2>4. ScanOK(c)' /\ ProcOK(p)'
      BY <1>19, <2>1, <2>2, <2>3 DEF DeleteFindings, ScanOK, ProcOK, Alive,
             ScanningPlaces, Holding
  <2> QED
      BY <1>2, <1>3, <1>4, <1>19, <2>2, <2>3, <2>4, Locality DEF DeleteFindings
<1>20. CASE DeleteRow(p)
  <2>1. CASE ckpt[c] = {} /\ stored[c] = {}
    <3>1. /\ row' = [row EXCEPT ![c] = NoRow("gone")]
          /\ proc' = [proc EXCEPT ![p] = Free("success")]
          /\ UNCHANGED <<ckpt, stored, given, dismissed>>
        BY <1>2, <1>20, <2>1 DEF DeleteRow, Exit
    <3>2. proc'[p].pc = "free" /\ proc'[p].scan = NoScan
        BY <1>3, <3>1 DEF Free
    <3>3. ScanOK(c)' /\ ProcOK(p)'
        BY <2>1, <3>1, <3>2
        DEF ScanOK, ProcOK, ScanningPlaces, Holding, DeletingPlaces
    <3> QED
        BY <1>2, <1>3, <1>4, <3>1, <3>2, <3>3, Locality
  <2>2. CASE ~ (ckpt[c] = {} /\ stored[c] = {})
      BY <1>1, <1>2, <1>20, <2>2, Leaves DEF DeleteRow
  <2> QED
      BY <2>1, <2>2
<1> QED
    BY <1>5, <1>6, <1>7, <1>8, <1>9, <1>10, <1>11, <1>12, <1>13, <1>15, <1>16,
       <1>17, <1>18, <1>19, <1>20 DEF Step

LEMMA SequentialInvNext ==
    ASSUME Overlap = {} PROVE SequentialInv /\ [Next]_vars => SequentialInv'
<1> SUFFICES ASSUME SequentialInv, [Next]_vars PROVE SequentialInv'
    OBVIOUS
<1>1. TypeInv'
    BY TypeInvNext DEF SequentialInv
<1>2. CASE UNCHANGED vars
    BY <1>1, <1>2 DEF vars, SequentialInv, Exclusive, At, ScanOK, ProcOK, Held,
           Alive
<1>3. ASSUME NEW p \in Procs, Abort(p) PROVE SequentialInv'
    BY <1>1, <1>3, Leaves DEF Abort
<1> QED
    BY <1>1, <1>2, <1>3, SequentialInvStart, SequentialInvStep DEF Next

\* When invocations do not overlap on a scan, no crash, failed scanner, failed
\* provider, resume or half-finished delete loses a finding that a checkpoint
\* makes later resumes skip.
THEOREM NothingLost == ASSUME Overlap = {} PROVE Spec => []NoFindingLost
<1>1. Spec => []SequentialInv
    BY SequentialInvInit, SequentialInvNext, PTL DEF Spec
<1>2. SequentialInv => NoFindingLost
    BY DEF SequentialInv, ScanOK, NoFindingLost
<1> QED
    BY <1>1, <1>2, PTL

\* When invocations do not overlap on a scan, a completed scan stays as it is
\* until it is deleted.
THEOREM CompletedStays == ASSUME Overlap = {} PROVE Spec => CompletedIsFinal
<1> DEFINE Kept(c) ==
        row[c].status = "completed" => row'[c] = row[c] \/ row'[c].status = "gone"
<1>1. ASSUME SequentialInv, [Next]_vars, NEW c \in Scans PROVE Kept(c)
  <2>1. row \in [Scans -> RowSet]
      BY <1>1 DEF SequentialInv, TypeInv, TypeOK
  <2>2. CASE row' = row
      BY <2>2
  <2>3. ASSUME NEW p \in Procs, NEW d \in Scans, NEW list, NEW provider,
               StartScan(p, d, list, provider)
        PROVE  Kept(c)
      BY <2>1, <2>3 DEF StartScan
  <2>4. ASSUME NEW p \in Procs, row' # row,
               ResumeMarkRunning(p) \/ Finalize(p) \/ DeleteRow(p)
        PROVE  Kept(c)
    <3>1. ProcOK(p)
        BY <1>1 DEF SequentialInv
    <3>2. CASE ResumeMarkRunning(p)
        BY <2>1, <2>4, <3>1, <3>2
        DEF ResumeMarkRunning, At, ProcOK, ScanningPlaces, Holding
    <3>3. CASE Finalize(p)
        BY <2>1, <2>4, <3>1, <3>3
        DEF Finalize, At, ProcOK, ScanningPlaces, Holding
    <3>4. CASE DeleteRow(p)
        BY <2>1, <2>4, <3>4 DEF DeleteRow, NoRow
    <3> QED
        BY <2>4, <3>2, <3>3, <3>4
  <2>5. ASSUME NEW p \in Procs, Start(p), row' # row PROVE Kept(c)
      BY <2>3, <2>5 DEF Start, ResumeOpen, DeleteCheckpoints
  <2>6. ASSUME NEW p \in Procs, Step(p), row' # row PROVE Kept(c)
      BY <2>4, <2>6
      DEF Step, ResumeReadCheckpoints, ResumeReadFindings, ResumePlan, SkipScanner,
          ScannerSucceeds, CheckpointRejected, ScannerFails, ScannersDone,
          NoAgent, AgentFails, AgentReplaces, DeleteFindings
  <2> QED
      BY <1>1, <2>2, <2>5, <2>6 DEF Next, Abort, vars
<1>2. SequentialInv /\ [Next]_vars
          => [\A c \in Scans : Kept(c)]_vars
    BY <1>1
<1>3. Spec => []SequentialInv
    BY SequentialInvInit, SequentialInvNext, PTL DEF Spec
<1> QED
    BY <1>2, <1>3, PTL DEF Spec, CompletedIsFinal

-----------------------------------------------------------------------------
(* Whatever overlaps *)

\* Deletes and live scans may race as they like: the foreign keys and the
\* children-first order never leave a checkpoint or a finding without its row.
THEOREM ChildrenHaveRows == Spec => []NoOrphans
<1> DEFINE Inv == TypeInv /\ NoOrphans
<1>1. Init => Inv
    BY TypeInvInit DEF Init, NoOrphans
<1>2. Inv /\ [Next]_vars => Inv'
  <2> SUFFICES ASSUME Inv, [Next]_vars PROVE NoOrphans'
      BY TypeInvNext
  <2>1. /\ row \in [Scans -> RowSet] /\ ckpt \in [Scans -> SUBSET Scanners]
        /\ stored \in [Scans -> SUBSET Findings]
        /\ \A p \in Procs : GoodProc(proc[p])
      BY DEF TypeInv, TypeOK
  <2>2. CASE UNCHANGED <<row, ckpt, stored>>
      BY <2>2 DEF NoOrphans, Alive
  <2>3. ASSUME NEW p \in Procs, Start(p) PROVE NoOrphans'
    <3>1. ASSUME NEW c \in Scans, NEW list, NEW provider,
                 StartScan(p, c, list, provider)
          PROVE  NoOrphans'
        BY <2>1, <3>1 DEF StartScan, NoOrphans, Alive
    <3>2. ASSUME NEW c \in Scans, DeleteCheckpoints(p, c) PROVE NoOrphans'
        BY <2>1, <3>2 DEF DeleteCheckpoints, NoOrphans, Alive
    <3> QED
        BY <2>2, <2>3, <3>1, <3>2 DEF Start, ResumeOpen
  <2>4. ASSUME NEW p \in Procs, Step(p) PROVE NoOrphans'
    <3>1. CASE ResumeMarkRunning(p)
      <4>1. ASSUME NEW c \in Scans PROVE Alive(c)' <=> Alive(c)
          BY <2>1, <3>1 DEF ResumeMarkRunning, Alive, RowSet
      <4> QED
          BY <2>1, <3>1, <4>1 DEF ResumeMarkRunning, NoOrphans
    <3>2. ASSUME NEW found, ScannerSucceeds(p, found) PROVE NoOrphans'
        BY <2>1, <3>2 DEF ScannerSucceeds, NoOrphans, Alive
    <3>3. CASE Finalize(p)
      <4>1. CASE Alive(proc[p].scan)
        <5> DEFINE d == proc[p].scan
        <5> DEFINE r == [row[d] EXCEPT !.status = FinalStatus(p),
                                       !.total = Cardinality(proc[p].mem)]
        <5>1. /\ row' = [row EXCEPT ![d] = r] /\ ckpt' = ckpt
              /\ stored' = [stored EXCEPT ![d] = proc[p].mem]
            BY <3>3, <4>1 DEF Finalize
        <5>2. d \in Scans => r.status \in {"completed", "failed"}
            BY <2>1 DEF RowSet, FinalStatus
        <5> HIDE DEF r, d
        <5>3. ASSUME NEW c \in Scans PROVE Alive(c)' <=> Alive(c)
            BY <2>1, <4>1, <5>1, <5>2 DEF Alive, d
        <5> QED
            BY <2>1, <4>1, <5>1, <5>3 DEF NoOrphans, d
      <4>2. CASE ~ Alive(proc[p].scan)
          BY <2>2, <3>3, <4>2 DEF Finalize
      <4> QED
          BY <4>1, <4>2
    <3>4. CASE DeleteFindings(p)
        BY <2>1, <3>4 DEF DeleteFindings, NoOrphans, Alive
    <3>5. CASE DeleteRow(p)
        BY <2>1, <2>2, <3>5 DEF DeleteRow, NoOrphans, Alive
    <3> QED
        BY <2>2, <2>4, <3>1, <3>2, <3>3, <3>4, <3>5
        DEF Step, ResumeReadCheckpoints, ResumeReadFindings, ResumePlan, SkipScanner,
            CheckpointRejected, ScannerFails, ScannersDone, NoAgent, AgentFails,
            AgentReplaces
  <2> QED
      BY <2>2, <2>3, <2>4 DEF Next, Abort, vars
<1>3. Inv => NoOrphans
    OBVIOUS
<1> QED
    BY <1>1, <1>2, <1>3, PTL DEF Spec
=============================================================================
