------------------------- MODULE ScanCoverageProofs -------------------------
(***************************************************************************)
(* What checkpoints are worth, for every number of processes, scans and    *)
(* scanners, while invocations overlap on a scan.  The argument follows a  *)
(* process through its frozen list: every scanner it has passed has a      *)
(* checkpoint, or is a recorded failure; and what checkpointed scanners    *)
(* reported is in the memory of whoever may overwrite the findings.  Both  *)
(* survive overlapping resumes, for they only add checkpoints, but not a   *)
(* delete that overlaps with a scan.                                       *)
(***************************************************************************)
EXTENDS ScanLifecycleProofs

\* Who deletes a scan is alone there.
Apart ==
    \A p, q \in Procs :
        proc[p].pc \in DeletingPlaces /\ proc[q].scan = proc[p].scan => p = q

\* A process works on a scan that has a row.
Based(p) == proc[p].pc # "free" => Alive(proc[p].scan)

\* The scanners passed so far: done now, done before, or failed.
Passed(p) ==
    \A i \in DOMAIN proc[p].list :
        i < proc[p].next =>
            proc[p].list[i] \in ckpt[proc[p].scan] \/ proc[p].fatal

Progress(p) ==
    LET c == proc[p].scan
    IN  proc[p].pc \in ScanningPlaces =>
            /\ proc[p].list = row[c].list
            /\ Len(proc[p].list) > 0
            /\ proc[p].skip \subseteq ckpt[c]
            /\ Passed(p)
            /\ proc[p].ok => ckpt[c] # {}
            /\ proc[p].pc \in {"agent", "finalize"} =>
                   /\ proc[p].next > Len(proc[p].list)
                   /\ proc[p].ok \/ ~ proc[p].fatal

CoverageInv ==
    /\ TypeInv
    /\ Apart
    /\ \A c \in Scans : Alive(c) => Len(row[c].list) > 0
    /\ \A p \in Procs : Based(p) /\ Progress(p)

LEMMA CoverageInvInit == Init => CoverageInv
<1> SUFFICES ASSUME Init PROVE CoverageInv
    OBVIOUS
<1>1. \A p \in Procs : proc[p].pc = "free"
    BY DEF Init, Free
<1>2. \A c \in Scans : ~ Alive(c)
    BY DEF Init, NoRow, Alive
<1> QED
    BY <1>1, <1>2, TypeInvInit DEF CoverageInv, Apart, Based, Progress,
        DeletingPlaces, ScanningPlaces, Holding

\* A step of p does not disturb the others when, wherever another process
\* works, checkpoints are only added and the row keeps its list.
LEMMA OthersProgress ==
    ASSUME CoverageInv, TypeInv', Apart', NEW p \in Procs,
           \A q \in Procs \ {p} : proc'[q] = proc[q],
           \A d \in Scans :
               (\E q \in Procs \ {p} : proc[q].scan = d) =>
                   /\ ckpt[d] \subseteq ckpt'[d]
                   /\ row'[d].list = row[d].list
                   /\ Alive(d) => Alive(d)',
           \A d \in Scans : Alive(d)' => Len(row'[d].list) > 0,
           Based(p)', Progress(p)'
    PROVE  CoverageInv'
<1>1. ASSUME NEW q \in Procs \ {p} PROVE Based(q)' /\ Progress(q)'
  <2>1. CASE proc[q].pc = "free"
      BY <2>1 DEF Based, Progress, ScanningPlaces, Holding
  <2>2. CASE proc[q].pc # "free"
    <3>1. PICK d \in Scans : d = proc[q].scan
        BY <2>2 DEF CoverageInv, TypeInv, GoodProc, ProcSet
    <3>2. /\ Based(q) /\ Progress(q) /\ proc'[q] = proc[q]
          /\ ckpt[d] \subseteq ckpt'[d] /\ row'[d].list = row[d].list
          /\ Alive(d) => Alive(d)'
        BY <3>1 DEF CoverageInv
    <3> QED
        BY <3>1, <3>2 DEF Based, Progress, Passed, Alive
  <2> QED
      BY <2>1, <2>2
<1> QED
    BY <1>1 DEF CoverageInv

\* A step of p, which stays where it is or leaves, that adds checkpoints at
\* most and keeps rows alive and their lists.
LEMMA Monotone ==
    ASSUME CoverageInv, TypeInv', NEW p \in Procs, NEW x,
           proc[p].pc \in ScanningPlaces,
           proc' = [proc EXCEPT ![p] = x],
           (x.pc \in ScanningPlaces /\ x.scan = proc[p].scan) \/ x.pc = "free",
           \A d \in Scans :
               /\ ckpt[d] \subseteq ckpt'[d]
               /\ row'[d].list = row[d].list
               /\ Alive(d) <=> Alive(d)',
           Progress(p)'
    PROVE  CoverageInv'
<1>1. /\ proc'[p] = x /\ \A q \in Procs \ {p} : proc'[q] = proc[q]
      /\ proc[p].scan \in Scans
    BY DEF CoverageInv, TypeInv, TypeOK, GoodProc, ProcSet, ScanningPlaces, Holding
<1>2. \A q \in Procs : GoodProc(proc'[q])
    BY DEF TypeInv
<1>3. Apart'
  <2> SUFFICES ASSUME NEW q \in Procs, NEW r \in Procs,
                      proc'[q].pc \in DeletingPlaces, proc'[r].scan = proc'[q].scan
               PROVE  q = r
      BY DEF Apart
  <2>1. q # p
      BY <1>1 DEF DeletingPlaces, ScanningPlaces, Holding
  <2>2. proc'[q].scan \in Scans
      BY <1>2 DEF GoodProc, ProcSet, DeletingPlaces
  <2>3. proc[r].scan = proc[q].scan
      BY <1>1, <1>2, <2>1, <2>2, ScansAssumption DEF GoodProc
  <2> QED
      BY <1>1, <2>1, <2>3 DEF CoverageInv, Apart
<1>4. Based(p)'
    BY <1>1 DEF CoverageInv, Based, Alive, ScanningPlaces, Holding
<1>5. \A d \in Scans : Alive(d)' => Len(row'[d].list) > 0
    BY DEF CoverageInv
<1> QED
    BY <1>1, <1>3, <1>4, <1>5, OthersProgress

\* Monotone for a step that touches neither rows nor checkpoints.
LEMMA Privately2 ==
    ASSUME CoverageInv, TypeInv', NEW p \in Procs, NEW x,
           proc[p].pc \in ScanningPlaces,
           proc' = [proc EXCEPT ![p] = x],
           (x.pc \in ScanningPlaces /\ x.scan = proc[p].scan) \/ x.pc = "free",
           UNCHANGED <<row, ckpt>>, Progress(p)'
    PROVE  CoverageInv'
<1>1. \A d \in Scans : Alive(d) <=> Alive(d)'
    BY DEF Alive
<1> QED
    BY <1>1, Monotone

\* A process that ends without touching rows and checkpoints.
LEMMA Leaves2 ==
    ASSUME CoverageInv, TypeInv', NEW p \in Procs, NEW code, Exit(p, code),
           UNCHANGED <<row, ckpt>>
    PROVE  CoverageInv'
<1>1. /\ proc'[p].pc = "free" /\ proc'[p].scan = NoScan
      /\ \A q \in Procs \ {p} : proc'[q] = proc[q]
    BY DEF Exit, Free, CoverageInv, TypeInv, TypeOK
<1>2. \A q \in Procs : GoodProc(proc[q]) /\ GoodProc(proc'[q])
    BY DEF CoverageInv, TypeInv
<1>3. Apart'
  <2> SUFFICES ASSUME NEW q \in Procs, NEW r \in Procs,
                      proc'[q].pc \in DeletingPlaces, proc'[r].scan = proc'[q].scan
               PROVE  q = r
      BY DEF Apart
  <2>1. q # p
      BY <1>1 DEF DeletingPlaces
  <2>2. proc'[q].scan # NoScan
      BY <1>2 DEF GoodProc, DeletingPlaces
  <2> QED
      BY <1>1, <2>1, <2>2 DEF CoverageInv, Apart
<1>4. Based(p)' /\ Progress(p)'
    BY <1>1 DEF Based, Progress, ScanningPlaces, Holding
<1>5. \A d \in Scans : (Alive(d) <=> Alive(d)') /\ row'[d].list = row[d].list
    BY DEF Alive
<1> QED
    BY <1>1, <1>3, <1>4, <1>5, OthersProgress DEF CoverageInv

LEMMA CoverageInvStart ==
    ASSUME CoverageInv, TypeInv', "delete" \notin Overlap,
           NEW p \in Procs, Start(p)
    PROVE  CoverageInv'
<1>1. PICK c \in Scans :
          \/ \E list \in Lists, provider \in Providers :
                 StartScan(p, c, list, provider)
          \/ \E dry \in BOOLEAN : ResumeOpen(p, c, dry)
          \/ DeleteCheckpoints(p, c)
    BY DEF Start
<1>2. /\ proc \in [Procs -> ProcSet] /\ row \in [Scans -> RowSet]
      /\ ckpt \in [Scans -> SUBSET Scanners]
      /\ \A q \in Procs : GoodProc(proc[q]) /\ GoodProc(proc'[q])
    BY DEF CoverageInv, TypeInv, TypeOK
\* p joins c, where nobody deletes; if it deletes, nobody is there.
<1>3. ASSUME proc'[p].scan = c, \A q \in Procs \ {p} : proc'[q] = proc[q],
             \A q \in Procs \ {p} : proc[q].scan = c =>
                 proc[q].pc \notin DeletingPlaces /\ proc'[p].pc \notin DeletingPlaces
      PROVE  Apart'
  <2> SUFFICES ASSUME NEW q \in Procs, NEW r \in Procs,
                      proc'[q].pc \in DeletingPlaces, proc'[r].scan = proc'[q].scan
               PROVE  q = r
      BY DEF Apart
  <2>1. CASE q # p /\ r # p
      BY <1>3, <2>1 DEF CoverageInv, Apart
  <2>2. CASE (q = p /\ r # p) \/ (q # p /\ r = p)
      BY <1>3, <2>2
  <2> QED
      BY <2>1, <2>2
<1>4. ASSUME NEW list \in Lists, NEW provider \in Providers,
             StartScan(p, c, list, provider)
      PROVE  CoverageInv'
  <2>1. \A q \in Procs : proc[q].scan # c
      BY <1>2, <1>4, ScansAssumption
      DEF StartScan, CoverageInv, Based, Alive, GoodProc
  <2>2. /\ proc'[p] = [Free("none") EXCEPT !.pc = "scanning", !.scan = c,
                                          !.provider = provider, !.list = list]
        /\ row' = [row EXCEPT ![c] = [status |-> "running", provider |-> provider,
                                      list |-> list, total |-> 0]]
        /\ ckpt' = ckpt /\ \A q \in Procs \ {p} : proc'[q] = proc[q]
      BY <1>2, <1>4 DEF StartScan
  <2>3. /\ proc'[p].scan = c /\ proc'[p].pc = "scanning" /\ proc'[p].list = list
        /\ proc'[p].next = 1 /\ proc'[p].skip = {} /\ proc'[p].ok = FALSE
        /\ row'[c].list = list /\ row'[c].status = "running"
        /\ \A d \in Scans \ {c} : row'[d] = row[d]
      BY <1>2, <2>2 DEF Free
  <2>4. list \in Seq(Scanners) /\ Len(list) > 0
      BY ListsAssumption
  <2>5. Apart'
      BY <1>3, <2>1, <2>2, <2>3
  <2>6. Based(p)' /\ Progress(p)'
      BY <2>3, <2>4 DEF Based, Alive, Progress, Passed
  <2>7. \A d \in Scans : Alive(d)' => Len(row'[d].list) > 0
      BY <2>3, <2>4 DEF CoverageInv, Alive
  <2>8. ASSUME NEW d \in Scans, \E q \in Procs \ {p} : proc[q].scan = d
        PROVE  /\ ckpt[d] \subseteq ckpt'[d] /\ row'[d].list = row[d].list
               /\ Alive(d) => Alive(d)'
    <3>1. d # c
        BY <2>1, <2>8
    <3> QED
        BY <2>2, <2>3, <3>1 DEF Alive
  <2> QED
      BY <2>2, <2>5, <2>6, <2>7, <2>8, OthersProgress
<1>5. ASSUME NEW dry \in BOOLEAN, ResumeOpen(p, c, dry) PROVE CoverageInv'
  <2>1. \A q \in Procs : proc[q].scan = c => proc[q].pc \notin DeletingPlaces
      BY <1>5 DEF ResumeOpen, MayResume, Deleting, Working, DeletingPlaces
  <2>2. /\ proc'[p] = [Free("none") EXCEPT !.pc = "read_checkpoints", !.scan = c,
                                          !.provider = row[c].provider,
                                          !.list = row[c].list, !.dry = dry]
        /\ row' = row /\ ckpt' = ckpt /\ \A q \in Procs \ {p} : proc'[q] = proc[q]
      BY <1>2, <1>5 DEF ResumeOpen
  <2>3. /\ proc'[p].scan = c /\ proc'[p].pc = "read_checkpoints"
        /\ proc'[p].list = row[c].list
        /\ proc'[p].next = 1 /\ proc'[p].skip = {} /\ proc'[p].ok = FALSE
      BY <2>2 DEF Free
  <2>4. Alive(c) /\ Len(row[c].list) > 0 /\ row[c].list \in Seq(Scanners)
      BY <1>2, <1>5 DEF ResumeOpen, Resumable, Alive, CoverageInv, RowSet
  <2>5. Apart'
      BY <1>3, <2>1, <2>2, <2>3 DEF DeletingPlaces
  <2>6. Based(p)' /\ Progress(p)'
      BY <2>2, <2>3, <2>4 DEF Based, Alive, Progress, Passed
  <2>7. \A d \in Scans : Alive(d) <=> Alive(d)'
      BY <2>2 DEF Alive
  <2> QED
      BY <2>2, <2>5, <2>6, <2>7, OthersProgress DEF CoverageInv
<1>6. ASSUME DeleteCheckpoints(p, c) PROVE CoverageInv'
  <2>1. \A q \in Procs : proc[q].scan # c
      BY <1>6 DEF DeleteCheckpoints, MayDelete, Working
  <2>2. /\ proc'[p].scan = c /\ proc'[p].pc = "delete_findings"
        /\ row' = row /\ ckpt' = [ckpt EXCEPT ![c] = {}]
        /\ \A q \in Procs \ {p} : proc'[q] = proc[q]
      BY <1>2, <1>6 DEF DeleteCheckpoints, Free
  <2>3. Apart'
      BY <1>3, <2>1, <2>2
  <2>4. Based(p)' /\ Progress(p)'
      BY <1>6, <2>2
      DEF DeleteCheckpoints, Based, Alive, Progress, ScanningPlaces, Holding
  <2>5. \A d \in Scans : (Alive(d) <=> Alive(d)') /\ (d # c => ckpt'[d] = ckpt[d])
      BY <1>2, <2>2 DEF Alive
  <2>6. ASSUME NEW d \in Scans, \E q \in Procs \ {p} : proc[q].scan = d
        PROVE  /\ ckpt[d] \subseteq ckpt'[d] /\ row'[d].list = row[d].list
               /\ Alive(d) => Alive(d)'
      BY <2>1, <2>2, <2>5, <2>6
  <2> QED
      BY <2>2, <2>3, <2>4, <2>5, <2>6, OthersProgress DEF CoverageInv
<1> QED
    BY <1>1, <1>4, <1>5, <1>6

LEMMA CoverageInvStep ==
    ASSUME CoverageInv, TypeInv', NEW p \in Procs, Step(p)
    PROVE  CoverageInv'
<1> DEFINE c == proc[p].scan
<1>1. /\ proc \in [Procs -> ProcSet] /\ row \in [Scans -> RowSet]
      /\ ckpt \in [Scans -> SUBSET Scanners]
      /\ proc[p] \in ProcSet /\ GoodProc(proc[p]) /\ Based(p) /\ Progress(p)
    BY DEF CoverageInv, TypeInv, TypeOK
<1>2. proc[p].pc # "free" => c \in Scans
    BY <1>1 DEF GoodProc, ProcSet
<1>3. CASE ResumeReadCheckpoints(p)
  <2> DEFINE x == [proc[p] EXCEPT !.pc = "read_findings", !.skip = ckpt[c]]
  <2>1. /\ x.scan = c /\ x.pc = "read_findings" /\ x.list = proc[p].list
        /\ x.next = proc[p].next /\ x.skip = ckpt[c] /\ x.ok = proc[p].ok
        /\ x.fatal = proc[p].fatal
      BY <1>1 DEF ProcSet
  <2>2. /\ proc[p].pc \in ScanningPlaces
        /\ proc' = [proc EXCEPT ![p] = x] /\ proc'[p] = x /\ UNCHANGED <<row, ckpt>>
      BY <1>1, <1>3 DEF ResumeReadCheckpoints, At, ScanningPlaces
  <2> HIDE DEF x
  <2>3. Progress(p)'
      BY <1>1, <2>1, <2>2 DEF Progress, Passed
  <2> QED
      BY <2>1, <2>2, <2>3, Privately2 DEF ScanningPlaces
\* The other private steps: coverage, list and skip stay, the cursor may move.
<1>4. ASSUME NEW x, proc' = [proc EXCEPT ![p] = x], UNCHANGED <<row, ckpt>>,
             proc[p].pc \in ScanningPlaces, x.pc \in ScanningPlaces,
             x.scan = c, x.list = proc[p].list, x.skip = proc[p].skip,
             x.ok => proc[p].ok \/ ckpt[c] # {},
             \A i \in DOMAIN x.list :
                 i < x.next => \/ i < proc[p].next /\ (proc[p].fatal => x.fatal)
                               \/ x.list[i] \in ckpt[c]
                               \/ x.fatal,
             x.pc \in {"agent", "finalize"} =>
                 x.next > Len(x.list) /\ (x.ok \/ ~ x.fatal)
      PROVE  CoverageInv'
  <2>1. proc'[p] = x
      BY <1>1, <1>4
  <2>2. Progress(p)'
      BY <1>1, <1>4, <2>1 DEF Progress, Passed
  <2> QED
      BY <1>4, <2>2, Privately2
<1>5. CASE ResumeReadFindings(p)
  <2> DEFINE x == [proc[p] EXCEPT !.pc = "mark_running", !.mem = stored[c],
                                  !.loaded = stored[c]]
  <2>1. /\ x.scan = c /\ x.pc = "mark_running" /\ x.list = proc[p].list
        /\ x.next = proc[p].next /\ x.skip = proc[p].skip /\ x.ok = proc[p].ok
        /\ x.fatal = proc[p].fatal
      BY <1>1 DEF ProcSet
  <2>2. /\ proc[p].pc \in ScanningPlaces
        /\ proc' = [proc EXCEPT ![p] = x] /\ UNCHANGED <<row, ckpt>>
      BY <1>1, <1>5 DEF ResumeReadFindings, At, ScanningPlaces
  <2> HIDE DEF x
  <2> QED
      BY <1>4, <2>1, <2>2 DEF ScanningPlaces, Holding
<1>6. CASE ResumeMarkRunning(p)
  <2>1. proc[p].pc = "mark_running" /\ Alive(c) /\ c \in Scans
      BY <1>1, <1>2, <1>6 DEF ResumeMarkRunning, At, Based
  <2> DEFINE x == [proc[p] EXCEPT !.pc = "plan"]
  <2>2. /\ x.scan = c /\ x.pc = "plan" /\ x.list = proc[p].list
        /\ x.next = proc[p].next /\ x.skip = proc[p].skip /\ x.ok = proc[p].ok
        /\ x.fatal = proc[p].fatal
      BY <1>1 DEF ProcSet
  <2>3. /\ proc' = [proc EXCEPT ![p] = x] /\ proc'[p] = x /\ ckpt' = ckpt
        /\ row' = [row EXCEPT ![c] = [row[c] EXCEPT !.status = "running"]]
      BY <1>1, <1>6, <2>1 DEF ResumeMarkRunning, Goto
  <2> HIDE DEF x
  <2>4. \A d \in Scans : row'[d].list = row[d].list /\ (Alive(d) <=> Alive(d)')
      BY <1>1, <2>1, <2>3 DEF Alive, RowSet
  <2>5. Progress(p)'
      BY <1>1, <2>1, <2>2, <2>3, <2>4
      DEF Progress, Passed, ScanningPlaces, Holding
  <2> QED
      BY <2>1, <2>2, <2>3, <2>4, <2>5, Monotone DEF ScanningPlaces, Holding
<1>7. CASE ResumePlan(p)
  <2>1. CASE proc[p].dry
      BY <1>7, <2>1, Leaves2 DEF ResumePlan
  <2>2. CASE ~ proc[p].dry
    <3> DEFINE x == [proc[p] EXCEPT !.pc = "scanning"]
    <3>1. /\ x.scan = c /\ x.pc = "scanning" /\ x.list = proc[p].list
          /\ x.next = proc[p].next /\ x.skip = proc[p].skip /\ x.ok = proc[p].ok
          /\ x.fatal = proc[p].fatal
        BY <1>1 DEF ProcSet
    <3>2. /\ proc[p].pc \in ScanningPlaces
          /\ proc' = [proc EXCEPT ![p] = x] /\ UNCHANGED <<row, ckpt>>
        BY <1>7, <2>2 DEF ResumePlan, Goto, At, ScanningPlaces, Holding
    <3> HIDE DEF x
    <3> QED
        BY <1>4, <3>1, <3>2 DEF ScanningPlaces, Holding
  <2> QED
      BY <2>1, <2>2
<1>8. CASE SkipScanner(p)
  <2>1. /\ proc[p].pc = "scanning" /\ c \in Scans /\ proc[p].next \in Nat
        /\ proc[p].next <= Len(proc[p].list) /\ proc[p].list \in Seq(Scanners)
        /\ proc[p].list[proc[p].next] \in ckpt[c]
      BY <1>1, <1>2, <1>8 DEF SkipScanner, InList, At, Scanner, Progress,
             ScanningPlaces, Holding, ProcSet
  <2> DEFINE x == [proc[p] EXCEPT !.next = @ + 1, !.ok = TRUE]
  <2>2. /\ x.scan = c /\ x.pc = "scanning" /\ x.list = proc[p].list
        /\ x.next = proc[p].next + 1 /\ x.skip = proc[p].skip
        /\ x.fatal = proc[p].fatal
      BY <1>1, <2>1 DEF ProcSet
  <2>3. proc' = [proc EXCEPT ![p] = x] /\ UNCHANGED <<row, ckpt>>
      BY <1>8 DEF SkipScanner
  <2> HIDE DEF x
  <2>4. \A i \in DOMAIN x.list :
            i < x.next => i < proc[p].next \/ x.list[i] \in ckpt[c]
      BY <2>1, <2>2
  <2> QED
      BY <1>4, <2>1, <2>2, <2>3, <2>4 DEF ScanningPlaces, Holding
<1>9. ASSUME NEW found, ScannerSucceeds(p, found) PROVE CoverageInv'
  <2> DEFINE s == proc[p].list[proc[p].next]
  <2>1. /\ proc[p].pc = "scanning" /\ c \in Scans /\ proc[p].next \in Nat
        /\ proc[p].next <= Len(proc[p].list) /\ proc[p].list \in Seq(Scanners)
      BY <1>1, <1>2, <1>9 DEF ScannerSucceeds, InList, At, ProcSet
  <2> DEFINE x == [proc[p] EXCEPT !.next = @ + 1, !.ok = TRUE,
                                  !.mem = @ \cup MintedBy(FreshRun, found)]
  <2>2. /\ x.scan = c /\ x.pc = "scanning" /\ x.list = proc[p].list
        /\ x.next = proc[p].next + 1 /\ x.skip = proc[p].skip
        /\ x.fatal = proc[p].fatal
      BY <1>1, <2>1 DEF ProcSet
  <2>3. /\ proc' = [proc EXCEPT ![p] = x] /\ proc'[p] = x /\ row' = row
        /\ ckpt' = [ckpt EXCEPT ![c] = ckpt[c] \cup {s}]
      BY <1>1, <1>9 DEF ScannerSucceeds, Scanner
  <2> HIDE DEF x
  <2>4. ckpt'[c] = ckpt[c] \cup {s} /\ \A d \in Scans : ckpt[d] \subseteq ckpt'[d]
      BY <1>1, <2>1, <2>3
  <2>5. ASSUME NEW i \in DOMAIN x.list, i < x.next
        PROVE  x.list[i] \in ckpt'[c] \/ x.fatal
    <3>1. CASE i = proc[p].next
        BY <2>2, <2>4, <3>1
    <3>2. CASE i < proc[p].next
        BY <1>1, <2>1, <2>2, <2>4, <3>2
        DEF Progress, Passed, ScanningPlaces, Holding
    <3> QED
        BY <2>1, <2>2, <2>5, <3>1, <3>2
  <2>6. Progress(p)'
      BY <1>1, <2>1, <2>2, <2>3, <2>4, <2>5
      DEF Progress, Passed, ScanningPlaces, Holding
  <2>7. \A d \in Scans : Alive(d) <=> Alive(d)'
      BY <2>3 DEF Alive
  <2> QED
      BY <2>1, <2>2, <2>3, <2>4, <2>6, <2>7, Monotone DEF ScanningPlaces, Holding
<1>10. CASE CheckpointRejected(p)
    BY <1>10, Leaves2 DEF CheckpointRejected
<1>11. CASE ScannerFails(p)
  <2>1. proc[p].pc = "scanning"
      BY <1>11 DEF ScannerFails, InList, At
  <2> DEFINE x == [proc[p] EXCEPT !.next = @ + 1, !.fatal = TRUE]
  <2>2. /\ x.scan = c /\ x.pc = "scanning" /\ x.list = proc[p].list
        /\ x.skip = proc[p].skip /\ x.ok = proc[p].ok /\ x.fatal
      BY <1>1, <2>1 DEF ProcSet
  <2>3. proc' = [proc EXCEPT ![p] = x] /\ UNCHANGED <<row, ckpt>>
      BY <1>11 DEF ScannerFails
  <2> HIDE DEF x
  <2> QED
      BY <1>4, <2>1, <2>2, <2>3 DEF ScanningPlaces, Holding
<1>12. CASE ScannersDone(p)
  <2>1. proc[p].pc = "scanning" /\ proc[p].next > Len(proc[p].list)
      BY <1>12 DEF ScannersDone, At
  <2>2. CASE proc[p].fatal /\ ~ proc[p].ok
      BY <1>12, <2>2, Leaves2 DEF ScannersDone
  <2>3. CASE ~ (proc[p].fatal /\ ~ proc[p].ok)
    <3> DEFINE x == [proc[p] EXCEPT !.pc = "agent"]
    <3>1. /\ x.scan = c /\ x.pc = "agent" /\ x.list = proc[p].list
          /\ x.next = proc[p].next /\ x.skip = proc[p].skip /\ x.ok = proc[p].ok
          /\ x.fatal = proc[p].fatal
        BY <1>1 DEF ProcSet
    <3>2. proc' = [proc EXCEPT ![p] = x] /\ UNCHANGED <<row, ckpt>>
        BY <1>12, <2>3 DEF ScannersDone, Goto
    <3> HIDE DEF x
    <3> QED
        BY <1>4, <2>1, <2>3, <3>1, <3>2 DEF ScanningPlaces, Holding
  <2> QED
      BY <2>2, <2>3
<1>13. ASSUME At(p, "agent"), NEW all, NEW dropped, NEW soft,
              Settle(p, all, dropped, soft), UNCHANGED <<row, ckpt>>
       PROVE  CoverageInv'
  <2>1. PICK kept : proc' = [proc EXCEPT ![p].pc = "finalize", ![p].mem = kept,
                                    ![p].dropped = dropped, ![p].soft = soft]
      BY <1>13 DEF Settle
  <2> DEFINE x == [proc[p] EXCEPT !.pc = "finalize", !.mem = kept,
                                  !.dropped = dropped, !.soft = soft]
  <2>2. /\ x.scan = c /\ x.pc = "finalize" /\ x.list = proc[p].list
        /\ x.next = proc[p].next /\ x.skip = proc[p].skip /\ x.ok = proc[p].ok
        /\ x.fatal = proc[p].fatal
      BY <1>1 DEF ProcSet
  <2>3. proc' = [proc EXCEPT ![p] = x]
      BY <2>1
  <2>4. /\ proc[p].pc \in ScanningPlaces
        /\ proc[p].next > Len(proc[p].list) /\ (proc[p].ok \/ ~ proc[p].fatal)
      BY <1>1, <1>13 DEF At, Progress, ScanningPlaces, Holding
  <2> HIDE DEF x
  <2> QED
      BY <1>4, <1>13, <2>2, <2>3, <2>4 DEF ScanningPlaces, Holding
<1>14. CASE NoAgent(p)
    BY <1>13, <1>14 DEF NoAgent
<1>15. CASE AgentFails(p)
    BY <1>13, <1>15 DEF AgentFails
<1>16. ASSUME NEW keep, NEW extra, AgentReplaces(p, keep, extra) PROVE CoverageInv'
    BY <1>13, <1>16 DEF AgentReplaces
<1>17. CASE Finalize(p)
  <2>1. proc[p].pc = "finalize" /\ Alive(c) /\ c \in Scans
      BY <1>1, <1>2, <1>17 DEF Finalize, At, Based
  <2> DEFINE r == [row[c] EXCEPT !.status = FinalStatus(p),
                                 !.total = Cardinality(proc[p].mem)]
  <2> DEFINE x == Free(FinalExit(p))
  <2>2. /\ row' = [row EXCEPT ![c] = r] /\ ckpt' = ckpt
        /\ proc' = [proc EXCEPT ![p] = x] /\ proc'[p] = x
      BY <1>1, <1>17, <2>1 DEF Finalize, Exit
  <2>3. r.list = row[c].list /\ r.status \in {"completed", "failed"}
      BY <1>1, <2>1 DEF RowSet, FinalStatus
  <2>4. x.pc = "free"
      BY DEF Free
  <2> HIDE DEF r, x
  <2>5. \A d \in Scans : row'[d].list = row[d].list /\ (Alive(d) <=> Alive(d)')
      BY <1>1, <2>1, <2>2, <2>3 DEF Alive
  <2>6. Progress(p)'
      BY <2>2, <2>4 DEF Progress, ScanningPlaces, Holding
  <2> QED
      BY <2>1, <2>2, <2>4, <2>5, <2>6, Monotone DEF ScanningPlaces, Holding
<1>18. CASE DeleteFindings(p)
  <2>1. proc[p].pc = "delete_findings"
      BY <1>18 DEF DeleteFindings, At
  <2>2. /\ proc'[p] = [proc[p] EXCEPT !.pc = "delete_row"]
        /\ \A q \in Procs \ {p} : proc'[q] = proc[q]
        /\ UNCHANGED <<row, ckpt>>
      BY <1>1, <1>18 DEF DeleteFindings, Goto
  <2>3. proc'[p].pc = "delete_row" /\ proc'[p].scan = c
      BY <1>1, <2>2 DEF ProcSet
  <2>4. Apart' /\ Based(p)' /\ Progress(p)'
    <3>1. \A q \in Procs :
              /\ proc'[q].scan = proc[q].scan
              /\ proc'[q].pc \in DeletingPlaces => proc[q].pc \in DeletingPlaces
        BY <2>1, <2>2, <2>3 DEF DeletingPlaces
    <3>2. Apart'
        BY <3>1 DEF CoverageInv, Apart
    <3>3. Based(p)'
        BY <1>1, <2>1, <2>2, <2>3 DEF Based, Alive
    <3> QED
        BY <2>3, <3>2, <3>3 DEF Progress, ScanningPlaces, Holding
  <2>5. \A d \in Scans : (Alive(d) <=> Alive(d)')
      BY <2>2 DEF Alive
  <2> QED
      BY <2>2, <2>4, <2>5, OthersProgress DEF CoverageInv
<1>19. CASE DeleteRow(p)
  <2>1. CASE row' = row
      BY <1>19, <2>1, Leaves2 DEF DeleteRow
  <2>2. CASE row' # row
    <3>1. /\ proc[p].pc = "delete_row" /\ row' = [row EXCEPT ![c] = NoRow("gone")]
          /\ ckpt' = ckpt /\ proc' = [proc EXCEPT ![p] = Free("success")]
        BY <1>19, <2>2 DEF DeleteRow, At, Exit
    <3>2. \A q \in Procs \ {p} : proc[q].scan # c
        BY <3>1 DEF CoverageInv, Apart, DeletingPlaces
    <3>3. proc'[p].pc = "free" /\ proc'[p].scan = NoScan
        BY <1>1, <3>1 DEF Free
    <3>4. \A q \in Procs \ {p} : proc'[q] = proc[q]
        BY <1>1, <3>1
    <3>5. Apart'
      <4>1. \A q \in Procs : GoodProc(proc'[q])
          BY DEF TypeInv
      <4> QED
          BY <3>3, <3>4, <4>1 DEF CoverageInv, Apart, DeletingPlaces, GoodProc
    <3>6. Based(p)' /\ Progress(p)'
        BY <3>3 DEF Based, Progress, ScanningPlaces, Holding
    <3>7. \A d \in Scans : (Alive(d)' => d # c) /\ (d # c => row'[d] = row[d])
        BY <1>1, <3>1 DEF Alive, NoRow
    <3>8. \A d \in Scans : Alive(d)' => Len(row'[d].list) > 0
        BY <3>7 DEF CoverageInv, Alive
    <3>9. ASSUME NEW d \in Scans, \E q \in Procs \ {p} : proc[q].scan = d
          PROVE  /\ ckpt[d] \subseteq ckpt'[d] /\ row'[d].list = row[d].list
                 /\ Alive(d) => Alive(d)'
      <4>1. d # c
          BY <3>2, <3>9
      <4> QED
          BY <3>1, <3>7, <4>1 DEF Alive
    <3> QED
        BY <3>4, <3>5, <3>6, <3>8, <3>9, OthersProgress
  <2> QED
      BY <2>1, <2>2
<1> QED
    BY <1>3, <1>5, <1>6, <1>7, <1>8, <1>9, <1>10, <1>11, <1>12, <1>14, <1>15,
       <1>16, <1>17, <1>18, <1>19 DEF Step

LEMMA CoverageInvNext ==
    ASSUME "delete" \notin Overlap
    PROVE  CoverageInv /\ [Next]_vars => CoverageInv'
<1> SUFFICES ASSUME CoverageInv, [Next]_vars PROVE CoverageInv'
    OBVIOUS
<1>1. TypeInv'
    BY TypeInvNext DEF CoverageInv
<1>2. CASE UNCHANGED vars
    BY <1>1, <1>2 DEF vars, CoverageInv, Apart, Based, Progress, Passed, Alive
<1>3. ASSUME NEW p \in Procs, Abort(p) PROVE CoverageInv'
    BY <1>1, <1>3, Leaves2 DEF Abort
<1> QED
    BY <1>1, <1>2, <1>3, CoverageInvStart, CoverageInvStep DEF Next

\* A scan becomes completed only by a finalize_scan with no failure behind it.
LEMMA WhoCompletes ==
    ASSUME TypeInv, [Next]_vars, NEW c \in Scans,
           row[c].status # "completed", row'[c].status = "completed"
    PROVE  \E p \in Procs : /\ At(p, "finalize") /\ proc[p].scan = c
                            /\ FinalStatus(p) = "completed"
<1>1. row \in [Scans -> RowSet]
    BY DEF TypeInv, TypeOK
<1>2. row' # row
    OBVIOUS
<1>3. ASSUME NEW p \in Procs, Start(p) PROVE FALSE
  <2>1. ASSUME NEW d \in Scans, NEW list, NEW provider,
               StartScan(p, d, list, provider)
        PROVE  FALSE
      BY <1>1, <2>1 DEF StartScan
  <2> QED
      BY <1>2, <1>3, <2>1 DEF Start, ResumeOpen, DeleteCheckpoints
<1>4. ASSUME NEW p \in Procs, Step(p)
      PROVE  At(p, "finalize") /\ proc[p].scan = c /\ FinalStatus(p) = "completed"
  <2>1. ~ ResumeMarkRunning(p)
      BY <1>1, <1>2 DEF ResumeMarkRunning, RowSet
  <2>2. ~ DeleteRow(p)
      BY <1>1, <1>2 DEF DeleteRow, NoRow
  <2>3. Finalize(p)
      BY <1>2, <1>4, <2>1, <2>2
      DEF Step, ResumeReadCheckpoints, ResumeReadFindings, ResumePlan, SkipScanner,
          ScannerSucceeds, CheckpointRejected, ScannerFails, ScannersDone,
          NoAgent, AgentFails, AgentReplaces, DeleteFindings
  <2> DEFINE d == proc[p].scan
  <2> DEFINE r == [row[d] EXCEPT !.status = FinalStatus(p),
                                 !.total = Cardinality(proc[p].mem)]
  <2>4. row' = [row EXCEPT ![d] = r]
      BY <1>2, <2>3 DEF Finalize
  <2>5. d = c
      BY <2>4
  <2>6. r.status = FinalStatus(p)
      BY <1>1, <2>5 DEF RowSet
  <2> HIDE DEF r
  <2>7. row'[c] = r
      BY <1>1, <2>4, <2>5
  <2> QED
      BY <2>3, <2>5, <2>6, <2>7 DEF Finalize
<1> QED
    BY <1>2, <1>3, <1>4 DEF Next, Abort, vars

\* However many resumes overlap, as long as no delete does: a scan becomes
\* completed only when every scanner of its frozen list has a checkpoint.
THEOREM CompletedMeansCovered ==
    ASSUME "delete" \notin Overlap PROVE Spec => CompletedIsCovered
<1> DEFINE Covered(c) ==
        row[c].status # "completed" /\ row'[c].status = "completed" =>
            \A i \in DOMAIN row[c].list : row[c].list[i] \in ckpt[c]
<1>1. ASSUME CoverageInv, [Next]_vars, NEW c \in Scans PROVE Covered(c)
  <2> SUFFICES ASSUME row[c].status # "completed", row'[c].status = "completed",
                      NEW i \in DOMAIN row[c].list
               PROVE  row[c].list[i] \in ckpt[c]
      OBVIOUS
  <2>1. PICK p \in Procs : /\ At(p, "finalize") /\ proc[p].scan = c
                           /\ FinalStatus(p) = "completed"
      BY <1>1, WhoCompletes DEF CoverageInv
  <2>2. ~ proc[p].fatal
      BY <2>1 DEF FinalStatus, Degraded
  <2>3. /\ proc[p].list = row[c].list /\ proc[p].next > Len(proc[p].list)
        /\ Passed(p)
      BY <1>1, <2>1 DEF CoverageInv, Progress, At, ScanningPlaces, Holding
  <2>4. proc[p].list \in Seq(Scanners) /\ proc[p].next \in Nat
      BY <1>1 DEF CoverageInv, TypeInv, TypeOK, ProcSet
  <2> QED
      BY <2>1, <2>2, <2>3, <2>4 DEF Passed
<1>2. CoverageInv /\ [Next]_vars => [\A c \in Scans : Covered(c)]_vars
    BY <1>1
<1>3. Spec => []CoverageInv
    BY CoverageInvInit, CoverageInvNext, PTL DEF Spec
<1> QED
    BY <1>2, <1>3, PTL DEF Spec, CompletedIsCovered

-----------------------------------------------------------------------------
(* Findings of checkpointed scanners, when invocations overlap *)

\* The target and the configuration do not change, and no scanner fails.
Steady ==
    /\ "scanner" \notin Failing
    /\ \A s \in Scanners : \A a, b \in Results[s] : a = b

\* The scanners whose findings p has in memory, or has seen dismissed.
Answered(p) ==
    proc[p].skip \cup
        {proc[p].list[i] : i \in {j \in DOMAIN proc[p].list : j < proc[p].next}}

\* Checkpoints are of scanners on the list, stand for what these report, and
\* for nothing that is lost.
Kept(c) ==
    \A s \in ckpt[c] :
        /\ given[c][s] \in Results[s]
        /\ given[c][s] \subseteq KeysOf(stored[c]) \cup dismissed[c]
        /\ \E i \in DOMAIN row[c].list : row[c].list[i] = s

\* Whatever others do to the scan, a process that may overwrite its findings
\* holds those of every scanner it has passed or will skip.
Holds(p) ==
    LET c == proc[p].scan
    IN  /\ proc[p].pc \in ScanningPlaces => ~ proc[p].fatal
        /\ proc[p].pc \in Holding =>
               \A s \in Answered(p) : given[c][s] \subseteq Held(p) \cup dismissed[c]
        /\ proc[p].pc \in DeletingPlaces => ckpt[c] = {}

OverlapInv ==
    /\ CoverageInv
    /\ \A c \in Scans : Kept(c)
    /\ \A p \in Procs : Holds(p)

LEMMA OverlapInvInit == Init => OverlapInv
<1> SUFFICES ASSUME Init PROVE OverlapInv
    OBVIOUS
<1>1. \A p \in Procs : Holds(p)
    BY DEF Init, Free, Holds, ScanningPlaces, Holding, DeletingPlaces
<1>2. \A c \in Scans : Kept(c)
    BY DEF Init, Kept
<1> QED
    BY <1>1, <1>2, CoverageInvInit DEF OverlapInv

\* A process has passed, or will skip, only scanners with a checkpoint.
LEMMA AnsweredCovered ==
    ASSUME OverlapInv, NEW p \in Procs, proc[p].pc \in ScanningPlaces
    PROVE  Answered(p) \subseteq ckpt[proc[p].scan]
<1>1. Progress(p) /\ Holds(p)
    BY DEF OverlapInv, CoverageInv
<1> QED
    BY <1>1 DEF Progress, Passed, Holds, Answered

\* A step of p that keeps, for every scan others work on, what checkpoints
\* stand for and what was dismissed.
LEMMA OthersHold ==
    ASSUME OverlapInv, CoverageInv', NEW p \in Procs,
           \A q \in Procs \ {p} : proc'[q] = proc[q],
           \A d \in Scans : (\E q \in Procs \ {p} : proc[q].scan = d) =>
               /\ \A s \in ckpt[d] : given'[d][s] = given[d][s]
               /\ dismissed[d] \subseteq dismissed'[d],
           \A q \in Procs \ {p} : proc[q].pc \in DeletingPlaces =>
               ckpt'[proc[q].scan] \subseteq ckpt[proc[q].scan],
           \A d \in Scans : Kept(d)', Holds(p)'
    PROVE  OverlapInv'
<1>1. ASSUME NEW q \in Procs \ {p} PROVE Holds(q)'
  <2>0. Holds(q) /\ proc'[q] = proc[q]
      BY DEF OverlapInv
  <2>1. CASE proc[q].pc \notin ScanningPlaces
      BY <2>0, <2>1 DEF Holds, ScanningPlaces
  <2>2. CASE proc[q].pc \in ScanningPlaces
    <3>1. PICK d \in Scans : d = proc[q].scan
        BY <2>2 DEF OverlapInv, CoverageInv, TypeInv, GoodProc, ProcSet, ScanningPlaces, Holding
    <3>2. Holds(q) /\ Answered(q) \subseteq ckpt[d] /\ proc'[q] = proc[q]
        BY <2>2, <3>1, AnsweredCovered DEF OverlapInv
    <3>3. /\ \A s \in ckpt[d] : given'[d][s] = given[d][s]
          /\ dismissed[d] \subseteq dismissed'[d]
        BY <3>1
    <3>4. Answered(q)' = Answered(q) /\ Held(q)' = Held(q)
        BY <3>2 DEF Answered, Held, At, KeysOf
    <3> QED
        BY <2>2, <3>1, <3>2, <3>3, <3>4 DEF Holds, DeletingPlaces, ScanningPlaces, Holding
  <2> QED
      BY <2>1, <2>2
<1> QED
    BY <1>1 DEF OverlapInv

LEMMA KeptSame ==
    ASSUME NEW c, Kept(c), row'[c].list = row[c].list, ckpt'[c] = ckpt[c],
           stored'[c] = stored[c], given'[c] = given[c], dismissed'[c] = dismissed[c]
    PROVE  Kept(c)'
    BY DEF Kept, KeysOf

\* A step of p that leaves checkpoints, findings and history alone.
LEMMA OverlapPrivately ==
    ASSUME OverlapInv, CoverageInv', NEW p \in Procs,
           \A q \in Procs \ {p} : proc'[q] = proc[q],
           \A d \in Scans : row'[d].list = row[d].list,
           UNCHANGED <<ckpt, stored, given, dismissed>>, Holds(p)'
    PROVE  OverlapInv'
<1>1. \A d \in Scans : Kept(d)'
    BY KeptSame DEF OverlapInv
<1> QED
    BY <1>1, OthersHold

LEMMA OverlapExit ==
    ASSUME OverlapInv, CoverageInv', NEW p \in Procs, NEW code, Exit(p, code),
           UNCHANGED <<row, ckpt, stored, given, dismissed>>
    PROVE  OverlapInv'
<1>1. proc'[p].pc = "free" /\ \A q \in Procs \ {p} : proc'[q] = proc[q]
    BY DEF Exit, Free, OverlapInv, CoverageInv, TypeInv, TypeOK
<1>2. Holds(p)'
    BY <1>1 DEF Holds, ScanningPlaces, Holding, DeletingPlaces
<1> QED
    BY <1>1, <1>2, OverlapPrivately

LEMMA OverlapInvStart ==
    ASSUME OverlapInv, NoOrphans, CoverageInv', NEW p \in Procs, Start(p)
    PROVE  OverlapInv'
<1>1. PICK c \in Scans :
          \/ \E list \in Lists, provider \in Providers :
                 StartScan(p, c, list, provider)
          \/ \E dry \in BOOLEAN : ResumeOpen(p, c, dry)
          \/ DeleteCheckpoints(p, c)
    BY DEF Start
<1>2. /\ proc \in [Procs -> ProcSet] /\ row \in [Scans -> RowSet]
      /\ ckpt \in [Scans -> SUBSET Scanners]
      /\ \A d \in Scans : Kept(d)
    BY DEF OverlapInv, CoverageInv, TypeInv, TypeOK
<1>3. ASSUME NEW list \in Lists, NEW provider, StartScan(p, c, list, provider)
      PROVE  OverlapInv'
  <2>1. /\ proc'[p].pc = "scanning" /\ proc'[p].skip = {} /\ proc'[p].next = 1
        /\ proc'[p].list = list /\ proc'[p].fatal = FALSE
        /\ \A q \in Procs \ {p} : proc'[q] = proc[q]
        /\ \A d \in Scans \ {c} : row'[d] = row[d]
      BY <1>2, <1>3 DEF StartScan, Free
  <2>2. Answered(p)' = {}
    <3>1. list \in Seq(Scanners)
        BY ListsAssumption
    <3> QED
        BY <2>1, <3>1 DEF Answered
  <2>3. Holds(p)'
      BY <2>1, <2>2 DEF Holds, DeletingPlaces
  <2>4. ckpt'[c] = {}
      BY <1>3 DEF StartScan, NoOrphans, Alive
  <2>5. \A d \in Scans : Kept(d)'
    <3>1. Kept(c)'
        BY <2>4 DEF Kept
    <3>2. ASSUME NEW d \in Scans \ {c} PROVE Kept(d)'
        BY <1>2, <1>3, <2>1, <3>2, KeptSame DEF StartScan
    <3> QED
        BY <3>1, <3>2
  <2> QED
      BY <1>3, <2>1, <2>3, <2>5, OthersHold DEF StartScan
<1>4. ASSUME NEW dry, ResumeOpen(p, c, dry) PROVE OverlapInv'
  <2>1. /\ proc'[p].pc = "read_checkpoints" /\ proc'[p].fatal = FALSE
        /\ \A q \in Procs \ {p} : proc'[q] = proc[q]
      BY <1>2, <1>4 DEF ResumeOpen, Free
  <2>2. Holds(p)'
      BY <2>1 DEF Holds, Holding, DeletingPlaces
  <2> QED
      BY <1>4, <2>1, <2>2, OverlapPrivately DEF ResumeOpen
<1>5. ASSUME DeleteCheckpoints(p, c) PROVE OverlapInv'
  <2>1. /\ proc'[p].pc = "delete_findings" /\ ckpt'[c] = {}
        /\ \A d \in Scans \ {c} : ckpt'[d] = ckpt[d]
        /\ \A q \in Procs \ {p} : proc'[q] = proc[q]
      BY <1>2, <1>5 DEF DeleteCheckpoints, Free
  <2>2. Holds(p)'
    <3>1. proc'[p].scan = c
        BY <1>2, <1>5 DEF DeleteCheckpoints, Free
    <3> QED
        BY <2>1, <3>1 DEF Holds, ScanningPlaces, Holding
  <2>3. Kept(c)'
      BY <2>1 DEF Kept
  <2>4. ASSUME NEW d \in Scans \ {c} PROVE Kept(d)'
      BY <1>2, <1>5, <2>1, <2>4, KeptSame DEF DeleteCheckpoints
  <2> QED
    <3>1. \A d \in Scans : ckpt'[d] \subseteq ckpt[d]
        BY <2>1
    <3>2. \A q \in Procs : proc[q].pc \in DeletingPlaces => proc[q].scan \in Scans
        BY DEF OverlapInv, CoverageInv, TypeInv, GoodProc, ProcSet, DeletingPlaces
    <3> QED
        BY <1>5, <2>1, <2>2, <2>3, <2>4, <3>1, <3>2, OthersHold DEF DeleteCheckpoints
<1> QED
    BY <1>1, <1>3, <1>4, <1>5

LEMMA OverlapInvStep ==
    ASSUME OverlapInv, CoverageInv', Steady, NEW p \in Procs, Step(p)
    PROVE  OverlapInv'
<1>1. /\ proc \in [Procs -> ProcSet] /\ row \in [Scans -> RowSet]
      /\ ckpt \in [Scans -> SUBSET Scanners] /\ stored \in [Scans -> SUBSET Findings]
      /\ given \in [Scans -> [Scanners -> SUBSET Keys]]
      /\ dismissed \in [Scans -> SUBSET Keys]
      /\ proc[p] \in ProcSet /\ GoodProc(proc[p]) /\ Based(p) /\ Progress(p) /\ Holds(p)
      /\ \A d \in Scans : Kept(d)
    BY DEF OverlapInv, CoverageInv, TypeInv, TypeOK
<1>2. ~ At(p, "free")
    BY DEF Step, ResumeReadCheckpoints, ResumeReadFindings, ResumeMarkRunning, ResumePlan,
        SkipScanner, ScannerSucceeds, CheckpointRejected, ScannerFails, ScannersDone, NoAgent,
        AgentFails, AgentReplaces, Finalize, DeleteFindings, DeleteRow, InList, At
<1>3. PICK c \in Scans : c = proc[p].scan
    BY <1>1, <1>2 DEF GoodProc, ProcSet, At
\* p moves within the scan, and holds what it held.
<1>4. ASSUME NEW x, proc' = [proc EXCEPT ![p] = x], x.scan = c,
             \A d \in Scans : row'[d].list = row[d].list,
             UNCHANGED <<ckpt, stored, given, dismissed>>,
             x.pc \in ScanningPlaces => ~ x.fatal,
             x.pc \notin DeletingPlaces,
             x.pc \in Holding =>
                 \A s \in Answered(p)' : given[c][s] \subseteq Held(p)' \cup dismissed[c]
      PROVE  OverlapInv'
  <2>1. proc'[p] = x /\ \A q \in Procs \ {p} : proc'[q] = proc[q]
      BY <1>1, <1>4
  <2>2. Holds(p)'
      BY <1>4, <2>1 DEF Holds
  <2> QED
      BY <1>4, <2>1, <2>2, OverlapPrivately
<1>5. CASE ResumeReadCheckpoints(p)
  <2> DEFINE x == [proc[p] EXCEPT !.pc = "read_findings", !.skip = ckpt[c]]
  <2>1. x.scan = c /\ x.pc = "read_findings" /\ x.fatal = proc[p].fatal
      BY <1>1, <1>3 DEF ProcSet
  <2>2. ~ proc[p].fatal
      BY <1>1, <1>5 DEF Holds, ResumeReadCheckpoints, At, ScanningPlaces
  <2>3. proc' = [proc EXCEPT ![p] = x]
      BY <1>3, <1>5 DEF ResumeReadCheckpoints
  <2> QED
      BY <1>4, <1>5, <2>1, <2>2, <2>3 DEF ResumeReadCheckpoints, Holding, DeletingPlaces
<1>6. CASE ResumeReadFindings(p)
  <2> DEFINE x == [proc[p] EXCEPT !.pc = "mark_running", !.mem = stored[c],
                                  !.loaded = stored[c]]
  <2>1. /\ x.scan = c /\ x.pc = "mark_running" /\ x.fatal = proc[p].fatal
        /\ x.mem = stored[c] /\ x.skip = proc[p].skip /\ x.list = proc[p].list
        /\ x.next = proc[p].next
      BY <1>1, <1>3 DEF ProcSet
  <2>2. ~ proc[p].fatal /\ proc[p].pc \in ScanningPlaces
      BY <1>1, <1>6 DEF Holds, ResumeReadFindings, At, ScanningPlaces
  <2>3. proc' = [proc EXCEPT ![p] = x] /\ proc'[p] = x
      BY <1>1, <1>3, <1>6 DEF ResumeReadFindings
  <2> HIDE DEF x
  <2>4. Answered(p)' = Answered(p) /\ Held(p)' = KeysOf(stored[c])
      BY <2>1, <2>3 DEF Answered, Held, At, KeysOf
  <2>5. \A s \in Answered(p) : given[c][s] \subseteq KeysOf(stored[c]) \cup dismissed[c]
      BY <1>1, <1>3, <2>2, AnsweredCovered DEF Kept
  <2>6. UNCHANGED <<row, ckpt, stored, given, dismissed>> /\ x.pc \notin DeletingPlaces
      BY <1>6, <2>1 DEF ResumeReadFindings, DeletingPlaces
  <2> QED
      BY <1>4, <2>1, <2>2, <2>3, <2>4, <2>5, <2>6
<1>7. CASE ResumeMarkRunning(p)
  <2>1. proc[p].pc = "mark_running" /\ Alive(c)
      BY <1>1, <1>3, <1>7 DEF ResumeMarkRunning, At, Based
  <2> DEFINE x == [proc[p] EXCEPT !.pc = "plan"]
  <2>2. /\ x.scan = c /\ x.pc = "plan" /\ x.fatal = proc[p].fatal
        /\ x.mem = proc[p].mem /\ x.skip = proc[p].skip /\ x.list = proc[p].list
        /\ x.next = proc[p].next
      BY <1>1, <1>3 DEF ProcSet
  <2>3. /\ proc' = [proc EXCEPT ![p] = x] /\ proc'[p] = x
        /\ row' = [row EXCEPT ![c] = [row[c] EXCEPT !.status = "running"]]
      BY <1>1, <1>3, <1>7, <2>1 DEF ResumeMarkRunning, Goto
  <2> HIDE DEF x
  <2>4. Answered(p)' = Answered(p) /\ Held(p)' = Held(p)
      BY <2>1, <2>2, <2>3 DEF Answered, Held, At, KeysOf
  <2>5. \A d \in Scans : row'[d].list = row[d].list
      BY <1>1, <2>3 DEF RowSet
  <2> QED
    <3>1. /\ ~ proc[p].fatal
          /\ \A s \in Answered(p) : given[c][s] \subseteq Held(p) \cup dismissed[c]
        BY <1>1, <1>3, <2>1 DEF Holds, ScanningPlaces, Holding
    <3>2. UNCHANGED <<ckpt, stored, given, dismissed>> /\ x.pc \notin DeletingPlaces
        BY <1>7, <2>2 DEF ResumeMarkRunning, DeletingPlaces
    <3> QED
        BY <1>4, <2>2, <2>3, <2>4, <2>5, <3>1, <3>2
<1>8. CASE ResumePlan(p)
  <2>1. CASE proc[p].dry
      BY <1>8, <2>1, OverlapExit DEF ResumePlan
  <2>2. CASE ~ proc[p].dry
    <3> DEFINE x == [proc[p] EXCEPT !.pc = "scanning"]
    <3>1. /\ x.scan = c /\ x.pc = "scanning" /\ x.fatal = proc[p].fatal
          /\ x.mem = proc[p].mem /\ x.skip = proc[p].skip /\ x.list = proc[p].list
          /\ x.next = proc[p].next
        BY <1>1, <1>3 DEF ProcSet
    <3>2. proc' = [proc EXCEPT ![p] = x] /\ proc'[p] = x /\ proc[p].pc = "plan"
        BY <1>1, <1>3, <1>8, <2>2 DEF ResumePlan, Goto, At
    <3> HIDE DEF x
    <3>3. Answered(p)' = Answered(p) /\ Held(p)' = Held(p)
        BY <3>1, <3>2 DEF Answered, Held, At, KeysOf
    <3> QED
        BY <1>1, <1>3, <1>4, <1>8, <3>1, <3>2, <3>3
        DEF ResumePlan, Holds, ScanningPlaces, Holding, DeletingPlaces
  <2> QED
      BY <2>1, <2>2
\* The cursor passes a scanner: it is answered from now on.
<1>9. ASSUME NEW x, proc'[p] = x, InList(p), x.list = proc[p].list,
             x.skip = proc[p].skip, x.next = proc[p].next + 1
      PROVE  Answered(p)' = Answered(p) \cup {Scanner(p)}
  <2>1. proc[p].next \in 1..Len(proc[p].list) /\ proc[p].list \in Seq(Scanners)
      BY <1>1, <1>9 DEF InList, ProcSet
  <2>2. \A j \in DOMAIN proc[p].list :
            j < proc[p].next + 1 <=> (j < proc[p].next \/ j = proc[p].next)
      BY <2>1
  <2> QED
      BY <1>9, <2>1, <2>2 DEF Answered, Scanner
<1>10. CASE SkipScanner(p)
  <2> DEFINE x == [proc[p] EXCEPT !.next = @ + 1, !.ok = TRUE]
  <2>1. /\ x.scan = c /\ x.pc = "scanning" /\ x.fatal = proc[p].fatal
        /\ x.mem = proc[p].mem /\ x.skip = proc[p].skip /\ x.list = proc[p].list
        /\ x.next = proc[p].next + 1 /\ proc[p].pc = "scanning"
      BY <1>1, <1>3, <1>10 DEF ProcSet, SkipScanner, InList, At
  <2>2. proc' = [proc EXCEPT ![p] = x] /\ proc'[p] = x
      BY <1>1, <1>10 DEF SkipScanner
  <2> HIDE DEF x
  <2>3. Answered(p)' = Answered(p) \cup {Scanner(p)} /\ Scanner(p) \in Answered(p)
      BY <1>9, <1>10, <2>1, <2>2 DEF SkipScanner, Answered
  <2>4. Held(p)' = Held(p)
      BY <2>1, <2>2 DEF Held, At, KeysOf
  <2> QED
      BY <1>1, <1>3, <1>4, <1>10, <2>1, <2>2, <2>3, <2>4
      DEF SkipScanner, Holds, ScanningPlaces, Holding, DeletingPlaces
<1>11. ASSUME NEW found \in SUBSET Keys, ScannerSucceeds(p, found)
       PROVE  OverlapInv'
  <2> DEFINE new == MintedBy(FreshRun, found)
  <2> DEFINE x == [proc[p] EXCEPT !.next = @ + 1, !.ok = TRUE, !.mem = @ \cup new]
  <2>1. PICK s \in Scanners : /\ s = Scanner(p)
                              /\ \E i \in DOMAIN proc[p].list : proc[p].list[i] = s
      BY <1>1, <1>11 DEF ScannerSucceeds, InList, Scanner, ProcSet
  <2>2. /\ x.scan = c /\ x.pc = "scanning" /\ x.fatal = proc[p].fatal
        /\ x.mem = proc[p].mem \cup new /\ x.skip = proc[p].skip
        /\ x.list = proc[p].list /\ x.next = proc[p].next + 1
        /\ proc[p].pc = "scanning"
      BY <1>1, <1>3, <1>11 DEF ProcSet, ScannerSucceeds, InList, At
  <2>3. /\ proc' = [proc EXCEPT ![p] = x] /\ proc'[p] = x
        /\ \A q \in Procs \ {p} : proc'[q] = proc[q]
      BY <1>1, <1>11 DEF ScannerSucceeds
  <2>4. /\ stored' = [stored EXCEPT ![c] = stored[c] \cup new]
        /\ ckpt' = [ckpt EXCEPT ![c] = ckpt[c] \cup {s}]
        /\ given' = [given EXCEPT ![c] = [given[c] EXCEPT ![s] = found]]
        /\ row' = row /\ dismissed' = dismissed /\ found \in Results[s]
      BY <1>3, <1>11, <2>1 DEF ScannerSucceeds
  <2>5. KeysOf(new) = found
      BY MintedByFacts
  <2> HIDE DEF x, new
  <2>6. Answered(p)' = Answered(p) \cup {s} /\ Held(p)' = Held(p) \cup found
    <3>1. KeysOf(x.mem) = KeysOf(proc[p].mem) \cup found
        BY <2>2, <2>5, KeysOfUnion
    <3> QED
        BY <1>9, <1>11, <2>1, <2>2, <2>3, <3>1 DEF ScannerSucceeds, Held, At, KeysOf
  <2>7. /\ given'[c][s] = found /\ \A t \in Scanners \ {s} : given'[c][t] = given[c][t]
        /\ \A d \in Scans \ {c} : given'[d] = given[d] /\ ckpt'[d] = ckpt[d]
                                    /\ stored'[d] = stored[d]
        /\ ckpt'[c] = ckpt[c] \cup {s} /\ stored'[c] = stored[c] \cup new
      BY <1>1, <2>4
\* A second run of a scanner reports what the first did.
  <2>8. \A d \in Scans : \A t \in ckpt[d] : given'[d][t] = given[d][t]
    <3>1. s \in ckpt[c] => given[c][s] = found
        BY <1>1, <2>4 DEF Kept, Steady
    <3> QED
        BY <1>1, <2>7, <3>1
  <2>9. Kept(c)'
    <3>1. KeysOf(stored'[c]) = KeysOf(stored[c]) \cup found
        BY <2>5, <2>7, KeysOfUnion
    <3>2. proc[p].list = row[c].list
        BY <1>1, <1>3, <2>2 DEF Progress, ScanningPlaces, Holding
    <3>3. ASSUME NEW t \in ckpt'[c]
          PROVE  /\ given'[c][t] \in Results[t]
                 /\ given'[c][t] \subseteq KeysOf(stored'[c]) \cup dismissed'[c]
                 /\ \E i \in DOMAIN row'[c].list : row'[c].list[i] = t
      <4>1. CASE t = s
          BY <2>1, <2>4, <2>7, <3>1, <3>2, <4>1
      <4>2. CASE t # s
        <5>1. t \in ckpt[c] /\ given'[c][t] = given[c][t]
            BY <2>7, <2>8, <3>3, <4>2
        <5>2. /\ given[c][t] \in Results[t] /\ \E i \in DOMAIN row[c].list : row[c].list[i] = t
              /\ given[c][t] \subseteq KeysOf(stored[c]) \cup dismissed[c]
            BY <1>1, <5>1 DEF Kept
        <5> QED
            BY <2>4, <3>1, <5>1, <5>2
      <4> QED
          BY <4>1, <4>2
    <3>4. KeysOf(stored[c])' = KeysOf(stored'[c])
        BY DEF KeysOf
    <3> QED
        BY <3>3, <3>4 DEF Kept
  <2>10. \A d \in Scans : Kept(d)'
      BY <1>1, <2>4, <2>7, <2>9, KeptSame
  <2>11. Holds(p)'
    <3>1. Answered(p) \subseteq ckpt[c] /\ ~ proc[p].fatal
        BY <1>1, <1>3, <2>2, AnsweredCovered DEF Holds, ScanningPlaces, Holding
    <3>2. \A t \in Answered(p) : given[c][t] \subseteq Held(p) \cup dismissed[c]
        BY <1>1, <1>3, <2>2 DEF Holds, Holding
    <3>3. \A t \in Answered(p)' : given'[c][t] \subseteq Held(p)' \cup dismissed'[c]
        BY <2>4, <2>6, <2>7, <2>8, <3>1, <3>2
    <3> QED
        BY <2>2, <2>3, <3>1, <3>3 DEF Holds, DeletingPlaces
\* Nobody is deleting the scan meanwhile.
  <2>12. ASSUME NEW q \in Procs \ {p}, proc[q].pc \in DeletingPlaces
         PROVE  ckpt'[proc[q].scan] \subseteq ckpt[proc[q].scan]
    <3>1. proc[q].scan \in Scans /\ proc[q].scan # c
        BY <1>3, <2>12 DEF OverlapInv, CoverageInv, TypeInv, GoodProc, ProcSet, Apart, DeletingPlaces
    <3> QED
        BY <2>7, <3>1
  <2> QED
      BY <2>3, <2>4, <2>8, <2>10, <2>11, <2>12, OthersHold
<1>12. CASE CheckpointRejected(p)
    BY <1>12, OverlapExit DEF CheckpointRejected
<1>13. CASE ScannerFails(p)
    BY <1>13 DEF ScannerFails, Fault, Steady
<1>14. CASE ScannersDone(p)
  <2>1. CASE proc[p].fatal /\ ~ proc[p].ok
      BY <1>14, <2>1, OverlapExit DEF ScannersDone
  <2>2. CASE ~ (proc[p].fatal /\ ~ proc[p].ok)
    <3> DEFINE x == [proc[p] EXCEPT !.pc = "agent"]
    <3>1. /\ x.scan = c /\ x.pc = "agent" /\ x.fatal = proc[p].fatal
          /\ x.mem = proc[p].mem /\ x.skip = proc[p].skip /\ x.list = proc[p].list
          /\ x.next = proc[p].next
        BY <1>1, <1>3 DEF ProcSet
    <3>2. proc' = [proc EXCEPT ![p] = x] /\ proc'[p] = x /\ proc[p].pc = "scanning"
        BY <1>1, <1>3, <1>14, <2>2 DEF ScannersDone, Goto, At
    <3> HIDE DEF x
    <3>3. Answered(p)' = Answered(p) /\ Held(p)' = Held(p)
        BY <3>1, <3>2 DEF Answered, Held, At, KeysOf
    <3> QED
        BY <1>1, <1>3, <1>4, <1>14, <3>1, <3>2, <3>3
        DEF ScannersDone, Holds, ScanningPlaces, Holding, DeletingPlaces
  <2> QED
      BY <2>1, <2>2
<1>15. ASSUME At(p, "agent"), NEW all, NEW dropped, NEW soft,
              Settle(p, all, dropped, soft),
              KeysOf(proc[p].mem) \subseteq KeysOf(all) \cup dropped,
              UNCHANGED <<row, ckpt, stored, given, dismissed>>
       PROVE  OverlapInv'
  <2>1. PICK kept \in SUBSET all :
            /\ KeysOf(kept) = KeysOf(all)
            /\ proc' = [proc EXCEPT ![p].pc = "finalize", ![p].mem = kept,
                                    ![p].dropped = dropped, ![p].soft = soft]
      BY <1>15 DEF Settle, IsDeduped
  <2> DEFINE x == [proc[p] EXCEPT !.pc = "finalize", !.mem = kept,
                                  !.dropped = dropped, !.soft = soft]
  <2>2. /\ x.scan = c /\ x.pc = "finalize" /\ x.fatal = proc[p].fatal
        /\ x.mem = kept /\ x.dropped = dropped /\ x.skip = proc[p].skip
        /\ x.list = proc[p].list /\ x.next = proc[p].next
      BY <1>1, <1>3 DEF ProcSet
  <2>3. proc' = [proc EXCEPT ![p] = x] /\ proc'[p] = x
      BY <1>1, <2>1
  <2> HIDE DEF x
  <2>4. Answered(p)' = Answered(p) /\ Held(p) \subseteq Held(p)'
    <3>1. Held(p) = KeysOf(proc[p].mem) /\ Held(p)' = KeysOf(all) \cup dropped
        BY <1>15, <2>1, <2>2, <2>3 DEF Held, At, KeysOf
    <3> QED
        BY <1>15, <2>2, <2>3, <3>1 DEF Answered
  <2> QED
      BY <1>1, <1>3, <1>4, <1>15, <2>2, <2>3, <2>4
      DEF At, Holds, ScanningPlaces, Holding, DeletingPlaces
<1>16. CASE NoAgent(p)
    BY <1>15, <1>16 DEF NoAgent
<1>17. CASE AgentFails(p)
    BY <1>15, <1>17 DEF AgentFails
<1>18. ASSUME NEW keep \in SUBSET proc[p].mem, NEW extra \in SUBSET AgentKeys,
              AgentReplaces(p, keep, extra)
       PROVE  OverlapInv'
  <2> DEFINE minted == MintedBy(FreshRun, extra)
  <2>1. KeysOf(proc[p].mem)
            \subseteq KeysOf(keep \cup minted) \cup (KeysOf(proc[p].mem) \ KeysOf(keep))
      BY KeysOfUnion
  <2> QED
      BY <1>15, <1>18, <2>1 DEF AgentReplaces
<1>19. CASE Finalize(p)
  <2>1. proc[p].pc = "finalize" /\ Alive(c)
      BY <1>1, <1>3, <1>19 DEF Finalize, At, Based
  <2>2. /\ stored' = [stored EXCEPT ![c] = proc[p].mem]
        /\ dismissed' = [dismissed EXCEPT ![c] = dismissed[c] \cup proc[p].dropped]
        /\ ckpt' = ckpt /\ given' = given
        /\ Exit(p, FinalExit(p))
      BY <1>3, <1>19, <2>1 DEF Finalize
  <2> DEFINE r == [row[c] EXCEPT !.status = FinalStatus(p),
                                 !.total = Cardinality(proc[p].mem)]
  <2>3. row' = [row EXCEPT ![c] = r] /\ r.list = row[c].list
      BY <1>1, <1>3, <1>19, <2>1 DEF Finalize, RowSet
  <2> HIDE DEF r
  <2>4. /\ proc'[p].pc = "free" /\ \A q \in Procs \ {p} : proc'[q] = proc[q]
        /\ \A d \in Scans : row'[d].list = row[d].list
        /\ stored'[c] = proc[p].mem /\ dismissed'[c] = dismissed[c] \cup proc[p].dropped
        /\ \A d \in Scans \ {c} : stored'[d] = stored[d] /\ dismissed'[d] = dismissed[d]
      BY <1>1, <2>2, <2>3 DEF Exit, Free
  <2>5. Holds(p)'
      BY <2>4 DEF Holds, ScanningPlaces, Holding, DeletingPlaces
\* The whole list has been passed, and checkpoints are of nothing else.
  <2>6. ckpt[c] \subseteq Answered(p)
    <3>1. /\ proc[p].list = row[c].list /\ proc[p].next > Len(proc[p].list)
          /\ proc[p].list \in Seq(Scanners) /\ proc[p].next \in Nat
        BY <1>1, <1>3, <2>1 DEF Progress, ScanningPlaces, Holding, ProcSet
    <3> QED
        BY <1>1, <3>1 DEF Kept, Answered
  <2>7. Kept(c)'
    <3>1. \A s \in ckpt[c] :
              given[c][s] \subseteq KeysOf(proc[p].mem) \cup proc[p].dropped \cup dismissed[c]
        BY <1>1, <1>3, <2>1, <2>6 DEF Holds, Held, At, Holding
    <3> QED
        BY <1>1, <2>2, <2>4, <3>1 DEF Kept, KeysOf
  <2>8. \A d \in Scans : Kept(d)'
      BY <1>1, <2>2, <2>4, <2>7, KeptSame
  <2>9. \A d \in Scans : dismissed[d] \subseteq dismissed'[d]
      BY <2>4
  <2> QED
      BY <2>2, <2>4, <2>5, <2>8, <2>9, OthersHold
<1>20. CASE DeleteFindings(p)
  <2>1. proc[p].pc = "delete_findings"
      BY <1>20 DEF DeleteFindings, At
  <2>2. /\ proc'[p].pc = "delete_row" /\ \A q \in Procs \ {p} : proc'[q] = proc[q]
        /\ \A d \in Scans \ {c} : stored'[d] = stored[d]
        /\ UNCHANGED <<row, ckpt, given, dismissed>>
      BY <1>1, <1>3, <1>20 DEF DeleteFindings, Goto, ProcSet
  <2>3. ckpt[c] = {} /\ proc'[p].scan = c
      BY <1>1, <1>3, <1>20, <2>1 DEF Holds, DeletingPlaces, DeleteFindings, Goto, ProcSet
  <2>4. Holds(p)'
      BY <2>2, <2>3 DEF Holds, ScanningPlaces, Holding
  <2>5. Kept(c)'
      BY <2>2, <2>3 DEF Kept
  <2>6. ASSUME NEW d \in Scans \ {c} PROVE Kept(d)'
      BY <1>1, <2>2, <2>6, KeptSame
  <2>7. \A d \in Scans : Kept(d)'
      BY <2>5, <2>6
  <2> QED
      BY <2>2, <2>4, <2>7, OthersHold
<1>21. CASE DeleteRow(p)
  <2>1. CASE row' = row
      BY <1>21, <2>1, OverlapExit DEF DeleteRow
  <2>2. CASE row' # row
    <3>1. /\ ckpt[c] = {} /\ row' = [row EXCEPT ![c] = NoRow("gone")]
          /\ UNCHANGED <<ckpt, stored, given, dismissed>>
          /\ proc'[p].pc = "free" /\ \A q \in Procs \ {p} : proc'[q] = proc[q]
        BY <1>1, <1>3, <1>21, <2>2 DEF DeleteRow, Exit, Free
    <3>2. Holds(p)'
        BY <3>1 DEF Holds, ScanningPlaces, Holding, DeletingPlaces
    <3>3. Kept(c)'
        BY <3>1 DEF Kept
    <3>4. \A d \in Scans \ {c} : row'[d] = row[d]
        BY <1>1, <3>1
    <3>5. \A d \in Scans : Kept(d)'
        BY <1>1, <3>1, <3>3, <3>4, KeptSame
    <3> QED
        BY <3>1, <3>2, <3>5, OthersHold
  <2> QED
      BY <2>1, <2>2
<1> QED
    BY <1>5, <1>6, <1>7, <1>8, <1>10, <1>11, <1>12, <1>13, <1>14, <1>16, <1>17,
       <1>18, <1>19, <1>20, <1>21 DEF Step

LEMMA OverlapInvNext ==
    ASSUME "delete" \notin Overlap, Steady, OverlapInv, NoOrphans, [Next]_vars
    PROVE  OverlapInv'
<1>1. CoverageInv'
    BY CoverageInvNext DEF OverlapInv
<1>2. CASE \E p \in Procs : Start(p)
    BY <1>1, <1>2, OverlapInvStart
<1>3. CASE \E p \in Procs : Step(p)
    BY <1>1, <1>3, OverlapInvStep
<1>4. CASE \E p \in Procs : Abort(p)
    BY <1>1, <1>4, OverlapExit DEF Abort
<1>5. CASE UNCHANGED vars
  <2>1. \A d \in Scans : Kept(d)'
      BY <1>5, KeptSame DEF vars, OverlapInv
  <2>2. ASSUME NEW p \in Procs PROVE Holds(p)'
    <3>1. Holds(p)
        BY DEF OverlapInv
    <3> QED
        BY <1>5, <3>1 DEF vars, Holds, Answered, Held, At, KeysOf
  <2> QED
      BY <1>1, <2>1, <2>2 DEF OverlapInv
<1> QED
    BY <1>2, <1>3, <1>4, <1>5 DEF Next

\* However many resumes overlap: as long as the target stays what it is and no
\* scanner fails, no invocation overwrites what another one has recorded,
\* wherever the agents fail and the operator interrupts.
THEOREM NothingLostOverlapping ==
    ASSUME "delete" \notin Overlap, Steady PROVE Spec => []NoFindingLost
<1>1. OverlapInv /\ NoOrphans /\ [Next]_vars => OverlapInv'
    BY OverlapInvNext
<1>2. OverlapInv => NoFindingLost
    BY DEF OverlapInv, Kept, NoFindingLost
<1> QED
    BY OverlapInvInit, <1>1, <1>2, ChildrenHaveRows, PTL DEF Spec
=============================================================================
