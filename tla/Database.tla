------------------------------- MODULE Database -------------------------------
(***************************************************************************)
(* The database as the commands share it (vest-storage/src): scans that    *)
(* write, scans delete, findings validate and targets, each with its       *)
(* statements in order, and what reports and lists tell of it.             *)
(* ScanLifecycle has the life of a scan in detail; here it only writes.    *)
(*                                                                         *)
(* A row has a key and the keys it refers to; SQLite refuses a row without *)
(* what it refers to, and the loss of what others refer to.  Artifacts and *)
(* agent actions are never stored by a command.                            *)
(***************************************************************************)
EXTENDS FindingReports

CONSTANTS
    DbScans,        \* ids of scans; each has a target of the same id
    DbAgents,       \* those of them that are run with agents: a resume keeps the provider
    DbFindings,     \* id -> what a scanner found: a record of FindingReports, and its scan
    DbCorruptible,  \* findings whose rows may become unreadable
    DbQuestions     \* what may be asked: see IsQuestion

IsQuestion(q) ==
    /\ q.what \in {"findings list", "findings show", "findings stats", "scans list", "scans show",
                   "targets list", "report generate", "report compare"}
    /\ q.limit \in Nat /\ q.evidence \in BOOLEAN

ASSUME DatabaseAssumption ==
    /\ DbAgents \subseteq DbScans /\ "" \notin DbScans \cup DOMAIN DbFindings
    /\ \A f \in DOMAIN DbFindings : IsReported(DbFindings[f]) /\ DbFindings[f].scan \in DbScans
    /\ DbCorruptible \subseteq DOMAIN DbFindings
    /\ \A q \in DbQuestions : IsQuestion(q)

VARIABLES
    dbRows,     \* the rows of all tables
    dbRun,      \* a vest scan: its scan, and the findings it holds with their status
    dbDelete,   \* a scans delete: its scan, its next statement, and whether others wrote (history)
    dbTriage,   \* a findings validate: the finding it has read, or ""
    dbAnswer    \* the answer to the one question asked

dbVars == <<dbRows, dbRun, dbDelete, dbTriage, dbAnswer>>

RowKey(table, id) == [table |-> table, id |-> id]
Row(key, refs, status) == [key |-> key, refs |-> refs, status |-> status, readable |-> TRUE]
NoScanRun == [scan |-> "", held |-> <<>>]
NoDelete == [scan |-> "", next |-> 0, raced |-> FALSE]
NothingAsked == [exit |-> "unasked", what |-> "", id |-> "", severity |-> "", shown |-> <<>>, totals |-> <<>>, file |-> ""]
\* Seeded bug: the checkpoints are forgotten.
DeleteStatements_NoCheckpoints == <<"agent_actions", "artifacts", "findings", "scans">>

\* delete_scan
DeleteStatements == <<"scan_scanner_checkpoints", "agent_actions", "artifacts", "findings", "scans">>

DbTypeOK ==
    /\ \A row \in dbRows : row.key.table \in {"targets", "scans", "findings", "scan_scanner_checkpoints"}
    /\ \A r1, r2 \in dbRows : r1.key = r2.key => r1 = r2
    /\ dbRun.scan \in DbScans \cup {""} /\ DOMAIN dbRun.held \subseteq DOMAIN DbFindings
    /\ dbDelete.next \in 0..(Len(DeleteStatements) + 1)
    /\ dbTriage \in DOMAIN DbFindings \cup {""}

DbInit ==
    /\ dbRows = {} /\ dbRun = NoScanRun /\ dbDelete = NoDelete /\ dbTriage = "" /\ dbAnswer = NothingAsked

-----------------------------------------------------------------------------
(* Statements *)
Keys(rows) == {row.key : row \in rows}
At(key) == CHOOSE row \in dbRows : row.key = key
InStore(key) == key \in Keys(dbRows)
Children(rows, key) == {row \in rows : key \in row.refs}

\* A statement or transaction may leave these rows when every reference leads to a row.
Allowed(rows) == \A row \in rows : row.refs \subseteq Keys(rows)

FindingRow(f, status) ==
    LET s == DbFindings[f].scan
    IN  Row(RowKey("findings", f), {RowKey("scans", s), RowKey("targets", s)}, status)
CheckpointRow(s) == Row(RowKey("scan_scanner_checkpoints", s), {RowKey("scans", s)}, "completed")
ScanFindings(s) == {row \in Children(dbRows, RowKey("scans", s)) : row.key.table = "findings"}
Readable(rows) == \A row \in rows : row.readable
WithStatus(key, status) == (dbRows \ {At(key)}) \cup {[At(key) EXCEPT !.status = status]}

-----------------------------------------------------------------------------
(* vest scan *)
Unasked == dbAnswer = NothingAsked

\* start_running_scan: one transaction.
ScanStarts(s) ==
    /\ Unasked /\ dbRun = NoScanRun
    /\ ~InStore(RowKey("targets", s)) /\ ~InStore(RowKey("scans", s))
    /\ dbRows' = dbRows \cup {Row(RowKey("targets", s), {}, ""), Row(RowKey("scans", s), {RowKey("targets", s)}, "running")}
    /\ dbRun' = [scan |-> s, held |-> <<>>]
    /\ UNCHANGED <<dbDelete, dbTriage, dbAnswer>>

\* resume_scan: the findings are read once, then the status is written.
ScanResumes(s) ==
    /\ Unasked /\ dbRun = NoScanRun
    /\ InStore(RowKey("scans", s)) /\ At(RowKey("scans", s)).status # "completed" /\ Readable(ScanFindings(s))
    /\ dbRun' = [scan |-> s,
                 held |-> [f \in {row.key.id : row \in ScanFindings(s)} |-> At(RowKey("findings", f)).status]]
    /\ dbRows' = WithStatus(RowKey("scans", s), "running")
    /\ UNCHANGED <<dbDelete, dbTriage, dbAnswer>>

Raced(s) == dbDelete' = [dbDelete EXCEPT !.raced = @ \/ (dbDelete.scan = s /\ dbDelete.next > 0)]
RunFails == dbRun' = NoScanRun /\ UNCHANGED <<dbRows, dbDelete, dbTriage, dbAnswer>>

\* persist_scanner_checkpoint: the findings and the checkpoint, or neither.
Holding(held, f) == [g \in DOMAIN held \cup {f} |-> IF g = f THEN "open" ELSE held[g]]
RunCheckpoints(f) ==
    LET s == DbFindings[f].scan
        rows == dbRows \cup {FindingRow(f, "open"), CheckpointRow(s)}
    IN  /\ Unasked /\ dbRun.scan = s /\ f \notin DOMAIN dbRun.held
        /\ \/ /\ Allowed(rows)
              /\ dbRows' = rows
              /\ dbRun' = [dbRun EXCEPT !.held = Holding(@, f)]
              /\ Raced(s) /\ UNCHANGED <<dbTriage, dbAnswer>>
           \/ ~Allowed(rows) /\ RunFails

\* Seeded bug: what a resumed scan holds is stored as new.
Restored_Open(f, status) == FindingRow(f, "open")

\* A finding is stored as the scan holds it.
Restored(f, status) == FindingRow(f, status)

\* finalize_scan: the report first, then one transaction replaces the findings and
\* writes the row.  Agents may confirm findings or drop them.
RunFinalizes(dropped, confirmed, degraded) ==
    LET s == dbRun.scan
        kept == DOMAIN dbRun.held \ dropped
        rows == {Restored(f, IF f \in confirmed THEN "confirmed" ELSE dbRun.held[f]) : f \in kept}
        others == dbRows \ (ScanFindings(s) \cup {row \in dbRows : row.key = RowKey("scans", s)})
        row == Row(RowKey("scans", s), {RowKey("targets", s)}, IF degraded THEN "failed" ELSE "completed")
    IN  /\ Unasked /\ dbRun # NoScanRun
        /\ s \notin DbAgents => dropped \cup confirmed = {}
        /\ \/ /\ InStore(RowKey("scans", s))
              /\ dbRows' = others \cup rows \cup {row}
              /\ dbRun' = NoScanRun
              /\ Raced(s) /\ UNCHANGED <<dbTriage, dbAnswer>>
           \/ ~InStore(RowKey("scans", s)) /\ RunFails

\* The process ends, killed or by a report that cannot be rendered.
RunDies == Unasked /\ dbRun # NoScanRun /\ RunFails

-----------------------------------------------------------------------------
(* scans delete *)
DeleteBegins(s) ==
    /\ Unasked /\ dbDelete = NoDelete
    /\ dbDelete' = [scan |-> s, next |-> 1, raced |-> FALSE]
    /\ UNCHANGED <<dbRows, dbRun, dbTriage, dbAnswer>>

Doomed(table, s) ==
    {row \in dbRows : row.key.table = table /\ (row.key = RowKey("scans", s) \/ RowKey("scans", s) \in row.refs)}

DeleteStep ==
    LET rows == dbRows \ Doomed(DeleteStatements[dbDelete.next], dbDelete.scan)
    IN  /\ Unasked /\ dbDelete.next \in 1..Len(DeleteStatements)
        /\ \/ Allowed(rows) /\ dbRows' = rows /\ dbDelete' = [dbDelete EXCEPT !.next = @ + 1]
           \/ ~Allowed(rows) /\ dbDelete' = [dbDelete EXCEPT !.next = 0] /\ UNCHANGED dbRows
        /\ UNCHANGED <<dbRun, dbTriage, dbAnswer>>
\* It is over, or dies before that.
DeleteEnds ==
    /\ Unasked /\ dbDelete # NoDelete
    /\ dbDelete' = NoDelete
    /\ UNCHANGED <<dbRows, dbRun, dbTriage, dbAnswer>>

-----------------------------------------------------------------------------
(* findings validate, targets add and remove *)
TriageReads(f) ==
    /\ Unasked /\ dbTriage = "" /\ InStore(RowKey("findings", f)) /\ At(RowKey("findings", f)).readable
    /\ dbTriage' = f
    /\ UNCHANGED <<dbRows, dbRun, dbDelete, dbAnswer>>

\* A confidence below 0.3 or above 0.8 decides; a finding that is gone is an error.
TriageVerdict(f) ==
    IF DbFindings[f].confidence < 3 THEN {"false_positive"}
    ELSE IF DbFindings[f].confidence > 8 THEN {"confirmed"} ELSE {}
TriageWrites ==
    /\ Unasked /\ dbTriage # "" /\ dbTriage' = ""
    /\ \/ /\ InStore(RowKey("findings", dbTriage))
          /\ \E status \in TriageVerdict(dbTriage) : dbRows' = WithStatus(RowKey("findings", dbTriage), status)
       \/ (~InStore(RowKey("findings", dbTriage)) \/ TriageVerdict(dbTriage) = {}) /\ UNCHANGED dbRows
    /\ UNCHANGED <<dbRun, dbDelete, dbAnswer>>

\* targets remove: an error is printed, and the exit code is 0 all the same.
RemoveTarget(t) ==
    LET rows == {row \in dbRows : row.key # RowKey("targets", t)}
    IN  /\ Unasked /\ Allowed(rows) /\ dbRows' = rows
        /\ UNCHANGED <<dbRun, dbDelete, dbTriage, dbAnswer>>
AddTarget(t) ==
    /\ Unasked /\ ~InStore(RowKey("targets", t))
    /\ dbRows' = dbRows \cup {Row(RowKey("targets", t), {}, "")}
    /\ UNCHANGED <<dbRun, dbDelete, dbTriage, dbAnswer>>

\* A row is spoilt by hand.
Spoiled(f) ==
    /\ Unasked /\ InStore(RowKey("findings", f)) /\ At(RowKey("findings", f)).readable
    /\ dbRows' = (dbRows \ {At(RowKey("findings", f))}) \cup {[At(RowKey("findings", f)) EXCEPT !.readable = FALSE]}
    /\ UNCHANGED <<dbRun, dbDelete, dbTriage, dbAnswer>>

-----------------------------------------------------------------------------
(* Questions *)
ToReport(row) ==
    LET f == DbFindings[row.key.id]
    IN  [id |-> row.key.id, status |-> row.status, severity |-> f.severity, confidence |-> f.confidence, class |-> f.class,
         cut |-> f.cut, titled |-> f.titled, described |-> f.described, evidence |-> f.evidence]
\* Seeded bug: the surest finding comes first, however harmless it is.
Listed_BySureness(rows) ==
    LET findings == SetToSeq({ToReport(row) : row \in rows})
    IN  Ordered(findings, [i \in DOMAIN findings |-> 10 - findings[i].confidence])

\* list_findings_by_scan; a row that cannot be read spoils the list.
Listed(rows) == ByName(SetToSeq({ToReport(row) : row \in rows}))
OrNone(rows) == IF Readable(rows) THEN Listed(rows) ELSE <<>>
Told(q, exit, shown, totals, file) ==
    [exit |-> exit, what |-> q.what, id |-> q.id, severity |-> q.severity, shown |-> shown, totals |-> totals,
     file |-> file]

\* findings list reads columns, never the whole row.
ListFindings(q) ==
    LET rows == {row \in dbRows : row.key.table = "findings" /\ q.severity \in {"", ToReport(row).severity}
                                  /\ (q.id = "" \/ RowKey("scans", q.id) \in row.refs)}
    IN  Told(q, "ok", Leading(Listed(rows), q.limit), <<>>, "")
ShowFinding(q) ==
    LET key == RowKey("findings", q.id)
    IN  IF InStore(key) /\ At(key).readable THEN Told(q, "ok", Listed({At(key)}), <<>>, "")
        ELSE Told(q, "FindingNotFound", <<>>, <<>>, "")
ShowScan(q) ==
    CASE ~InStore(RowKey("scans", q.id))                            -> Told(q, "InvalidInput", <<>>, <<>>, "")
      [] InStore(RowKey("scans", q.id)) /\ ~Readable(ScanFindings(q.id)) -> Told(q, "Storage", <<>>, <<>>, "")
      [] OTHER -> Told(q, "ok", Leading(ByRank(Listed(ScanFindings(q.id))), 10), <<>>, "")
\* A list of findings that cannot be read counts as none.
GenerateReport(q) ==
    LET findings == OrNone(ScanFindings(q.id))
    IN  CASE ~InStore(RowKey("scans", q.id)) -> Told(q, "InvalidInput", <<>>, <<>>, "")
          [] InStore(RowKey("scans", q.id)) /\ q.format \notin Formats -> Told(q, "UnsupportedFormat", <<>>, <<>>, "")
          [] q.format = "terminal" /\ TerminalFails(findings) -> Told(q, "panic", <<>>, <<>>, "")
          [] OTHER -> Told(q, "ok", Rendered(q.format, findings, q.evidence), SeverityTotals(findings),
                           Extension(q.format))
\* Scans that are unknown have no findings.
CompareScans(q) ==
    Told(q, "ok", <<>>, [s \in {q.id, q.other} |-> LET findings == OrNone(ScanFindings(s)) IN
                            <<SeverityTotals(findings), StatusTotal(findings, "confirmed"),
                              StatusTotal(findings, "false_positive")>>], "")
\* Rows are counted, readable or not.
Table(table) == {row \in dbRows : row.key.table = table}
FindingsStats(q) ==
    LET findings == Listed(Table("findings"))
    IN  Told(q, "ok", <<>>, <<SeverityTotals(findings), StatusTotal(findings, "confirmed"),
                              StatusTotal(findings, "false_positive"),
                              Cardinality(Table("scans")), Cardinality(Table("targets"))>>, "")
\* Lists of scans and of targets tell how many there are; theirs can always be read.
ListRows(q, table) ==
    Told(q, "ok", <<>>, Leading([i \in 1..Cardinality(Table(table)) |-> table],
                                IF table = "scans" THEN q.limit ELSE Cardinality(dbRows)), "")
AnswerTo(q) ==
    CASE q.what = "findings list"   -> ListFindings(q)
      [] q.what = "findings show"   -> ShowFinding(q)
      [] q.what = "scans show"      -> ShowScan(q)
      [] q.what = "report generate" -> GenerateReport(q)
      [] q.what = "report compare"  -> CompareScans(q)
      [] q.what = "findings stats"  -> FindingsStats(q)
      [] q.what = "scans list"      -> ListRows(q, "scans")
      [] q.what = "targets list"    -> ListRows(q, "targets")
\* Asked while nothing is under way: what a command leaves between two statements is
\* also what it leaves when it dies there.
Ask(q) ==
    /\ Unasked /\ dbRows # {} /\ dbRun = NoScanRun /\ dbDelete = NoDelete /\ dbTriage = ""
    /\ dbAnswer' = AnswerTo(q)
    /\ UNCHANGED <<dbRows, dbRun, dbDelete, dbTriage>>

DbStep ==
    \/ \E s \in DbScans : ScanStarts(s) \/ ScanResumes(s)
    \/ \E f \in DOMAIN DbFindings : RunCheckpoints(f) \/ TriageReads(f)
    \/ \E dropped, confirmed \in SUBSET DOMAIN dbRun.held, degraded \in BOOLEAN :
           RunFinalizes(dropped, confirmed, degraded)
    \/ RunDies \/ DeleteStep \/ DeleteEnds \/ TriageWrites
    \/ \E s \in DbScans : DeleteBegins(s) \/ RemoveTarget(s) \/ AddTarget(s)
    \/ \E f \in DbCorruptible : Spoiled(f)
    \/ \E q \in DbQuestions : Ask(q)
DbSpec == DbInit /\ [][DbStep]_dbVars

-----------------------------------------------------------------------------
\* A verdict of findings validate is lost only to another verdict, to the deletion of
\* its finding, or to a scan that runs agents or had read the finding before it.
TriageKept ==
    \A row \in dbRows :
        row.key.table = "findings" /\ row.status # "open" /\ row.key \in Keys(dbRows') =>
            LET f == row.key.id  after == CHOOSE r \in dbRows' : r.key = row.key IN
            \/ after.status = row.status
            \/ dbTriage = f /\ dbTriage' = ""
            \/ dbRun # NoScanRun /\ dbRun' = NoScanRun /\ f \in DOMAIN dbRun.held
               /\ (dbRun.scan \in DbAgents \/ dbRun.held[f] # row.status)

\* A delete touches nothing of other scans; when it reports success nothing of the scan
\* is left, and when it fails, a scan was writing and the row is there to try again.
DeletedIsGone ==
    dbDelete.next \in 1..Len(DeleteStatements) /\ dbDelete' # dbDelete /\ dbRun' = dbRun =>
        LET scan == RowKey("scans", dbDelete.scan) IN
        /\ \A row \in dbRows \ dbRows' : row.key = scan \/ scan \in row.refs
        /\ dbDelete'.next > Len(DeleteStatements) => ~InStore(scan)' /\ Children(dbRows', scan) = {}
        /\ dbDelete'.next = 0 /\ dbDelete'.scan = dbDelete.scan => dbDelete.raced /\ InStore(scan)'

\* What commands do to the database at the same time loses no verdict and no row of
\* another scan (delete_scan, finalize_scan, findings validate).
NothingIsLost == [][TriageKept /\ DeletedIsGone]_dbVars

\* A report of a scan has every finding of it, or its first ten, unless a row cannot be
\* read; a list that is cut, and of all severities, leaves out no critical or high finding
\* for a lesser one.
AnswersTell ==
    dbAnswer'.exit = "ok" /\ dbAnswer # dbAnswer' =>
        LET ids == {dbAnswer'.shown[i].id : i \in DOMAIN dbAnswer'.shown} IN
        /\ dbAnswer'.what = "report generate" =>
               \/ ids = {row.key.id : row \in ScanFindings(dbAnswer'.id)}
               \/ Cardinality(ids) = 10 \/ ~Readable(ScanFindings(dbAnswer'.id))
        /\ dbAnswer'.what = "findings list" /\ dbAnswer'.severity = "" =>
               \A row \in IF dbAnswer'.id = "" THEN Table("findings") ELSE ScanFindings(dbAnswer'.id) :
                   DbFindings[row.key.id].severity \in {"critical", "high"} /\ row.key.id \notin ids =>
                       \A f \in ids : DbFindings[f].severity \in {"critical", "high"}

\* And what they tell of it is what is there (list_findings, generate_report).
ReportsTell == [][AnswersTell]_dbVars
=============================================================================
