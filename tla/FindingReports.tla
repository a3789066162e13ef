-------------------------------- MODULE FindingReports --------------------------------
(***************************************************************************)
(* What a report, a list or a comparison makes of findings                 *)
(* (vest-report/src and the commands findings, report and scans).          *)
(*                                                                         *)
(* A finding is a record of what these tell apart.  confidence counts      *)
(* tenths; evidence is a set of fields; cut says that the title has more   *)
(* than 30 characters and that the third byte before the end of the 30th   *)
(* lies inside a character.                                                *)
(***************************************************************************)
EXTENDS Integers, Sequences, FiniteSets, SequencesExt

RankOrder == <<"info", "low", "medium", "high", "critical">>
\* SQLite compares the names.
NameOrder == <<"critical", "high", "info", "low", "medium">>
PlaceIn(order, severity) == CHOOSE i \in DOMAIN order : order[i] = severity

IsField(field) ==
    /\ field.key \in {"match_preview", "sensitive", "plain"} /\ field.kind \in {"string", "number"}
    /\ field.secret \in {"none", "short", "long", "known"}   \* known: of a form redact_secrets knows
IsReported(f) ==
    /\ f.severity \in Range(RankOrder) /\ f.confidence \in 0..10 /\ f.cut \in BOOLEAN
    /\ f.titled \in BOOLEAN /\ f.described \in BOOLEAN
    /\ \A field \in f.evidence : IsField(field)

\* Lists are ordered by a number of each member; those with the same one stay as they came.
Place(keys, j) == Cardinality({k \in DOMAIN keys : keys[k] < keys[j] \/ (keys[k] = keys[j] /\ k <= j)})
Ordered(seq, keys) == [i \in DOMAIN seq |-> seq[CHOOSE j \in DOMAIN seq : Place(keys, j) = i]]

\* By name or by rank of the severity, then the surest first.
NameKey(f) == 11 * PlaceIn(NameOrder, f.severity) + (10 - f.confidence)
RankKey(f) == 11 * (6 - PlaceIn(RankOrder, f.severity)) + (10 - f.confidence)
ByName(findings) == Ordered(findings, [i \in DOMAIN findings |-> NameKey(findings[i])])
ByRank(findings) == Ordered(findings, [i \in DOMAIN findings |-> RankKey(findings[i])])
Leading(seq, n) == SubSeq(seq, 1, IF n < Len(seq) THEN n ELSE Len(seq))

SeverityTotals(findings) ==
    [s \in Range(RankOrder) |-> Cardinality({i \in DOMAIN findings : findings[i].severity = s})]
StatusTotal(findings, status) == Cardinality({i \in DOMAIN findings : findings[i].status = status})

-----------------------------------------------------------------------------
\* sanitize_value: how much of a secret in a field a reader sees.
Visible(field) ==
    CASE field.secret = "none"                                       -> "none"
      [] field.key = "match_preview" /\ field.secret = "short"       -> "none"
      [] field.key = "match_preview" /\ field.kind = "string"        -> "ends"
      [] field.key = "match_preview"                                 -> "none"
      [] field.key = "sensitive" /\ field.kind = "string"            -> "none"
      [] OTHER -> IF field.kind = "string" /\ field.secret = "known" THEN "none" ELSE "all"
Sanitized(evidence, included) == IF included THEN {Visible(field) : field \in evidence} ELSE {}

\* The JSON and Markdown of a finding.
ReportEntry(f, included) == [id |-> f.id, level |-> f.severity, visible |-> Sanitized(f.evidence, included)]

\* SARIF has neither evidence nor status.
LevelOf(severity) ==
    CASE severity \in {"critical", "high"} -> "error" [] severity = "medium" -> "warning" [] OTHER -> "note"
MessageText(f) == IF ~f.described THEN {"title"} ELSE IF ~f.titled THEN {"description"} ELSE {"title", "description"}
SarifResult(f) ==
    [id |-> f.id, level |-> LevelOf(f.severity), visible |-> {}, rule |-> f.class, message |-> MessageText(f)]

\* truncate slices bytes: a title of which the cut falls into a character ends the program.
TerminalFails(findings) ==
    \E i \in DOMAIN findings : i <= 10 /\ ByRank(findings)[i].cut

Formats == {"json", "sarif", "markdown", "terminal"}
Extension(format) ==
    CASE format = "json" -> "json" [] format = "sarif" -> "sarif" [] format = "markdown" -> "md" [] OTHER -> "txt"

\* What a report of findings, in the order they are stored in, shows.
Rendered(format, findings, included) ==
    CASE format = "json"     -> [i \in DOMAIN findings |-> ReportEntry(findings[i], included)]
      [] format = "sarif"    -> [i \in DOMAIN findings |-> SarifResult(findings[i])]
      [] format = "markdown" -> LET sorted == ByRank(findings)
                                IN  [i \in DOMAIN sorted |-> ReportEntry(sorted[i], included)]
      [] OTHER               -> LET first == Leading(ByRank(findings), 10)
                                IN  [i \in DOMAIN first |-> ReportEntry(first[i], FALSE)]
=============================================================================
