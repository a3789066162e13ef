----------------------------- MODULE FindingRules -----------------------------
(***************************************************************************)
(* What the agents' side does to one finding: the guess of its class from  *)
(* its title, the heuristic rules of the validator, the reading of an LLM  *)
(* verdict, and the memory of false positives.                             *)
(*                                                                         *)
(* A finding is a record of what these rules look at.  Confidence counts   *)
(* tenths.                                                                 *)
(***************************************************************************)
EXTENDS Integers, Sequences

CONSTANTS
    Titles,         \* titles of findings
    TitleClass      \* title -> the class its words suggest, or "Unknown"

ASSUME TitleAssumption == DOMAIN TitleClass = Titles

Severities == {"critical", "high", "medium", "low", "info"}
Verdicts == {"confirmed", "downgraded", "false_positive", "uncertain"}

Locations == {"here", "there"}

\* evidence: whether there is any.
Finding ==
    [title : Titles, class : {"Unknown"} \cup {TitleClass[t] : t \in Titles}, severity : Severities,
     confidence : 0..10, evidence : BOOLEAN, location : Locations, status : {"open", "confirmed"}]
IsFinding(f) == f \in Finding

\* The severity estimate is a function of the severity and is left out.
Enriched(f) == IF f.class = "Unknown" THEN [f EXCEPT !.class = TitleClass[f.title]] ELSE f

-----------------------------------------------------------------------------
\* What rules 2 and 4 leave of the confidence of an enriched finding.
Noise(f) == f.severity = "info" /\ ~f.evidence
Remaining(f) == f.confidence - (IF Noise(f) THEN 3 ELSE 0) - (IF f.class = "Unknown" THEN 2 ELSE 0)

\* Rules 1 and 3: low confidence makes a finding uncertain, and a critical one
\* a high one that is taken for confirmed.
Suspect(f) == f.confidence < 3
TooCritical(f) == f.severity = "critical" /\ f.confidence < 5

\* Rule 5 compares with 0.1.  In binary arithmetic 0.3 - 0.2 is a little less
\* than 0.1, and 0.4 - 0.3 a little more.
Negligible(f) == Remaining(f) < 1 \/ (Remaining(f) = 1 /\ f.class = "Unknown")

Decision(f) ==
    CASE TooCritical(f)                -> "downgraded"
      [] Suspect(f) /\ ~TooCritical(f) -> "uncertain"
      [] OTHER                         -> "confirmed"

\* An uncertain finding is dropped only when its confidence was negligible
\* before the rules took from it.
HeuristicVerdict(f) ==
    IF Negligible(f) /\ (Decision(f) # "uncertain" \/ f.confidence < 1)
    THEN "false_positive" ELSE Decision(f)

\* Seeded bug: the confidence is not held at 0.
HeuristicFinding_Unclamped(f) ==
    LET e == Enriched(f) IN [e EXCEPT !.confidence = Remaining(e)]

\* The enriched finding with the validated severity and confidence.
HeuristicFinding(f) ==
    LET e == Enriched(f)
        verdict == HeuristicVerdict(e)
    IN  [e EXCEPT !.severity = IF verdict = "downgraded" THEN "high" ELSE @,
                  !.confidence = IF Remaining(e) > 0 THEN Remaining(e) ELSE 0,
                  !.status = IF verdict = "uncertain" THEN @ ELSE "confirmed"]

\* What the validator keeps without a provider: at most one finding, as a sequence.
KeepHeuristic(f, strict) ==
    LET verdict == HeuristicVerdict(Enriched(f))
    IN  IF verdict = "false_positive" \/ (verdict = "uncertain" /\ strict)
        THEN <<>> ELSE <<HeuristicFinding(f)>>

-----------------------------------------------------------------------------
(***************************************************************************)
(* With a provider each finding is put to the LLM.  Its reply is checked:  *)
(* one that is no JSON object, is about another finding, or has a          *)
(* decision, a severity, a reasoning or a confidence out of range is       *)
(* malformed.                                                              *)
(***************************************************************************)
NoSeverity == "null"
Malformations == {"no object", "other finding", "decision", "severity", "reasoning", "confidence"}

\* A reply: what is wrong with it, if anything, and what it says.
LlmReplies(confidences) ==
    [wrong : Malformations \cup {"nothing", "provider error"}, decision : Verdicts,
     severity : Severities \cup {NoSeverity}, confidence : confidences]

IsVerdict(reply) == reply.wrong = "nothing"

Judged(f, reply) ==
    Enriched([f EXCEPT !.severity = IF reply.severity = NoSeverity THEN @ ELSE reply.severity,
                       !.confidence = reply.confidence,
                       !.status = IF reply.decision = "uncertain" THEN @ ELSE "confirmed"])

\* Seeded bug: what cannot be validated is dropped.
KeepJudged_OrDrop(f, reply, strict) ==
    IF ~IsVerdict(reply) \/ reply.decision \in {"false_positive"} \cup (IF strict THEN {"uncertain"} ELSE {})
    THEN <<>> ELSE <<Judged(f, reply)>>

KeepJudged(f, reply, strict) ==
    CASE ~IsVerdict(reply)                          -> <<Enriched(f)>>
      [] IsVerdict(reply) /\ reply.decision = "false_positive" -> <<>>
      [] IsVerdict(reply) /\ reply.decision = "uncertain" /\ strict -> <<>>
      [] OTHER                                      -> <<Judged(f, reply)>>

-----------------------------------------------------------------------------
(***************************************************************************)
(* The memory of false positives knows a finding by its title and class,   *)
(* or, for the same target, by a reason that contains its title or         *)
(* description or is contained in them.                                    *)
(***************************************************************************)
Pattern(f) == [title |-> f.title, class |-> f.class]

\* entries: records of a pattern, a target and the titles its reason matches.
IsKnownFalsePositive(f, target, entries) ==
    \/ \E e \in entries : e.pattern = Pattern(f)
    \/ \E e \in entries : e.target = target /\ f.title \in e.matches

\* Recording a false positive replaces what was recorded under its pattern.
RecordFalsePositive(f, target, matches, entries) ==
    {e \in entries : e.pattern # Pattern(f)}
    \cup {[pattern |-> Pattern(f), target |-> target, matches |-> matches]}

\* Confirmed patterns are counted.
RecordConfirmed(f, counts) ==
    [p \in DOMAIN counts \cup {Pattern(f)} |->
        (IF p \in DOMAIN counts THEN counts[p] ELSE 0) + (IF p = Pattern(f) THEN 1 ELSE 0)]
=============================================================================
