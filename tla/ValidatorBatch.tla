---------------------------- MODULE ValidatorBatch ----------------------------
(***************************************************************************)
(* The validator at work on a batch of findings, one after the other, with *)
(* an LLM or with its heuristics; and what becomes of a batch when a       *)
(* resumed scan hands in again what an earlier validation kept.            *)
(***************************************************************************)
EXTENDS FindingRules

CONSTANTS
    Batches,        \* batches of findings: sequences
    SaidConfidence, \* confidences an LLM may state, in tenths
    MaxRounds       \* how often a batch is looked at (resumes have no limit)

ASSUME BatchAssumption ==
    /\ SaidConfidence \subseteq 0..10 /\ MaxRounds \in Nat \ {0}
    /\ \A batch \in Batches : batch \in Seq(Finding)

VARIABLES
    vlJob,      \* the batch, and how the validator was built
    vlRound,    \* how often it has been begun; 0: not at all
    vlNow,      \* position -> the finding as it stands, or Gone
    vlNext,     \* the position that is next
    vlHeard     \* position -> the LLM's reply in this round (history)

vlVars == <<vlJob, vlRound, vlNow, vlNext, vlHeard>>

Gone == <<>>
NoReply == [wrong |-> "unasked", decision |-> "uncertain", severity |-> NoSeverity, confidence |-> 0]
NoJob == [batch |-> <<>>, llm |-> FALSE, strict |-> FALSE]

\* What is said besides matters only in a reply that is well formed.
SomeReplies == {r \in LlmReplies(SaidConfidence) :
                  ~IsVerdict(r) => r = [NoReply EXCEPT !.wrong = r.wrong, !.confidence = r.confidence]}

VlTypeOK ==
    /\ vlJob \in [batch : Batches, llm : BOOLEAN, strict : BOOLEAN] \cup {NoJob}
    /\ vlRound \in 0..MaxRounds /\ vlNext \in 1..(Len(vlJob.batch) + 1)
    /\ \A i \in DOMAIN vlNow : vlNow[i] = Gone \/ IsFinding(vlNow[i][1])
    /\ DOMAIN vlNow = DOMAIN vlJob.batch /\ DOMAIN vlHeard = DOMAIN vlNow

VlInit ==
    /\ vlJob = NoJob /\ vlRound = 0 /\ vlNext = 1
    /\ vlNow = <<>> /\ vlHeard = <<>>

VlBegin(job) ==
    /\ vlRound = 0
    /\ vlJob' = job /\ vlRound' = 1
    /\ vlNow' = [i \in DOMAIN job.batch |-> <<job.batch[i]>>]
    /\ vlHeard' = [i \in DOMAIN job.batch |-> NoReply]
    /\ UNCHANGED vlNext

Pending == vlRound > 0 /\ vlNext <= Len(vlJob.batch)

\* A finding that is gone was not handed in.
SkipGone ==
    /\ Pending /\ vlNow[vlNext] = Gone
    /\ vlNext' = vlNext + 1
    /\ UNCHANGED <<vlJob, vlRound, vlNow, vlHeard>>

JudgeAlone ==
    /\ Pending /\ ~vlJob.llm /\ vlNow[vlNext] # Gone
    /\ vlNow' = [vlNow EXCEPT ![vlNext] = KeepHeuristic(@[1], vlJob.strict)]
    /\ vlNext' = vlNext + 1
    /\ UNCHANGED <<vlJob, vlRound, vlHeard>>

JudgeWithLlm(reply) ==
    /\ Pending /\ vlJob.llm /\ vlNow[vlNext] # Gone
    /\ vlNow' = [vlNow EXCEPT ![vlNext] = KeepJudged(@[1], reply, vlJob.strict)]
    /\ vlHeard' = [vlHeard EXCEPT ![vlNext] = reply]
    /\ vlNext' = vlNext + 1
    /\ UNCHANGED <<vlJob, vlRound>>

\* The scan failed after its agent phase and is resumed: what was kept is
\* stored and comes back as the scanners' findings.  Scans validate without an LLM.
HandInAgain ==
    /\ vlRound \in 1..(MaxRounds - 1) /\ ~Pending /\ ~vlJob.llm
    /\ vlRound' = vlRound + 1 /\ vlNext' = 1
    /\ vlHeard' = [i \in DOMAIN vlHeard |-> NoReply]
    /\ UNCHANGED <<vlJob, vlNow>>

VlNext ==
    \/ \E batch \in Batches, llm, strict \in BOOLEAN :
         VlBegin([batch |-> batch, llm |-> llm, strict |-> strict])
    \/ SkipGone \/ JudgeAlone \/ HandInAgain
    \/ \E reply \in SomeReplies : JudgeWithLlm(reply)

VlSpec == VlInit /\ [][VlNext]_vlVars

-----------------------------------------------------------------------------
BatchEnded == vlRound > 0 /\ ~Pending

\* A provider that fails and replies that make no sense cost no finding: one that
\* is gone after the first round was called a false positive by the reply about
\* it, or left undecided by it in strict mode.
BatchSurvives ==
    BatchEnded /\ vlRound = 1 /\ vlJob.llm =>
        \A i \in DOMAIN vlNow :
            vlNow[i] = Gone =>
                /\ IsVerdict(vlHeard[i])
                /\ vlHeard[i].decision \in {"false_positive"} \cup
                                           (IF vlJob.strict THEN {"uncertain"} ELSE {})

\* However often a scan is resumed, the heuristics lose no finding of a class that
\* is known or can be guessed which is not mere information without evidence and
\* was not negligible when it was reported.
OnlyNoiseErodes ==
    BatchEnded /\ ~vlJob.llm /\ ~vlJob.strict =>
        \A i \in DOMAIN vlNow :
            LET first == Enriched(vlJob.batch[i])
            IN  first.class # "Unknown" /\ ~Noise(first) /\ first.confidence >= 1
                    => vlNow[i] # Gone

\* Both, as one: neither a provider that fails nor one resume after the other costs a
\* finding that was worth keeping.
FindingsSurvive == BatchSurvives /\ OnlyNoiseErodes
=============================================================================
