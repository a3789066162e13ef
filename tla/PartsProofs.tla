------------------------------ MODULE PartsProofs ------------------------------
(***************************************************************************)
(* The parts side by side: answers of a chain of providers, whatever its   *)
(* length and strategy, and of nuclei, however its end and the killer      *)
(* thread meet; the settings, for every order of writing them; a scan's    *)
(* exit codes and its comparison with a baseline; the statements that the  *)
(* commands run on the database, in every order, with their failures, and  *)
(* what reports tell of it; which file a tool may open; and that what      *)
(* holds of a part holds of the parts together.                            *)
(***************************************************************************)
EXTENDS MCParts, ScanWorkProofs

-----------------------------------------------------------------------------
(* The chain of providers *)

\* While the call goes on: nobody's answer was passed over; one after the other means that
\* whoever comes before one that was asked has been heard; at once means all or none.
ChInv ==
    /\ chCall \in Calls
    /\ chHeard \in [Asked -> Heard \cup {"unasked", "asked", "dropped"}]
    /\ chLast \in Failed
    /\ chResult = Idle \/ chResult = Running \/ chResult.is \in {"answer", "error", "models", "known"}
    /\ chResult = Running =>
         /\ Chatting \/ chCall.op = "embed" => \A p \in Asked : chHeard[p] \in Failed \cup {"unasked", "asked"}
         /\ ~Parallel => \A p, q \in Asked : p < q /\ chHeard[q] # "unasked" => chHeard[p] \notin {"unasked", "asked"}
         /\ Parallel => (\A p \in Asked : chHeard[p] = "unasked") \/ (\A p \in Asked : chHeard[p] # "unasked")
    /\ AnswerOrExhausted

\* The providers of a call are numbered from 1, and each has a client of some kind.
LEMMA AskedAreNumbers ==
    ASSUME NEW call \in Calls
    PROVE  /\ \E n \in Nat : DOMAIN call.clients = 1..n
           /\ \A p \in DOMAIN call.clients : call.clients[p] \in ClientKinds
BY ChainAssumption DEF Calls

\* A client makes an outcome of every reply.
LEMMA OutcomesAreOutcomes ==
    ASSUME NEW kind \in ClientKinds, NEW op \in ClientOps, NEW reply \in Replies
    PROVE  Outcome(kind, op, reply) \in Heard
BY DEF ClientKinds, Outcome, OpenAiOutcome, AnthropicOutcome, GoogleOutcome, Failure, Heard, Outcomes, ClientErrors

\* How a call stands is told by one word.
LEMMA Ends ==
    \A kind, value : /\ End(kind, value).is = kind /\ End(kind, value).of = value
                     /\ kind \notin {"idle", "running"} => End(kind, value) # Running /\ End(kind, value) # Idle
<1> SUFFICES ASSUME NEW kind, NEW value
             PROVE  /\ End(kind, value).is = kind /\ End(kind, value).of = value
                    /\ kind \notin {"idle", "running"} => End(kind, value) # Running /\ End(kind, value) # Idle
  OBVIOUS
<1>1. End(kind, value).is = kind /\ End(kind, value).of = value
  BY DEF End
<1>2. Running.is = "running" /\ Idle.is = "idle"
  BY DEF Running, Idle, End
<1> QED
  BY <1>1, <1>2

\* The call begins.
LEMMA ChBeginKeeps ==
    ASSUME ChInv, NEW call \in Calls, ChBegin(call)
    PROVE  ChInv'
<1>1. chCall' = call /\ chHeard' = [p \in DOMAIN call.clients |-> "unasked"] /\ chResult' = Running /\ chLast' = chLast
  BY DEF ChBegin
<1>2. chResult'.is = "running" /\ Running # Idle
  BY <1>1 DEF Running, Idle, End
<1>3. AnswerOrExhausted'
  BY <1>2 DEF AnswerOrExhausted
<1> QED
  BY <1>1, <1>3 DEF ChInv, Asked, Chatting, Parallel

\* Providers are asked.
LEMMA AskKeeps ==
    ASSUME ChInv, AskNext \/ AskAll
    PROVE  ChInv'
<1> USE DEF Asked, Chatting, Parallel
<1>0. chCall \in Calls /\ chCall' = chCall /\ chLast' = chLast /\ chResult = Running /\ chLast \in Failed
  BY DEF ChInv, AskNext, AskAll
<1>1. PICK n \in Nat : Asked = 1..n
  BY <1>0, AskedAreNumbers
<1>2. CASE AskNext
  <2>1. PICK p \in Asked : /\ chHeard[p] = "unasked" /\ \A q \in 1..(p - 1) : chHeard[q] # "unasked"
                           /\ chHeard' = [chHeard EXCEPT ![p] = "asked"]
    BY <1>2 DEF AskNext
  <2>2. ~Parallel /\ chResult' = Running /\ \A q \in Asked : chHeard[q] # "asked"
    BY <1>0, <1>2 DEF AskNext
  <2>3. chResult'.is = "running"
    BY <2>2, Ends DEF Running
  <2>4. /\ chHeard' \in [Asked -> Heard \cup {"unasked", "asked", "dropped"}]
        /\ chHeard'[p] = "asked" /\ \A q \in Asked \ {p} : chHeard'[q] = chHeard[q]
    BY <2>1 DEF ChInv
  <2>5. \A q, r \in Asked : q < r /\ chHeard[r] # "unasked" => chHeard[q] \notin {"unasked", "asked"}
    BY <1>0, <2>2 DEF ChInv
  <2>6. ASSUME NEW q \in Asked, NEW r \in Asked, q < r, chHeard'[r] # "unasked"
        PROVE  chHeard'[q] \notin {"unasked", "asked"}
    <3>1. CASE r = p
      <4>1. q \in 1..(p - 1) /\ q # p
        BY <1>1, <2>6, <3>1
      <4> QED
        BY <2>1, <2>2, <2>4, <4>1
    <3>2. CASE r # p
      <4>1. chHeard[r] # "unasked"
        BY <2>4, <2>6, <3>2
      <4>2. q # p
        BY <2>1, <2>5, <2>6, <4>1
      <4> QED
        BY <2>4, <2>5, <2>6, <4>1, <4>2
    <3> QED
      BY <3>1, <3>2
  <2>7. Chatting \/ chCall.op = "embed" => \A q \in Asked : chHeard'[q] \in Failed \cup {"unasked", "asked"}
    BY <1>0, <2>4 DEF ChInv
  <2>8. AnswerOrExhausted'
    BY <2>3 DEF AnswerOrExhausted
  <2> QED
    BY <1>0, <2>2, <2>4, <2>6, <2>7, <2>8 DEF ChInv
<1>3. CASE AskAll
  <2>1. Parallel /\ chHeard' = [p \in Asked |-> "asked"]
        /\ chResult' = IF Asked = {} THEN End("error", "Provider") ELSE Running
    BY <1>3 DEF AskAll
  <2>2. CASE Asked = {}
    <3>1. chResult'.is = "error" /\ chResult' # Running
      BY <2>1, <2>2, Ends
    <3>2. AnswerOrExhausted'
      BY <1>0, <2>2, <3>1 DEF AnswerOrExhausted
    <3> QED
      BY <1>0, <2>1, <3>1, <3>2 DEF ChInv
  <2>3. CASE Asked # {}
    <3>1. chResult' = Running /\ chResult'.is = "running"
      BY <2>1, <2>3, Ends DEF Running
    <3>2. AnswerOrExhausted'
      BY <3>1 DEF AnswerOrExhausted
    <3> QED
      BY <1>0, <2>1, <3>1, <3>2 DEF ChInv
  <2> QED
    BY <2>2, <2>3
<1> QED
  BY <1>2, <1>3

\* Whatever a provider is heard with, the call goes on, or ends as it should.
LEMMA HearKeeps ==
    ASSUME ChInv, NEW p \in Asked, NEW outcome \in Heard, Hear(p, outcome)
    PROVE  ChInv'
<1> USE DEF Asked, Chatting, Parallel
<1>0. /\ chCall \in Calls /\ chCall' = chCall /\ chResult = Running /\ chHeard[p] = "asked"
      /\ chHeard \in [Asked -> Heard \cup {"unasked", "asked", "dropped"}]
  BY DEF ChInv, Hear
<1>1. PICK n \in Nat : Asked = 1..n
  BY <1>0, AskedAreNumbers
<1>2. chLast' \in Failed
  BY DEF ChInv, Hear
<1>3. /\ chHeard' \in [Asked -> Heard \cup {"unasked", "asked", "dropped"}] /\ chHeard'[p] = outcome
      /\ \A q \in Asked \ {p} :
           chHeard'[q] = IF IsAnswer(outcome) /\ chHeard[q] = "asked" THEN "dropped" ELSE chHeard[q]
  BY <1>0 DEF Hear
<1>4. outcome \notin {"unasked", "asked", "dropped"}
  BY DEF Heard, Outcomes, ClientErrors
<1>5. /\ Chatting \/ chCall.op = "embed" => \A q \in Asked : chHeard[q] \in Failed \cup {"unasked", "asked"}
      /\ ~Parallel => \A q, r \in Asked : q < r /\ chHeard[r] # "unasked" => chHeard[q] \notin {"unasked", "asked"}
      /\ Parallel => \A q \in Asked : chHeard[q] # "unasked"
  BY <1>0 DEF ChInv
<1>6. ~Parallel => /\ \A q \in Asked : q < p => chHeard[q] \notin {"unasked", "asked"}
                   /\ \A q \in Asked : p < q => chHeard[q] = "unasked"
  BY <1>0, <1>5
<1>7. \A q \in Asked : q = p \/ q < p \/ p < q
  BY <1>1
<1>8. outcome \in Failed \/ outcome \in {"text", "empty"}
  BY DEF Heard, Outcomes, Failed
<1>9. \A f \in Failed : f \notin {"text", "empty", "unasked", "asked", "dropped"}
  BY DEF Failed, ClientErrors
<1>10. CASE IsAnswer(outcome)
  <2>0. ~IsFinal(outcome)
    BY <1>10 DEF IsAnswer, IsFinal
  <2>1. chResult' = IF chCall.op = "check" THEN End("known", TRUE) ELSE End("answer", p)
    BY <1>10, <2>0 DEF Hear
  <2>2. chResult'.is \in {"known", "answer"} /\ chResult' # Running
    BY <2>1, Ends
  <2>3. ASSUME Chatting \/ chCall.op = "embed"
        PROVE  /\ chResult'.is = "answer" /\ chResult'.of = p /\ chHeard'[p] \in {"text", "empty"}
               /\ Parallel => \A q \in Asked \ {p} : chHeard'[q] \in Failed \cup {"dropped"}
               /\ ~Parallel => \A q \in Asked \ {p} : IF q < p THEN chHeard'[q] \in Failed ELSE chHeard'[q] = "unasked"
    <3>1. chCall.op # "check" /\ chCall.op # "models" /\ outcome \notin Failed
      BY <1>10, <2>3 DEF IsAnswer
    <3>2. chResult'.is = "answer" /\ chResult'.of = p /\ chHeard'[p] \in {"text", "empty"}
      BY <1>3, <1>8, <2>1, <3>1, Ends
    <3>3. ASSUME Parallel, NEW q \in Asked \ {p} PROVE chHeard'[q] \in Failed \cup {"dropped"}
      BY <1>3, <1>5, <1>10, <3>3
    <3>4. ASSUME ~Parallel, NEW q \in Asked \ {p}
          PROVE  IF q < p THEN chHeard'[q] \in Failed ELSE chHeard'[q] = "unasked"
      BY <1>3, <1>5, <1>6, <1>7, <2>3, <3>4
    <3> QED
      BY <3>2, <3>3, <3>4
  <2>4. AnswerOrExhausted'
    BY <1>0, <2>2, <2>3 DEF AnswerOrExhausted, Answered
  <2> QED
    BY <1>0, <1>2, <1>3, <2>2, <2>4 DEF ChInv
<1>11. CASE ~IsAnswer(outcome)
  <2>1. \A q \in Asked \ {p} : chHeard'[q] = chHeard[q]
    BY <1>3, <1>11
  <2>2. Chatting \/ chCall.op = "embed" => outcome \in Failed
    BY <1>11 DEF IsAnswer
  <2>3. Chatting \/ chCall.op = "embed" => \A q \in Asked : chHeard'[q] \in Failed \cup {"unasked", "asked"}
    BY <1>3, <1>5, <2>1, <2>2
  <2>4. CASE IsFinal(outcome)
    <3>1. chResult' = End("error", outcome) /\ chCall.strategy = "NextOnRateLimit" /\ Chatting /\ outcome = "Provider"
      BY <1>11, <2>4 DEF Hear, IsFinal, Failed, ClientErrors
    <3>2. chResult'.is = "error" /\ chResult'.of = "Provider" /\ chResult' # Running
      BY <3>1, Ends
    <3>3. AnswerOrExhausted'
      BY <1>0, <1>9, <2>3, <3>1, <3>2 DEF AnswerOrExhausted, Answered
    <3> QED
      BY <1>0, <1>2, <1>3, <3>2, <3>3 DEF ChInv
  <2>5. CASE ~IsFinal(outcome) /\ \E q \in Asked : chHeard'[q] \in {"unasked", "asked"}
    <3>1. chResult' = Running
      BY <1>0, <1>11, <2>5 DEF Hear
    <3>2. chResult'.is = "running"
      BY <3>1, Ends DEF Running
    <3>3. AnswerOrExhausted'
      BY <3>2 DEF AnswerOrExhausted
    <3>4. ~Parallel => \A q, r \in Asked : q < r /\ chHeard'[r] # "unasked" => chHeard'[q] \notin {"unasked", "asked"}
      BY <1>0, <1>3, <1>4, <1>5, <2>1
    <3>5. Parallel => \A q \in Asked : chHeard'[q] # "unasked"
      BY <1>3, <1>4, <1>5, <2>1
    <3> QED
      BY <1>0, <1>2, <1>3, <2>3, <3>1, <3>3, <3>4, <3>5 DEF ChInv
  <2>6. CASE ~IsFinal(outcome) /\ ~\E q \in Asked : chHeard'[q] \in {"unasked", "asked"}
    <3>1. chResult' = Exhausted
      BY <1>0, <1>11, <2>6 DEF Hear
    <3>2. chResult'.is \in {"models", "known", "error"} /\ chResult' # Running
      BY <3>1, Ends DEF Exhausted
    <3>3. Chatting \/ chCall.op = "embed" => \A q \in Asked : chHeard'[q] \in Failed
      BY <2>3, <2>6
    <3>4. AnswerOrExhausted'
      BY <1>0, <1>9, <3>2, <3>3 DEF AnswerOrExhausted, Answered
    <3> QED
      BY <1>0, <1>2, <1>3, <3>2, <3>4 DEF ChInv
  <2> QED
    BY <2>4, <2>5, <2>6
<1> QED
  BY <1>10, <1>11

\* The fan-out runs out of time, or there was nobody to ask.
LEMMA GivenUpKeeps ==
    ASSUME ChInv, OverallTimesOut \/ NobodyToAsk
    PROVE  ChInv'
<1> USE DEF Asked, Chatting, Parallel
<1>0. chCall \in Calls /\ chCall' = chCall /\ chLast' = chLast /\ chResult = Running /\ chLast \in Failed
  BY DEF ChInv, OverallTimesOut, NobodyToAsk
<1>1. \A f \in Failed : f \notin {"text", "empty", "unasked", "asked", "dropped"}
  BY DEF Failed, ClientErrors
<1>2. CASE OverallTimesOut
  <2>1. /\ Parallel /\ chCall.overall /\ chResult' = End("error", "Timeout")
        /\ chHeard' = [p \in Asked |-> IF chHeard[p] = "asked" THEN "dropped" ELSE chHeard[p]]
    BY <1>2 DEF OverallTimesOut
  <2>2. chResult'.is = "error" /\ chResult'.of = "Timeout" /\ chResult' # Running
    BY <2>1, Ends
  <2>3. /\ chHeard' \in [Asked -> Heard \cup {"unasked", "asked", "dropped"}]
        /\ \A p \in Asked : chHeard'[p] \notin {"text", "empty"}
    BY <1>0, <1>1, <2>1 DEF ChInv
  <2>4. AnswerOrExhausted'
    BY <1>0, <2>1, <2>2, <2>3 DEF AnswerOrExhausted, Answered
  <2> QED
    BY <1>0, <2>2, <2>3, <2>4 DEF ChInv
<1>3. CASE NobodyToAsk
  <2>1. chResult' = Exhausted /\ chHeard' = chHeard /\ Asked = {}
    BY <1>3 DEF NobodyToAsk
  <2>2. chResult'.is \in {"models", "known", "error"} /\ chResult' # Running
    BY <2>1, Ends DEF Exhausted
  <2>3. AnswerOrExhausted'
    BY <1>0, <2>1, <2>2 DEF AnswerOrExhausted
  <2> QED
    BY <1>0, <2>1, <2>2, <2>3 DEF ChInv
<1> QED
  BY <1>2, <1>3

\* The invariant of the chain holds at the start.
LEMMA ChStarts ==
    ASSUME ChInit
    PROVE  ChInv
<1>1. NoCall \in Calls
  BY ChainAssumption DEF NoCall, Calls, ClientOps, Strategies
<1>2. Asked = {} /\ chResult # Running /\ chResult.is = "idle"
  <2>1. chResult = Idle /\ NoCall.clients = <<>> /\ chCall = NoCall
    BY DEF ChInit, NoCall
  <2>2. Idle.is = "idle" /\ Running.is = "running"
    BY DEF Idle, Running, End
  <2>3. DOMAIN NoCall.clients = {}
    BY <2>1
  <2> QED
    BY <2>1, <2>2, <2>3 DEF Asked
<1>3. AnswerOrExhausted
  BY <1>2 DEF AnswerOrExhausted
<1> QED
  BY <1>1, <1>2, <1>3 DEF ChInit, ChInv, Asked, Failed, ClientErrors

\* The invariant of the chain holds from step to step.
LEMMA ChMoves ==
    ASSUME ChInv, [ChNext]_chVars
    PROVE  ChInv'
<1>1. ASSUME NEW call \in Calls, ChBegin(call) PROVE ChInv'
  BY <1>1, ChBeginKeeps
<1>2. CASE AskNext \/ AskAll
  BY <1>2, AskKeeps
<1>3. CASE OverallTimesOut \/ NobodyToAsk
  BY <1>3, GivenUpKeeps
<1>4. ASSUME NEW p \in Asked, NEW reply \in Replies, ProviderReplies(p, reply) PROVE ChInv'
  <2>1. chCall \in Calls
    BY DEF ChInv
  <2>2. chCall.clients[p] \in ClientKinds /\ chCall.op \in ClientOps
    BY <2>1, AskedAreNumbers DEF Asked, Calls
  <2> QED
    BY <1>4, <2>2, OutcomesAreOutcomes, HearKeeps DEF ProviderReplies
<1>5. ASSUME NEW p \in Asked, ProviderTimesOut(p) PROVE ChInv'
  BY <1>5, HearKeeps DEF ProviderTimesOut, Heard
<1>6. CASE UNCHANGED chVars
  BY <1>6 DEF chVars, ChInv, AnswerOrExhausted, Answered, Asked, Chatting, Parallel
<1> QED
  BY <1>1, <1>2, <1>3, <1>4, <1>5, <1>6 DEF ChNext, ChStep

\* For chains of any length and every strategy: who answers in time is heard, and an
\* error means that nobody's answer was thrown away (FallbackChain of fallback.rs).
THEOREM AnsweredOrExhausted == ChSpec => []AnswerOrExhausted
<1>1. ChInit => ChInv
  BY ChStarts
<1>2. ChInv /\ [ChNext]_chVars => ChInv'
  BY ChMoves
<1>3. ChInv => AnswerOrExhausted
  BY DEF ChInv
<1> QED
  BY <1>1, <1>2, <1>3, PTL DEF ChSpec

-----------------------------------------------------------------------------
(* Nuclei *)

\* A job that is run was checked; a child that ended well has written everything; nobody
\* moves any more when the scan is over; and the killer is dismissed only after the wait.
NuInv ==
    /\ nuJob \in NuJobs \cup {NoNucleiJob}
    /\ nuStage \in {"idle", "waiting", "cancelled", "done"}
    /\ nuWritten \in 0..Len(nuJob.lines)
    /\ nuStage = "idle" => nuChild = "none" /\ nuKiller = "none" /\ nuWritten = 0
    /\ nuStage \in {"waiting", "cancelled"} => SaidAtOnce(nuJob) = "none"
    /\ nuStage \in {"cancelled", "done"} => nuChild # "running"
    /\ nuStage = "done" => nuKiller \notin {"armed", "killing"}
    /\ nuChild = "success" => nuWritten = Len(nuJob.lines)
    /\ NucleiAnswerIsWhole

\* What is said of a job before it is run is an answer only if the scanner is off.
LEMMA SaidOk ==
    ASSUME NEW job, SaidAtOnce(job) = "ok"
    PROVE  ~job.enabled
BY DEF SaidAtOnce

\* A job of which nothing is said at once has consent, a program and allowed templates.
LEMMA SaidNone ==
    ASSUME NEW job, SaidAtOnce(job) = "none"
    PROVE  job.consent /\ FindBinary(job) # "none" /\ job.templates \subseteq {"inside"}
BY DEF SaidAtOnce, TemplatesAllowed

\* The lines of a job, also of none, are counted by a natural number.
LEMMA LinesCounted ==
    \A job \in NuJobs \cup {NoNucleiJob} : Len(job.lines) \in Nat /\ DOMAIN job.lines = 1..Len(job.lines)
<1>1. \A job \in NuJobs : job.lines \in Seq({"finding", "noise"})
  BY NucleiAssumption DEF IsNucleiJob
<1>2. NoNucleiJob.lines = <<>>
  BY DEF NoNucleiJob
<1>3. NoNucleiJob.lines \in Seq({"finding", "noise"})
  BY <1>2
<1> QED
  BY <1>1, <1>3

\* The scan begins.
LEMMA NuBeginKeeps ==
    ASSUME NuInv, NEW job \in NuJobs, NuBegin(job)
    PROVE  NuInv'
<1>1. nuJob' = job /\ nuWritten' = 0 /\ nuWritten' \in 0..Len(job.lines) /\ nuResult' = NoAnswer(SaidAtOnce(job))
  BY LinesCounted DEF NuInv, NuBegin
<1>2. CASE SaidAtOnce(job) # "none"
  <2>1. nuStage' = "done" /\ nuChild' = "none" /\ nuKiller' = "none"
    BY <1>2 DEF NuInv, NuBegin
  <2>2. nuResult'.why = "ok" => ~job.enabled
    BY <1>1, SaidOk DEF NoAnswer
  <2> QED
    BY <1>1, <2>1, <2>2 DEF NuInv, NucleiAnswerIsWhole
<1>3. CASE SaidAtOnce(job) = "none"
  <2>1. nuStage' = "waiting" /\ nuChild' = "running" /\ nuKiller' = "armed"
    BY <1>3 DEF NuInv, NuBegin
  <2> QED
    BY <1>1, <1>3, <2>1 DEF NuInv, NucleiAnswerIsWhole
<1> QED
  BY <1>2, <1>3

\* The wait ends with an answer.
LEMMA NuEndKeeps ==
    ASSUME NuInv, NuEnd
    PROVE  NuInv'
<1>1. /\ nuStage' = "done" /\ nuJob' = nuJob /\ nuChild' = nuChild /\ nuKiller' = nuKiller /\ nuWritten' = nuWritten
      /\ nuResult' = Answer /\ nuStage = "cancelled" /\ nuKiller \in {"fired", "dismissed"}
  BY DEF NuEnd
<1>2. SaidAtOnce(nuJob) = "none" /\ nuChild # "running"
  BY <1>1 DEF NuInv
<1>3. ASSUME nuResult'.why = "ok"
      PROVE  nuChild = "success" /\ nuKiller = "dismissed" /\ nuResult'.findings = Found
  BY <1>1, <1>3 DEF Answer, NoAnswer
<1>4. nuChild = "success" =>
          {i \in 1..nuWritten : nuJob.lines[i] = "finding"} = {i \in DOMAIN nuJob.lines : nuJob.lines[i] = "finding"}
  BY LinesCounted DEF NuInv
<1>5. NucleiAnswerIsWhole'
  BY <1>1, <1>2, <1>3, <1>4, SaidNone DEF NucleiAnswerIsWhole, Found
<1> QED
  BY <1>1, <1>2, <1>5 DEF NuInv

\* The invariant of nuclei holds at the start.
LEMMA NuStarts ==
    ASSUME NuInit
    PROVE  NuInv
<1>1. nuWritten \in 0..Len(nuJob.lines)
  BY LinesCounted DEF NuInit
<1> QED
  BY <1>1 DEF NuInit, NuInv, NucleiAnswerIsWhole, NoAnswer

\* The invariant of nuclei holds from step to step.
LEMMA NuMoves ==
    ASSUME NuInv, [NuNext]_nuVars
    PROVE  NuInv'
<1>0. Len(nuJob.lines) \in Nat
  BY LinesCounted DEF NuInv
<1>1. ASSUME NEW job \in NuJobs, NuBegin(job) PROVE NuInv'
  BY <1>1, NuBeginKeeps
<1>2. CASE ChildWrites
  BY <1>0, <1>2 DEF ChildWrites, NuInv, NucleiAnswerIsWhole
<1>3. CASE ChildExits
  BY <1>3 DEF ChildExits, NuInv, NucleiAnswerIsWhole
<1>4. CASE TimeIsOver
  BY <1>4 DEF TimeIsOver, NuInv, NucleiAnswerIsWhole
<1>5. CASE ForceKill
  BY <1>5 DEF ForceKill, NuInv, NucleiAnswerIsWhole
<1>6. CASE Dismissed
  BY <1>6 DEF Dismissed, NuInv, NucleiAnswerIsWhole
<1>7. CASE WaitReturns
  BY <1>7 DEF WaitReturns, NuInv, NucleiAnswerIsWhole
<1>8. CASE NuEnd
  BY <1>8, NuEndKeeps
<1>9. CASE UNCHANGED nuVars
  BY <1>9 DEF nuVars, NuInv, NucleiAnswerIsWhole
<1> QED
  BY <1>1, <1>2, <1>3, <1>4, <1>5, <1>6, <1>7, <1>8, <1>9 DEF NuNext, NuStep

\* What nuclei is said to have found is what a whole run of it found: the program had
\* consent and ended by itself, well and in time, however the killer thread and the end
\* of the child meet (run_with_timeout of vest-tools/src/nuclei.rs).
THEOREM AnswerWhole == NuSpec => []NucleiAnswerIsWhole
<1>1. NuInit => NuInv
  BY NuStarts
<1>2. NuInv /\ [NuNext]_nuVars => NuInv'
  BY NuMoves
<1>3. NuInv => NucleiAnswerIsWhole
  BY DEF NuInv
<1> QED
  BY <1>1, <1>2, <1>3, PTL DEF NuSpec

-----------------------------------------------------------------------------
(* The configuration files *)

\* No default is zero.
LEMMA NoDefaultIsZero ==
    ASSUME NEW table, NEW name \in DOMAIN DefaultsOf(table)
    PROVE  DefaultsOf(table)[name] # "zero"
<1>1. \A numbers, on, off, texts : \A n \in DOMAIN Fields(numbers, on, off, texts) :
         Fields(numbers, on, off, texts)[n] # "zero"
  BY DEF Fields
<1>2. \A names : \A n \in DOMAIN Unset(names) : Unset(names)[n] # "zero"
  BY DEF Unset
<1>3. \A n \in DOMAIN <<>> : <<>>[n] # "zero"
  OBVIOUS
<1> QED
  BY <1>1, <1>2, <1>3
  DEF DefaultsOf, GeneralDefaults, AgentDefaults, NucleiDefaults, MemoryDefaults, BinaryDefaults, WebDefaults,
      BrowserDefaults, NetworkDefaults, FilesDefaults, ProfileDefaults, ProviderDefaults, SafetyDefaults

Readers == {"scan", "config", "validate", "policy", "providers"}

\* What is in a file is what was written there; and a reader's result is that of the file
\* that still is where the reader looked.
CfInv ==
    /\ cfFiles = [p \in Places |-> cfFiles[p]] /\ cfWritten = [p \in Places |-> cfWritten[p]]
    /\ \A p \in Places : \/ cfFiles[p] = Absent \/ cfFiles[p] = Broken
                         \/ cfFiles[p] = TheDocument(cfWritten[p])
    /\ \A p \in Places : DOMAIN cfWritten[p] \subseteq TriedKeys \cup LookedAt
    /\ cfLast.by \in Readers =>
         /\ cfLast.at \in Places
         /\ cfLast.result \in {LoadConfig(cfFiles[cfLast.at]), LoadConfigOrDefault(cfFiles[cfLast.at])}

\* The three that may be at a place are told apart.
LEMMA WhatIsThere ==
    /\ Absent.is = "absent" /\ Broken.is = "broken"
    /\ \A doc : TheDocument(doc).is = "document" /\ TheDocument(doc).doc = doc
BY DEF Absent, Broken, NoDocument, TheDocument

\* A file is written anew, and nobody has read it.
LEMMA WritingKeeps ==
    ASSUME CfInv, NEW p \in Places, NEW file, NEW written,
           DOMAIN written \subseteq TriedKeys \cup LookedAt,
           cfFiles' = [cfFiles EXCEPT ![p] = file], cfWritten' = [cfWritten EXCEPT ![p] = written],
           file \in {Absent, Broken} \/ file = TheDocument(written),
           cfLast'.by \notin Readers
    PROVE  CfInv'
BY DEF CfInv

LEMMA CfMoves ==
    ASSUME CfInv, [CfNext]_cfVars
    PROVE  CfInv'
<1>0. /\ Nobody.by \notin Readers /\ "local" \in Places /\ "home" \in Places /\ "given" \in Places
         /\ DOMAIN Defaults \subseteq TriedKeys \cup LookedAt /\ DOMAIN <<>> \subseteq TriedKeys \cup LookedAt
         /\ \A doc, value : \A key \in TriedKeys :
              DOMAIN doc \subseteq TriedKeys \cup LookedAt => DOMAIN WithKey(doc, key, value) \subseteq TriedKeys \cup LookedAt
  <2>1. DOMAIN Defaults = LookedAt
    BY DEF Defaults
  <2>2. DOMAIN <<>> = {}
    OBVIOUS
  <2>3. \A doc, value : \A key \in TriedKeys : DOMAIN WithKey(doc, key, value) \subseteq DOMAIN doc \cup {key}
    BY DEF WithKey
  <2> QED
    BY <2>1, <2>2, <2>3 DEF Nobody, Readers, Places
<1>1. CASE WriteDefaults
  BY <1>0, <1>1, WritingKeeps DEF WriteDefaults
<1>2. ASSUME NEW p \in Places, CopyDefaults(p) PROVE CfInv'
  BY <1>0, <1>2, WritingKeeps DEF CopyDefaults
<1>3. ASSUME NEW p \in Places, NEW into \in {Absent, Broken}, Spoil(p, into) PROVE CfInv'
  BY <1>0, <1>3, WritingKeeps DEF Spoil
<1>4. ASSUME NEW p \in Places, NEW key \in TriedKeys, NEW value, EditByHand(p, key, value) PROVE CfInv'
  <2>1. cfFiles[p].is = "document" /\ cfFiles[p] = TheDocument(cfWritten[p]) /\ cfFiles[p].doc = cfWritten[p]
    BY <1>4, WhatIsThere DEF EditByHand, CfInv
  <2>2. /\ cfFiles' = [cfFiles EXCEPT ![p] = TheDocument(WithKey(cfFiles[p].doc, key, value))]
        /\ cfWritten' = [cfWritten EXCEPT ![p] = WithKey(cfWritten[p], key, value)] /\ cfLast' = Nobody
        /\ DOMAIN WithKey(cfWritten[p], key, value) \subseteq TriedKeys \cup LookedAt
    BY <1>0, <1>4 DEF EditByHand, CfInv
  <2> QED
    BY <1>0, <2>1, <2>2, WritingKeeps
<1>5. ASSUME NEW cli \in {"given", "local"}, NEW key \in TriedKeys, NEW value, ConfigSet(cli, key, value) PROVE CfInv'
  <2> DEFINE at == ResolveConfigPath(cli)
             takes == cfFiles[at].is = "document" /\ SetTakes(cfFiles[at].doc, key)
  <2>1. at \in Places
    BY <1>0 DEF ResolveConfigPath, LocalOrHome
  <2>2. cfLast'.by = "set" /\ "set" \notin Readers
    BY <1>5 DEF ConfigSet, Readers
  <2>3. CASE takes
    <3>1. cfFiles[at] = TheDocument(cfWritten[at]) /\ cfFiles[at].doc = cfWritten[at]
      BY <2>1, <2>3, WhatIsThere DEF CfInv
    <3>2. /\ cfFiles' = [cfFiles EXCEPT ![at] = TheDocument(WithKey(cfFiles[at].doc, key, value))]
          /\ cfWritten' = [cfWritten EXCEPT ![at] = WithKey(cfWritten[at], key, value)]
          /\ DOMAIN WithKey(cfWritten[at], key, value) \subseteq TriedKeys \cup LookedAt
      BY <1>0, <1>5, <2>1, <2>3 DEF ConfigSet, CfInv
    <3> HIDE DEF at
    <3> QED
      BY <2>1, <2>2, <3>1, <3>2, WritingKeeps
  <2>4. CASE ~takes
    <3>1. UNCHANGED <<cfFiles, cfWritten>>
      BY <1>5, <2>4 DEF ConfigSet
    <3> QED
      BY <2>2, <3>1 DEF CfInv
  <2> QED
    BY <2>3, <2>4
<1>6. ASSUME NEW command \in Readers, NEW cli \in {"given", "local"}, Read(command, cli) PROVE CfInv'
  <2> DEFINE at == PathFor(command, cli)
  <2>1. at \in Places
    BY <1>0 DEF PathFor, ResolveConfigPath, LocalOrHome, Readers
  <2>2. /\ cfLast'.at = at /\ UNCHANGED <<cfFiles, cfWritten>>
        /\ cfLast'.result \in {LoadConfig(cfFiles[at]), LoadConfigOrDefault(cfFiles[at])}
    BY <1>6 DEF Read
  <2> HIDE DEF at
  <2> QED
    BY <2>1, <2>2 DEF CfInv, LoadConfig, LoadConfigOrDefault
<1>7. CASE UNCHANGED cfVars
  BY <1>7 DEF cfVars, CfInv, LoadConfig, LoadConfigOrDefault
<1> QED
  BY <1>1, <1>2, <1>3, <1>4, <1>5, <1>6, <1>7 DEF CfNext, Readers

\* What a reader gets of a file that is there.
LEMMA ReadersGetWhatWasWritten ==
    ASSUME CfInv
    PROVE  NoSilentDefaults
<1> SUFFICES ASSUME cfLast.by \in Readers, Exists(cfLast.at), cfLast.result.is = "settings"
             PROVE  /\ cfFiles[cfLast.at] # Broken
                    /\ \A key \in LookedAt :
                         /\ cfLast.result.config[key] = IF key \in DOMAIN cfWritten[cfLast.at]
                                                        THEN cfWritten[cfLast.at][key] ELSE Defaults[key]
                         /\ key \in NonZero => cfLast.result.config[key] # "zero"
                         /\ key = SandboxImage => cfLast.result.config[key] # "blank"
                    /\ \A key \in DOMAIN cfWritten[cfLast.at] : key[1] = "safety" => IsKnown(key)
  BY DEF NoSilentDefaults, Readers
<1> DEFINE doc == cfWritten[cfLast.at]
<1>1. cfLast.at \in Places /\ cfLast.result = LoadConfig(cfFiles[cfLast.at])
  BY DEF CfInv, Exists, LoadConfigOrDefault
<1>2. /\ cfFiles[cfLast.at].is = "document" /\ Parses(cfFiles[cfLast.at].doc) /\ Validates(cfFiles[cfLast.at].doc)
      /\ cfLast.result = Result("settings", [key \in LookedAt |->
                              IF Has(cfFiles[cfLast.at].doc, key) THEN cfFiles[cfLast.at].doc[key] ELSE Defaults[key]])
  <2>1. "Config" # "settings" /\ Result("Config", <<>>).is = "Config"
    BY DEF Result
  <2> QED
    BY <1>1, <2>1 DEF LoadConfig
<1>3. cfFiles[cfLast.at] # Broken /\ cfFiles[cfLast.at].doc = doc
  BY <1>1, <1>2, WhatIsThere DEF CfInv
<1>4. cfLast.result.config = [key \in LookedAt |-> IF key \in DOMAIN doc THEN doc[key] ELSE Defaults[key]]
  BY <1>2, <1>3 DEF Result, Has
<1>5. ASSUME NEW key \in LookedAt, key \in NonZero
      PROVE  cfLast.result.config[key] # "zero"
  <2>1. Defaults[key] # "zero"
    BY NoDefaultIsZero, SettingsAssumption DEF Defaults, IsKnown
  <2>2. key \in DOMAIN doc => doc[key] # "zero"
    BY <1>2, <1>3, <1>5 DEF Validates, IsZero, Has
  <2> QED
    BY <1>4, <2>1, <2>2
<1>6. ASSUME NEW key \in DOMAIN doc, key[1] = "safety"
      PROVE  IsKnown(key)
  <2>1. Len(key) = 1 \/ Len(key) = 2
    BY <1>1, <1>6, SettingsAssumption DEF CfInv, IsKnown
  <2>2. "safety" \in TopLevel /\ Strict("safety")
    BY DEF TopLevel, Strict
  <2> QED
    BY <1>2, <1>3, <1>6, <2>1, <2>2 DEF Parses
<1>7. ASSUME NEW key \in LookedAt, key = SandboxImage
      PROVE  cfLast.result.config[key] # "blank"
  <2>1. Defaults[key] # "blank"
    <3>1. DefaultsOf("safety") = SafetyDefaults
      BY DEF DefaultsOf, ProviderTables
    <3>2. SafetyDefaults["sandbox_image"] = "text"
      BY DEF SafetyDefaults, Fields
    <3> QED
      BY <1>7, <3>1, <3>2 DEF Defaults, SandboxImage
  <2>2. key \in DOMAIN doc => doc[key] # "blank"
    BY <1>2, <1>3, <1>7 DEF Validates, Has
  <2> QED
    BY <1>4, <2>1, <2>2
<1> QED
  BY <1>3, <1>4, <1>5, <1>6, <1>7

\* Whatever was written in whichever order, who reads a configuration that is there gets
\* what was written last, or the default, or nothing at all (load_config, set_dotted_key).
THEOREM WrittenIsRead == CfSpec => []NoSilentDefaults
<1>1. CfInit => CfInv
  <2>1. DOMAIN <<>> = {}
    OBVIOUS
  <2> QED
    BY <2>1 DEF CfInit, CfInv, Nobody, Readers
<1>2. CfInv /\ [CfNext]_cfVars => CfInv'
  BY CfMoves
<1>3. CfInv => NoSilentDefaults
  BY ReadersGetWhatWasWritten
<1> QED
  BY <1>1, <1>2, <1>3, PTL DEF CfSpec

-----------------------------------------------------------------------------
(* The runs of vest scan *)

\* What may be refused is refused as bad input or bad configuration, and a resume that is
\* not refused has its row.
LEMMA RefusalsAreEarly ==
    ASSUME NEW args, NEW config, NEW rows
    PROVE  /\ FirstRefusal(Checks(args, config)) \in {"accepted", "InvalidInput", "Config"}
           /\ FirstRefusal(ResumeChecks(args, config, rows)) \in {"accepted", "InvalidInput", "Config"}
           /\ FirstRefusal(ResumeChecks(args, config, rows)) = "accepted" => rows # {}
<1>1. ASSUME NEW checks, NEW n \in Nat \ {0}, DOMAIN checks = 1..n,
             \A i \in 1..n : checks[i].error \in {"InvalidInput", "Config"}
      PROVE  /\ FirstRefusal(checks) \in {"accepted", "InvalidInput", "Config"}
             /\ FirstRefusal(checks) = "accepted" => checks[1].holds
  <2> DEFINE failing == {i \in DOMAIN checks : ~checks[i].holds}
  <2>0. failing \subseteq Nat
    BY <1>1
  <2> HIDE DEF failing
  <2>1. failing # {} => \E i \in failing : \A j \in failing : i <= j
    BY <2>0, LeastExists
  <2> USE DEF failing
  <2>2. failing # {} => (CHOOSE i \in failing : \A j \in failing : i <= j) \in 1..n
    BY <1>1, <2>1
  <2> QED
    BY <1>1, <2>2 DEF FirstRefusal
<1>2. DOMAIN Checks(args, config) = 1..8
      /\ \A i \in 1..8 : Checks(args, config)[i].error \in {"InvalidInput", "Config"}
  BY DEF Checks
<1>3. DOMAIN ResumeChecks(args, config, rows) = 1..7
      /\ \A i \in 1..7 : ResumeChecks(args, config, rows)[i].error \in {"InvalidInput", "Config"}
  BY DEF ResumeChecks
<1>4. ResumeChecks(args, config, rows)[1].holds => rows # {}
  BY DEF ResumeChecks
<1>5. FirstRefusal(Checks(args, config)) \in {"accepted", "InvalidInput", "Config"}
  <2> DEFINE checks == Checks(args, config)
  <2>1. DOMAIN checks = 1..8 /\ \A i \in 1..8 : checks[i].error \in {"InvalidInput", "Config"}
    BY <1>2
  <2> HIDE DEF checks
  <2>2. FirstRefusal(checks) \in {"accepted", "InvalidInput", "Config"}
    <3>1. 8 \in Nat \ {0}
      OBVIOUS
    <3> QED
      BY <1>1, <2>1, <3>1
  <2> QED
    BY <2>2 DEF checks
<1>6. /\ FirstRefusal(ResumeChecks(args, config, rows)) \in {"accepted", "InvalidInput", "Config"}
      /\ FirstRefusal(ResumeChecks(args, config, rows)) = "accepted" => ResumeChecks(args, config, rows)[1].holds
  <2> DEFINE checks == ResumeChecks(args, config, rows)
  <2>1. DOMAIN checks = 1..7 /\ \A i \in 1..7 : checks[i].error \in {"InvalidInput", "Config"}
    BY <1>3
  <2> HIDE DEF checks
  <2>2. /\ FirstRefusal(checks) \in {"accepted", "InvalidInput", "Config"}
        /\ FirstRefusal(checks) = "accepted" => checks[1].holds
    <3>1. 7 \in Nat \ {0}
      OBVIOUS
    <3> QED
      BY <1>1, <2>1, <3>1
  <2> QED
    BY <2>2 DEF checks
<1> QED
  BY <1>4, <1>5, <1>6

\* The exit codes of the errors a run may end with.
LEMMA CodesOfErrors ==
    /\ CliExitCode("InvalidInput") = "input" /\ CliExitCode("Config") = "config"
    /\ CliExitCode("Storage") = "storage" /\ CliExitCode("Scan") = "scanner"
    /\ \A errors : CliExitCode(ScannerFailure(errors)) \in {"config", "scanner"}
    /\ \A error \in {"Provider", "Agent", "ValidationFailed", "ApprovalDenied"} :
           CliExitCode(error) \in {"provider", "denied"}
<1>1. \A errors : ScannerFailure(errors) \in {"Config", "Scan"}
  BY DEF ScannerFailure
<1> QED
  BY <1>1 DEF CliExitCode

\* What somebody knows who has seen all that a row has.
HeardOf(i) == Known(i, Stored(i))

\* At work, a run has its row, and whoever ended before it left it as it should be.
AtWork == {"effects", "scanners", "agent", "report", "store", "gates"}

RowFields == {"status", "stored", "frozen"}

SoInv ==
    /\ Len(soRows) \in Nat /\ DOMAIN soRows = 1..Len(soRows)
    /\ \A i \in DOMAIN soRows : DOMAIN soRows[i] = RowFields
    /\ soStage \in {"idle", "start"} \cup AtWork
    /\ soRow \in 0..Len(soRows)
    /\ soStage \in AtWork => soRow # 0
    /\ soStage = "start" => soRow = 0
    /\ soSoft \in {"none", "Provider", "Agent", "ValidationFailed", "ApprovalDenied"}
    /\ soStage \in {"agent", "report", "store", "gates"} => soLeft = {}
    /\ soStage \in {"store", "gates"} => soReport = <<soFound>>
    /\ soStage = "gates" =>
         /\ Stored(soRow) = soFound
         /\ soRows[soRow].status = IF Degraded THEN "failed" ELSE "completed"
    /\ \A i \in DOMAIN soRows : i # soRow \/ soStage = "idle" => HeardOf(i) \subseteq soToldOf
    /\ ExitCodesTell

\* The newest of the other rows of a target is one of them.
LEMMA BaselineIsAnother ==
    ASSUME Len(soRows) \in Nat, DOMAIN soRows = 1..Len(soRows), NEW row, Baseline(row) # 0
    PROVE  Baseline(row) \in DOMAIN soRows \ {row} /\ TargetOf(Baseline(row)) = TargetOf(row)
<1> DEFINE others == {i \in DOMAIN soRows \ {row} : SameLogicalTarget(TargetOf(i), TargetOf(row))}
<1>1. others \subseteq 1..Len(soRows) /\ others # {}
  BY DEF Baseline
<1> HIDE DEF others
<1>2. \E i \in others : \A j \in others : j <= i
  BY <1>1, GreatestExists
<1>3. Baseline(row) = CHOOSE i \in others : \A j \in others : j <= i
  BY <1>1 DEF Baseline, others
<1> QED
  BY <1>2, <1>3 DEF others, SameLogicalTarget

\* While a run is at work nothing is claimed of its end.
LEMMA NothingToldAtWork ==
    ASSUME soStage # "idle"
    PROVE  ExitCodesTell
BY DEF ExitCodesTell, Ended

\* The run is over, its row kept as it is, for a reason that claims nothing.
LEMMA OverKeeps ==
    ASSUME SoInv, soStage \in AtWork, NEW code \in {"config", "storage", "internal", "killed"},
           Over(code, Stored(soRow)),
           UNCHANGED <<soRows, soRow>>, soSoft' \in {"none", soSoft}
    PROVE  SoInv'
<1>1. soStage' = "idle" /\ soExit' = code /\ soToldOf' = soToldOf \cup HeardOf(soRow)
  BY DEF Over, HeardOf
<1>2. ExitCodesTell'
  BY <1>1 DEF ExitCodesTell, Ended
<1>3. \A i \in DOMAIN soRows : HeardOf(i) \subseteq soToldOf'
  BY <1>1 DEF SoInv
<1>4. \A i : HeardOf(i)' = HeardOf(i)
  BY DEF HeardOf, Known, TargetOf, Stored
<1> QED
  BY <1>1, <1>2, <1>3, <1>4 DEF SoInv, AtWork

\* A run goes on, its row and what callers know of kept: only what it is at changes.
LEMMA GoingOnKeeps ==
    ASSUME SoInv, soStage \in AtWork, soStage' \in AtWork \ {"gates"}, UNCHANGED <<soRow, soToldOf>>,
           Len(soRows') = Len(soRows), DOMAIN soRows' = DOMAIN soRows,
           \A i \in DOMAIN soRows : DOMAIN soRows'[i] = RowFields,
           \A i \in DOMAIN soRows \ {soRow} : HeardOf(i)' = HeardOf(i),
           soSoft' \in {"none", "Provider", "Agent", "ValidationFailed", "ApprovalDenied"},
           soStage' \in {"agent", "report", "store"} => soLeft' = {},
           soStage' = "store" => soReport' = <<soFound'>>
    PROVE  SoInv'
<1>1. soStage' # "idle" /\ soStage' # "start" /\ soStage # "idle"
  BY DEF AtWork
<1>2. ExitCodesTell'
  BY <1>1 DEF ExitCodesTell, Ended
<1> QED
  BY <1>1, <1>2 DEF SoInv

\* A run begins, or is refused.
LEMMA SoBeginKeeps ==
    ASSUME SoInv, NEW args, NEW config, SoBegin(args, config)
    PROVE  SoInv'
<1> DEFINE refusal == FirstRefusal(Checks(args, config))
           idle == refusal # "accepted" \/ args.dry
<1>1. /\ soStage = "idle" /\ soRow' = 0 /\ soErrors' = {} /\ soSoft' = "none" /\ UNCHANGED <<soRows, soToldOf>>
      /\ soStage' = IF idle THEN "idle" ELSE "start"
      /\ soExit' \in {CliExitCode(refusal), "success", "none"}
      /\ soExit' = CliExitCode(refusal) => refusal # "accepted" \/ CliExitCode(refusal) \in {"success", "none"}
  BY DEF SoBegin
<1>2. refusal \in {"accepted", "InvalidInput", "Config"}
  BY RefusalsAreEarly
<1>3. soExit' \in {"input", "config", "success", "none"}
  <2>1. refusal # "accepted" => CliExitCode(refusal) \in {"input", "config"}
    BY <1>2, CodesOfErrors
  <2> HIDE DEF refusal
  <2>2. soExit' = CASE refusal # "accepted" -> CliExitCode(refusal)
                    [] refusal = "accepted" /\ args.dry -> "success"
                    [] OTHER -> "none"
    BY DEF SoBegin, refusal
  <2> QED
    BY <2>1, <2>2
<1>4. ExitCodesTell'
  BY <1>1, <1>3 DEF ExitCodesTell, Ended, HasRow
<1>5. \A i : HeardOf(i)' = HeardOf(i)
  BY <1>1 DEF HeardOf, Known, TargetOf, Stored
<1>6. soStage' \in {"idle", "start"}
  BY <1>1
<1> QED
  BY <1>1, <1>4, <1>5, <1>6 DEF SoInv, AtWork

\* A row is taken up, or is not.
LEMMA SoResumeKeeps ==
    ASSUME SoInv, NEW args, NEW config, NEW i \in {0} \cup DOMAIN soRows, SoResume(args, config, i)
    PROVE  SoInv'
<1> DEFINE rows == {soRows[j] : j \in DOMAIN soRows \cap {i}}
           refusal == FirstRefusal(ResumeChecks(args, config, rows))
<1>1. refusal \in {"accepted", "InvalidInput", "Config"} /\ (refusal = "accepted" => rows # {})
  BY RefusalsAreEarly
<1>2. /\ soStage = "idle" /\ soArgs' = args /\ soErrors' = {} /\ soSoft' = "none" /\ soToldOf' = soToldOf
      /\ \A j \in DOMAIN soRows : HeardOf(j) \subseteq soToldOf
  BY DEF SoResume, SoInv
<1>3. ASSUME NEW error \in {"InvalidInput", "Config", "Storage"}, ResumeRefused(error) PROVE SoInv'
  <2>1. soRow' = 0 /\ soStage' = "idle" /\ soExit' \in {"input", "config", "storage"} /\ soRows' = soRows
    BY <1>3, CodesOfErrors DEF ResumeRefused
  <2>2. ExitCodesTell'
    BY <2>1 DEF ExitCodesTell, Ended, HasRow
  <2>3. \A j : HeardOf(j)' = HeardOf(j)
    BY <2>1 DEF HeardOf, Known, TargetOf, Stored
  <2> QED
    BY <1>2, <2>1, <2>2, <2>3 DEF SoInv, AtWork
<1>4. ASSUME i \in DOMAIN soRows, RowTakenUp(args, i) PROVE SoInv'
  <2> DEFINE ended == ~SeverityValid(args) \/ args.dry
  <2>1. /\ soRow' = i /\ soRows' = [soRows EXCEPT ![i].status = "running"]
        /\ soStage' = IF ended THEN "idle" ELSE "effects"
        /\ soExit' = CASE ~SeverityValid(args)             -> "input"
                       [] SeverityValid(args) /\ args.dry -> "success"
                       [] OTHER                           -> "none"
    BY <1>4, CodesOfErrors DEF RowTakenUp
  <2>0. \A j \in DOMAIN soRows : DOMAIN soRows[j] = {"status", "stored", "frozen"}
    BY DEF SoInv, RowFields
  <2>2. /\ DOMAIN soRows' = DOMAIN soRows /\ soRows'[i].status = "running"
        /\ \A j \in DOMAIN soRows : /\ soRows'[j].stored = soRows[j].stored /\ soRows'[j].frozen = soRows[j].frozen
                                   /\ DOMAIN soRows'[j] = RowFields
    BY <1>4, <2>0, <2>1 DEF RowFields
  <2>3. Len(soRows') = Len(soRows)
    BY <2>2 DEF SoInv
  <2>4. \A j \in DOMAIN soRows : HeardOf(j)' = HeardOf(j)
    BY <2>2 DEF HeardOf, Known, TargetOf, Stored
  <2>5. ExitCodesTell'
    <3>1. soExit' = "input" => ~SeverityValid(args)
      BY <2>1
    <3>2. soExit' \in {"input", "success", "none"} /\ (soExit' = "success" => args.dry)
      BY <2>1
    <3>3. args.resume
      BY DEF SoResume
    <3> QED
      BY <1>2, <2>1, <2>2, <3>1, <3>2, <3>3 DEF ExitCodesTell, Ended
  <2>6. /\ soStage' \in {"idle", "effects"} /\ soRow' = i
        /\ i \in 1..Len(soRows) /\ Len(soRows) \in Nat
    BY <2>1, <1>4 DEF SoInv
  <2>7. \A j \in DOMAIN soRows' : HeardOf(j)' \subseteq soToldOf' /\ DOMAIN soRows'[j] = RowFields
    BY <1>2, <2>2, <2>4
  <2>8. DOMAIN soRows' = 1..Len(soRows') /\ Len(soRows') \in Nat
    BY <2>2, <2>3 DEF SoInv
  <2> HIDE DEF ended
  <2> QED
    BY <1>2, <2>3, <2>5, <2>6, <2>7, <2>8 DEF SoInv, AtWork
<1>5. refusal = "accepted" => i \in DOMAIN soRows
  BY <1>1
<1> HIDE DEF refusal
<1> QED
  <2>1. \/ refusal # "accepted" /\ ResumeRefused(refusal)
        \/ ResumeRefused("Storage")
        \/ refusal = "accepted" /\ RowTakenUp(args, i)
    BY DEF SoResume, refusal
  <2> QED
    BY <1>1, <1>3, <1>4, <1>5, <2>1

\* The row of the scan is inserted, or the database fails.
LEMMA SoStartKeeps ==
    ASSUME SoInv, SoStart
    PROVE  SoInv'
<1> DEFINE row == [status |-> "running", stored |-> {}, frozen |-> FrozenOf(soArgs, soConfig)]
<1>0. /\ soStage = "start" /\ soRow = 0 /\ soStage # "idle" /\ soSoft' = soSoft
      /\ \A i \in DOMAIN soRows : HeardOf(i) \subseteq soToldOf
  BY DEF SoStart, SoInv
<1>1. CASE /\ soRows' = Append(soRows, row) /\ soRow' = Len(soRows) + 1 /\ soStage' = "effects"
           /\ UNCHANGED <<soExit, soToldOf>>
  <2>1. /\ Len(soRows') = Len(soRows) + 1 /\ DOMAIN soRows' = 1..(Len(soRows) + 1)
        /\ \A i \in DOMAIN soRows : soRows'[i] = soRows[i]
        /\ \A i \in DOMAIN soRows' : DOMAIN soRows'[i] = RowFields
    BY <1>1 DEF SoInv, RowFields
  <2>2. ExitCodesTell'
    BY <1>1 DEF ExitCodesTell, Ended
  <2>3. \A i \in DOMAIN soRows : HeardOf(i)' = HeardOf(i)
    BY <2>1 DEF HeardOf, Known, TargetOf, Stored
  <2> QED
    BY <1>0, <1>1, <2>1, <2>2, <2>3 DEF SoInv, AtWork
<1>2. CASE OverWithoutRow("Storage") /\ UNCHANGED <<soRows, soRow>>
  <2>1. soStage' = "idle" /\ soExit' = "storage" /\ soToldOf \subseteq soToldOf'
    BY <1>2, CodesOfErrors DEF OverWithoutRow, Over
  <2>2. ExitCodesTell'
    BY <2>1 DEF ExitCodesTell, Ended
  <2>3. \A i : HeardOf(i)' = HeardOf(i)
    BY <1>2 DEF HeardOf, Known, TargetOf, Stored
  <2> QED
    BY <1>0, <1>2, <2>1, <2>2, <2>3 DEF SoInv, AtWork
<1> QED
  BY <1>1, <1>2 DEF SoStart

\* Where the run ends before its gates, or goes on.
LEMMA SoEarlyKeeps ==
    ASSUME SoInv, SoEffects \/ ScannersEnd \/ Report
    PROVE  SoInv'
<1>0. /\ "effects" \in AtWork /\ "scanners" \in AtWork /\ "agent" \in AtWork /\ "report" \in AtWork
      /\ "store" \in AtWork /\ "gates" \notin {"effects", "scanners", "agent", "report", "store"}
  BY DEF AtWork
<1>1. CASE SoEffects
  <2>1. soStage = "effects" /\ UNCHANGED <<soRows, soRow, soSoft>>
    BY <1>1 DEF SoEffects
  <2>2. CASE EffectsValid(soArgs)
    <3>1. soStage' = "scanners" /\ soToldOf' = soToldOf
      BY <1>1, <2>2 DEF SoEffects
    <3> QED
      BY <1>0, <2>1, <3>1, GoingOnKeeps DEF SoInv, HeardOf, Known, TargetOf, Stored
  <2>3. CASE ~EffectsValid(soArgs)
    BY <1>0, <1>1, <2>1, <2>3, OverKeeps DEF SoEffects
  <2> QED
    BY <2>2, <2>3
<1>2. CASE ScannersEnd
  <2>1. soStage = "scanners" /\ soLeft = {} /\ UNCHANGED <<soRows, soRow, soSoft, soLeft, soErrors, soRan, soReport>>
    BY <1>2 DEF ScannersEnd
  <2>2. CASE ~soRan /\ soErrors # {}
    <3>1. Over(CliExitCode(ScannerFailure(soErrors)), Stored(soRow))
      BY <1>2, <2>2 DEF ScannersEnd
    <3>2. PICK code \in {"config", "scanner"} : code = CliExitCode(ScannerFailure(soErrors))
      BY CodesOfErrors
    <3>3. soStage' = "idle" /\ soExit' \in {"config", "scanner"} /\ soToldOf' = soToldOf \cup HeardOf(soRow)
      BY <3>1, <3>2 DEF Over, HeardOf
    <3>4. ExitCodesTell'
      BY <2>1, <2>2, <3>3 DEF ExitCodesTell, Ended
    <3>5. \A i \in DOMAIN soRows : HeardOf(i) \subseteq soToldOf'
      BY <3>3 DEF SoInv
    <3>6. \A i : HeardOf(i)' = HeardOf(i)
      BY <2>1 DEF HeardOf, Known, TargetOf, Stored
    <3> QED
      BY <1>0, <2>1, <3>3, <3>4, <3>5, <3>6 DEF SoInv, AtWork
  <2>3. CASE ~(~soRan /\ soErrors # {})
    <3>1. soStage' = "agent" /\ soToldOf' = soToldOf
      BY <1>2, <2>3 DEF ScannersEnd
    <3> QED
      BY <1>0, <2>1, <3>1, GoingOnKeeps DEF SoInv, HeardOf, Known, TargetOf, Stored
  <2> QED
    BY <2>2, <2>3
<1>3. CASE Report
  <2>1. soStage = "report" /\ UNCHANGED <<soRows, soRow, soSoft, soLeft, soFound>>
    BY <1>3 DEF Report
  <2>2. CASE Over("config", Stored(soRow)) \/ Over("internal", Stored(soRow))
    BY <1>0, <2>1, <2>2, OverKeeps
  <2>3. CASE soStage' = "store" /\ UNCHANGED <<soExit, soToldOf>> /\ soReport' = <<soFound>>
    BY <1>0, <2>1, <2>3, GoingOnKeeps DEF SoInv, HeardOf, Known, TargetOf, Stored
  <2> QED
    BY <1>3, <2>2, <2>3 DEF Report
<1> QED
  BY <1>1, <1>2, <1>3

\* The row is written.
LEMMA RowIsSet ==
    ASSUME SoInv, soStage \in AtWork, NEW status, NEW findings, SetRow(status, findings)
    PROVE  /\ DOMAIN soRows' = DOMAIN soRows /\ Len(soRows') = Len(soRows) /\ soRow \in DOMAIN soRows
           /\ soRows'[soRow].status = status /\ soRows'[soRow].stored = findings
           /\ \A i \in DOMAIN soRows : soRows'[i].frozen = soRows[i].frozen /\ DOMAIN soRows'[i] = RowFields
           /\ \A i \in DOMAIN soRows \ {soRow} : HeardOf(i)' = HeardOf(i)
<1>1. soRow \in DOMAIN soRows
  BY DEF SoInv
<1>2. DOMAIN soRows' = DOMAIN soRows
  BY DEF SetRow
<1>3. Len(soRows') = Len(soRows)
  BY <1>2 DEF SoInv
<1>4. /\ soRows'[soRow].status = status /\ soRows'[soRow].stored = findings
      /\ \A i \in DOMAIN soRows : soRows'[i].frozen = soRows[i].frozen /\ DOMAIN soRows'[i] = RowFields
      /\ \A i \in DOMAIN soRows \ {soRow} : soRows'[i] = soRows[i]
  <2>1. \A i \in DOMAIN soRows : DOMAIN soRows[i] = {"status", "stored", "frozen"}
    BY DEF SoInv, RowFields
  <2> QED
    BY <1>1, <2>1 DEF SetRow, RowFields
<1>5. \A i \in DOMAIN soRows \ {soRow} : HeardOf(i)' = HeardOf(i)
  BY <1>4 DEF HeardOf, Known, TargetOf, Stored
<1> QED
  BY <1>1, <1>2, <1>3, <1>4, <1>5

\* A scanner comes to an end, or the agents.
LEMMA WorkersKeep ==
    ASSUME SoInv,
           \/ \E s \in soLeft : \/ \E findings \in SUBSET SoFindings : ScannerFinds(s, findings)
                                \/ \E error \in {"Config", "Scan"} : ScannerFails(s, error)
           \/ \E findings \in SUBSET SoFindings : AgentEnds(findings)
           \/ \E error \in {"Config", "Provider", "Timeout", "ApprovalDenied"} : AgentFails(error)
    PROVE  SoInv'
<1>0. "scanners" \in AtWork /\ "agent" \in AtWork /\ "report" \in AtWork
      /\ "gates" \notin {"scanners", "report"} /\ "scanners" \notin {"agent", "report", "store"}
  BY DEF AtWork
<1>1. ASSUME NEW s \in soLeft, NEW findings, ScannerFinds(s, findings) PROVE SoInv'
  <2>1. soStage = "scanners" /\ UNCHANGED <<soRow, soSoft>>
    BY <1>1 DEF ScannerFinds
  <2>2. CASE SetRow("running", soFound') /\ UNCHANGED <<soStage, soExit, soToldOf>>
    BY <1>0, <2>1, <2>2, RowIsSet, GoingOnKeeps DEF SoInv
  <2>3. CASE Over("storage", Stored(soRow)) /\ UNCHANGED <<soRows, soLeft, soFound>>
    BY <1>0, <2>1, <2>3, OverKeeps
  <2> QED
    BY <1>1, <2>2, <2>3 DEF ScannerFinds
<1>2. ASSUME NEW s \in soLeft, NEW error, ScannerFails(s, error) PROVE SoInv'
  <2>1. soStage = "scanners" /\ UNCHANGED <<soRow, soSoft, soRows, soToldOf, soStage>>
    BY <1>2 DEF ScannerFails
  <2> QED
    BY <1>0, <2>1, GoingOnKeeps DEF SoInv, HeardOf, Known, TargetOf, Stored
<1>3. ASSUME NEW findings, AgentEnds(findings) PROVE SoInv'
  <2>1. soStage = "agent" /\ soStage' = "report" /\ UNCHANGED <<soRow, soSoft, soRows, soToldOf, soLeft>>
    BY <1>3 DEF AgentEnds
  <2> QED
    BY <1>0, <2>1, GoingOnKeeps DEF SoInv, HeardOf, Known, TargetOf, Stored
<1>4. ASSUME NEW error, AgentFails(error) PROVE SoInv'
  <2>1. /\ soStage = "agent" /\ soStage' = "report" /\ UNCHANGED <<soRow, soRows, soToldOf, soLeft>>
        /\ soSoft' \in {"none", "Provider", "Agent", "ValidationFailed", "ApprovalDenied"}
    BY <1>4 DEF AgentFails, SoftFailure
  <2> QED
    BY <1>0, <2>1, GoingOnKeeps DEF SoInv, HeardOf, Known, TargetOf, Stored
<1> QED
  BY <1>1, <1>2, <1>3, <1>4

\* The findings and the end of the row are written at once, or not at all.
LEMMA FinalizeKeeps ==
    ASSUME SoInv, Finalize
    PROVE  SoInv'
<1>0. /\ soStage = "store" /\ soStage \in AtWork /\ soLeft = {} /\ soReport = <<soFound>>
      /\ UNCHANGED <<soRow, soSoft, soErrors, soLeft, soReport, soFound>>
  BY DEF Finalize, SoInv, AtWork
<1>1. CASE SetRow(IF Degraded THEN "failed" ELSE "completed", soFound) /\ soStage' = "gates" /\ UNCHANGED <<soExit, soToldOf>>
  <2>1. /\ DOMAIN soRows' = DOMAIN soRows /\ Len(soRows') = Len(soRows) /\ soRow \in DOMAIN soRows
        /\ soRows'[soRow].status = IF Degraded THEN "failed" ELSE "completed"
        /\ soRows'[soRow].stored = soFound
        /\ \A i \in DOMAIN soRows : DOMAIN soRows'[i] = RowFields
        /\ \A i \in DOMAIN soRows \ {soRow} : HeardOf(i)' = HeardOf(i)
    BY <1>0, <1>1, RowIsSet
  <2>2. Degraded' = Degraded
    BY <1>0 DEF Degraded
  <2>3. ExitCodesTell'
    BY <1>1 DEF ExitCodesTell, Ended
  <2>4. Stored(soRow)' = soFound' /\ soRows'[soRow'].status = IF Degraded' THEN "failed" ELSE "completed"
    BY <1>0, <2>1, <2>2 DEF Stored
  <2>5. \A i \in DOMAIN soRows' : i # soRow' => HeardOf(i)' \subseteq soToldOf'
    BY <1>0, <1>1, <2>1 DEF SoInv
  <2> QED
    BY <1>0, <1>1, <2>1, <2>3, <2>4, <2>5 DEF SoInv, AtWork
<1>2. CASE Over("storage", Stored(soRow)) /\ UNCHANGED soRows
  BY <1>0, <1>2, OverKeeps
<1> QED
  BY <1>1, <1>2 DEF Finalize

\* The exit code is told, and what the caller knows then.
LEMMA GatesKeep ==
    ASSUME SoInv, Gates
    PROVE  SoInv'
<1> DEFINE code == CASE soErrors # {}                      -> CliExitCode(ScannerFailure(soErrors))
                     [] soErrors = {} /\ soSoft # "none"   -> CliExitCode(soSoft)
                     [] ~Degraded /\ (SeverityGate \/ NewGate) -> "gate"
                     [] OTHER                              -> "success"
<1>0. /\ soStage = "gates" /\ soStage \in AtWork /\ soLeft = {} /\ soReport = <<soFound>>
      /\ Stored(soRow) = soFound /\ soRow \in DOMAIN soRows
      /\ soRows[soRow].status = IF Degraded THEN "failed" ELSE "completed"
      /\ UNCHANGED <<soRows, soArgs, soRow, soSoft, soErrors, soLeft, soReport, soFound, soRan>>
  BY DEF Gates, SoInv, AtWork
<1>1. CASE Over("storage", soFound)
  BY <1>0, <1>1, OverKeeps
<1>2. CASE Over(code, soFound)
  <2>1. /\ soStage' = "idle" /\ soExit' = code
        /\ soToldOf' = IF code # "success" \/ ~soArgs.failOnNew \/ Baseline(soRow) = 0
                       THEN soToldOf \cup HeardOf(soRow) ELSE soToldOf
    BY <1>0, <1>2 DEF Over, HeardOf
  <2>2. /\ soErrors # {} => code \in {"config", "scanner"}
        /\ soErrors = {} /\ soSoft # "none" => code \in {"provider", "denied"}
        /\ soErrors = {} /\ soSoft = "none" => code = IF SeverityGate \/ NewGate THEN "gate" ELSE "success"
    BY CodesOfErrors DEF SoInv, Degraded
  <2> HIDE DEF code
  <2>3. ExitCodesTell'
    <3>1. CASE soErrors # {}
      BY <1>0, <2>1, <2>2, <3>1 DEF ExitCodesTell, Ended, HasRow, Stored, Degraded
    <3>2. CASE soErrors = {} /\ soSoft # "none"
      BY <1>0, <2>1, <2>2, <3>2 DEF ExitCodesTell, Ended, HasRow, Stored, Degraded, SoInv
    <3>3. CASE soErrors = {} /\ soSoft = "none"
      BY <1>0, <2>1, <2>2, <3>3 DEF ExitCodesTell, Ended, HasRow, Stored, Degraded, SeverityGate
    <3> QED
      BY <3>1, <3>2, <3>3
  <2>4. HeardOf(soRow) \subseteq soToldOf'
    <3>1. CASE code # "success" \/ ~soArgs.failOnNew \/ Baseline(soRow) = 0
      BY <2>1, <3>1
    <3>2. CASE ~(code # "success" \/ ~soArgs.failOnNew \/ Baseline(soRow) = 0)
      <4>1. ~NewGate /\ soToldOf' = soToldOf
        BY <2>1, <2>2, <3>2
      <4>2. Baseline(soRow) \in DOMAIN soRows \ {soRow} /\ TargetOf(Baseline(soRow)) = TargetOf(soRow)
        BY <3>2, BaselineIsAnother DEF SoInv
      <4>3. KeysOf(soFound) \ {Blank} \subseteq KeysOf(Stored(Baseline(soRow)))
        BY <3>2, <4>1 DEF NewGate, NewTitles
      <4>4. HeardOf(soRow) \subseteq HeardOf(Baseline(soRow))
        BY <1>0, <4>2, <4>3 DEF HeardOf, Known
      <4> QED
        BY <4>1, <4>2, <4>4 DEF SoInv
    <3> QED
      BY <3>1, <3>2
  <2>5. \A i \in DOMAIN soRows : HeardOf(i)' = HeardOf(i) /\ HeardOf(i) \subseteq soToldOf'
    <3>1. \A i : HeardOf(i)' = HeardOf(i)
      BY <1>0 DEF HeardOf, Known, TargetOf, Stored
    <3> QED
      BY <1>0, <2>1, <2>4, <3>1 DEF SoInv
  <2> QED
    BY <1>0, <2>1, <2>3, <2>5 DEF SoInv, AtWork
<1> QED
  BY <1>1, <1>2 DEF Gates

LEMMA KilledKeeps ==
    ASSUME SoInv, Killed
    PROVE  SoInv'
<1>1. CASE soStage \in AtWork
  <2>1. soRow # 0
    BY <1>1 DEF SoInv
  <2>2. Over("killed", Stored(soRow)) /\ UNCHANGED <<soRows, soRow>> /\ soSoft' = "none"
    BY <2>1 DEF Killed
  <2> QED
    BY <1>1, <2>2, OverKeeps
<1>2. CASE soStage = "start"
  <2>1. soStage' = "idle" /\ soExit' = "killed" /\ soToldOf \subseteq soToldOf' /\ UNCHANGED <<soRows, soRow>> /\ soSoft' = "none"
    BY DEF Killed, Over
  <2>2. ExitCodesTell'
    BY <2>1 DEF ExitCodesTell, Ended
  <2>3. \A i : HeardOf(i)' = HeardOf(i)
    BY <2>1 DEF HeardOf, Known, TargetOf, Stored
  <2> QED
    BY <1>2, <2>1, <2>2, <2>3 DEF SoInv, AtWork
<1> QED
  BY <1>1, <1>2 DEF SoInv, Killed

LEMMA SoMoves ==
    ASSUME SoInv, [SoNext]_soVars
    PROVE  SoInv'
<1>1. CASE SoNext
  BY <1>1, SoBeginKeeps, SoResumeKeeps, SoStartKeeps, SoEarlyKeeps, WorkersKeep, FinalizeKeeps, GatesKeep, KilledKeeps
  DEF SoNext, SoStep
<1>2. CASE UNCHANGED soVars
  BY <1>2 DEF soVars, SoInv, ExitCodesTell, Ended, HasRow, HeardOf, Known, TargetOf, Stored, Degraded
<1> QED
  BY <1>1, <1>2

LEMMA SoStarts ==
    ASSUME SoInit
    PROVE  SoInv
<1>1. Len(soRows) = 0 /\ DOMAIN soRows = {} /\ soRow = 0 /\ soStage = "idle" /\ soExit = "none" /\ soSoft = "none"
  BY DEF SoInit
<1>2. ExitCodesTell
  BY <1>1 DEF ExitCodesTell, Ended
<1> QED
  BY <1>1, <1>2 DEF SoInv, AtWork

\* What a CI job may conclude from the exit code, for all commands, configurations and
\* findings, and however many runs there are (exit codes of main.rs, run of scan.rs).
THEOREM ExitCodesAreRight == SoSpec => []ExitCodesTell
<1>1. SoInv => ExitCodesTell
  BY DEF SoInv
<1> QED
  BY <1>1, SoStarts, SoMoves, PTL DEF SoSpec

\* And with --fail-on-new no finding whose title says anything slips in between two runs
\* that succeed, however many failed, were killed or were taken up again between them; one
\* with a blank title may (find_previous_scan, finding_baseline_key).
THEOREM NoneSlipsIn == SoSpec => []NewFindingsNoticed
<1>1. SoInv => NewFindingsNoticed
  BY DEF SoInv, NewFindingsNoticed, Ended, HasRow, HeardOf
<1> QED
  BY <1>1, SoStarts, SoMoves, PTL DEF SoSpec

-----------------------------------------------------------------------------
(* The database *)

\* What a row of a table refers to.
IsTarget(row) == \E t \in DbScans : row.key = RowKey("targets", t) /\ row.refs = {}
IsScan(row) == \E s \in DbScans : row.key = RowKey("scans", s) /\ row.refs = {RowKey("targets", s)}
IsFindingOf(row, f) ==
    row.key = RowKey("findings", f) /\ row.refs = {RowKey("scans", DbFindings[f].scan), RowKey("targets", DbFindings[f].scan)}
IsStoredFinding(row) == \E f \in DOMAIN DbFindings : IsFindingOf(row, f)
IsCheckpoint(row) == \E s \in DbScans : row = CheckpointRow(s)
IsRow(row) ==
    /\ row = [key |-> row.key, refs |-> row.refs, status |-> row.status, readable |-> row.readable]
    /\ IsTarget(row) \/ IsScan(row) \/ IsStoredFinding(row) \/ IsCheckpoint(row)

Unique(rows) == \A r1, r2 \in rows : r1.key = r2.key => r1 = r2

\* Every reference leads to a row, a scan that is written holds all its stored findings,
\* and what a delete has passed nobody wrote again, or the delete knows.
RowsInv ==
    /\ \A row \in dbRows : IsRow(row)
    /\ Unique(dbRows) /\ Allowed(dbRows)

RunInv ==
    dbRun = NoScanRun \/
        /\ dbRun.scan \in DbScans /\ dbRun = [scan |-> dbRun.scan, held |-> dbRun.held]
        /\ \A f \in DOMAIN dbRun.held : f \in DOMAIN DbFindings /\ DbFindings[f].scan = dbRun.scan
        /\ \A f \in DOMAIN DbFindings :
              DbFindings[f].scan = dbRun.scan /\ RowKey("findings", f) \in Keys(dbRows) => f \in DOMAIN dbRun.held

DeleteInv ==
    /\ dbDelete = NoDelete \/ dbDelete \in [scan : DbScans, next : 0..6, raced : BOOLEAN]
    /\ dbDelete.next \in 2..5 /\ ~dbDelete.raced => RowKey("scan_scanner_checkpoints", dbDelete.scan) \notin Keys(dbRows)
    /\ dbDelete.next = 5 /\ ~dbDelete.raced =>
          \A f \in DOMAIN DbFindings : DbFindings[f].scan = dbDelete.scan => RowKey("findings", f) \notin Keys(dbRows)

DbInv ==
    /\ RowsInv /\ RunInv /\ DeleteInv
    /\ dbTriage \in DOMAIN DbFindings \cup {""}

\* Keys are told apart by their table and their id.
LEMMA KeysDiffer ==
    /\ \A t1, t2, i1, i2 : RowKey(t1, i1) = RowKey(t2, i2) <=> t1 = t2 /\ i1 = i2
    /\ \A t, i : RowKey(t, i).table = t /\ RowKey(t, i).id = i
<1>1. \A t, i : RowKey(t, i).table = t /\ RowKey(t, i).id = i
  BY DEF RowKey
<1> QED
  BY <1>1

\* The rows that are written.
LEMMA WrittenRows ==
    /\ \A key, refs, status :
          /\ Row(key, refs, status).key = key /\ Row(key, refs, status).refs = refs
          /\ Row(key, refs, status).status = status /\ Row(key, refs, status).readable = TRUE
    /\ \A f, status : IsFindingOf(FindingRow(f, status), f) /\ FindingRow(f, status).status = status
    /\ \A s : CheckpointRow(s).key = RowKey("scan_scanner_checkpoints", s) /\ CheckpointRow(s).refs = {RowKey("scans", s)}
BY DEF Row, FindingRow, CheckpointRow, IsFindingOf

\* Where keys are unique the row of a key is what At finds.
LEMMA AtFinds ==
    ASSUME Unique(dbRows), NEW row \in dbRows
    PROVE  At(row.key) = row
BY DEF Unique, At

\* Who refers to a scan is a finding or a checkpoint of it; nobody refers to these.
LEMMA WhoRefers ==
    ASSUME NEW row, IsRow(row)
    PROVE  /\ \A s : RowKey("scans", s) \in row.refs <=>
                 \/ \E f \in DOMAIN DbFindings : IsFindingOf(row, f) /\ DbFindings[f].scan = s
                 \/ s \in DbScans /\ row = CheckpointRow(s)
           /\ \A key \in row.refs : key.table \in {"scans", "targets"}
<1>1. CASE IsTarget(row)
  BY <1>1, KeysDiffer, WrittenRows DEF IsTarget, IsFindingOf
<1>2. CASE IsScan(row)
  BY <1>2, KeysDiffer, WrittenRows DEF IsScan, IsFindingOf
<1>3. CASE IsStoredFinding(row)
  BY <1>3, KeysDiffer, WrittenRows DEF IsStoredFinding, IsFindingOf
<1>4. CASE IsCheckpoint(row)
  BY <1>4, KeysDiffer, WrittenRows DEF IsCheckpoint, IsFindingOf
<1> QED
  BY <1>1, <1>2, <1>3, <1>4 DEF IsRow

\* The rows a scan or a user adds are rows.
LEMMA AddedAreRows ==
    /\ \A t \in DbScans : \A status : IsRow(Row(RowKey("targets", t), {}, status))
    /\ \A t \in DbScans : \A status : IsRow(Row(RowKey("scans", t), {RowKey("targets", t)}, status))
    /\ \A f \in DOMAIN DbFindings : \A status : IsRow(FindingRow(f, status))
    /\ \A s \in DbScans : IsRow(CheckpointRow(s))
<1>1. \A key, refs, status : Row(key, refs, status) =
         [key |-> Row(key, refs, status).key, refs |-> Row(key, refs, status).refs,
          status |-> Row(key, refs, status).status, readable |-> Row(key, refs, status).readable]
  BY DEF Row
<1>2. \A f, status : FindingRow(f, status) =
         Row(RowKey("findings", f), {RowKey("scans", DbFindings[f].scan), RowKey("targets", DbFindings[f].scan)}, status)
  BY DEF FindingRow
<1>3. \A s : CheckpointRow(s) = Row(RowKey("scan_scanner_checkpoints", s), {RowKey("scans", s)}, "completed")
  BY DEF CheckpointRow
<1>4. ASSUME NEW row, row = [key |-> row.key, refs |-> row.refs, status |-> row.status, readable |-> row.readable],
             IsTarget(row) \/ IsScan(row) \/ IsStoredFinding(row) \/ IsCheckpoint(row)
      PROVE  IsRow(row)
  BY <1>4 DEF IsRow
<1>5. ASSUME NEW t \in DbScans, NEW status PROVE IsRow(Row(RowKey("targets", t), {}, status))
  <2>1. IsTarget(Row(RowKey("targets", t), {}, status))
    BY WrittenRows DEF IsTarget
  <2> QED
    BY <1>1, <1>4, <2>1
<1>6. ASSUME NEW t \in DbScans, NEW status PROVE IsRow(Row(RowKey("scans", t), {RowKey("targets", t)}, status))
  <2>1. IsScan(Row(RowKey("scans", t), {RowKey("targets", t)}, status))
    BY WrittenRows DEF IsScan
  <2> QED
    BY <1>1, <1>4, <2>1
<1>7. ASSUME NEW f \in DOMAIN DbFindings, NEW status PROVE IsRow(FindingRow(f, status))
  <2>1. IsStoredFinding(FindingRow(f, status))
    BY WrittenRows DEF IsStoredFinding
  <2> QED
    BY <1>1, <1>2, <1>4, <2>1
<1>8. ASSUME NEW s \in DbScans PROVE IsRow(CheckpointRow(s))
  <2>1. IsCheckpoint(CheckpointRow(s))
    BY DEF IsCheckpoint
  <2> QED
    BY <1>1, <1>3, <1>4, <2>1
<1> QED
  BY <1>5, <1>6, <1>7, <1>8

\* What concerns the run and the delete stays where no finding and no checkpoint is added.
LEMMA NothingAddedKeeps ==
    ASSUME RunInv, DeleteInv, UNCHANGED <<dbRun, dbDelete>>,
           \A key \in Keys(dbRows') : key.table \in {"findings", "scan_scanner_checkpoints"} => key \in Keys(dbRows)
    PROVE  RunInv' /\ DeleteInv'
<1>1. \A id : /\ RowKey("findings", id) \in Keys(dbRows') => RowKey("findings", id) \in Keys(dbRows)
              /\ RowKey("scan_scanner_checkpoints", id) \in Keys(dbRows') => RowKey("scan_scanner_checkpoints", id) \in Keys(dbRows)
  BY KeysDiffer
<1> QED
  BY <1>1 DEF RunInv, DeleteInv

\* A row of a scan or of a finding is written anew, and refers to what it did.
LEMMA RewritingKeeps ==
    ASSUME RowsInv, NEW old \in dbRows, NEW new, old.key.table # "scan_scanner_checkpoints", IsRow(old) => IsRow(new),
           new.key = old.key, new.refs = old.refs, dbRows' = (dbRows \ {old}) \cup {new}
    PROVE  RowsInv' /\ Keys(dbRows') = Keys(dbRows)
<1>1. Keys(dbRows') = Keys(dbRows)
  BY DEF Keys
<1>2. Unique(dbRows')
  BY DEF RowsInv, Unique
<1>3. Allowed(dbRows')
  BY <1>1 DEF RowsInv, Allowed
<1> QED
  BY <1>1, <1>2, <1>3 DEF RowsInv

\* Its status is written, or it becomes unreadable.
LEMMA RewrittenIsRow ==
    ASSUME NEW old, IsRow(old), old.key.table # "scan_scanner_checkpoints", NEW value
    PROVE  /\ IsRow([old EXCEPT !.status = value]) /\ IsRow([old EXCEPT !.readable = value])
           /\ [old EXCEPT !.status = value].key = old.key /\ [old EXCEPT !.status = value].refs = old.refs
           /\ [old EXCEPT !.readable = value].key = old.key /\ [old EXCEPT !.readable = value].refs = old.refs
           /\ [old EXCEPT !.status = value].status = value /\ [old EXCEPT !.readable = value].status = old.status
<1>1. old = [key |-> old.key, refs |-> old.refs, status |-> old.status, readable |-> old.readable]
  BY DEF IsRow
<1>2. [old EXCEPT !.status = value] = [key |-> old.key, refs |-> old.refs, status |-> value, readable |-> old.readable]
  BY <1>1
<1>3. [old EXCEPT !.readable = value] = [key |-> old.key, refs |-> old.refs, status |-> old.status, readable |-> value]
  BY <1>1
<1>4. IsTarget(old) \/ IsScan(old) \/ IsStoredFinding(old)
  BY KeysDiffer, WrittenRows DEF IsRow, IsCheckpoint
<1> QED
  BY <1>2, <1>3, <1>4 DEF IsRow, IsTarget, IsScan, IsStoredFinding, IsFindingOf

\* Rows are taken away, and nobody refers to them.
LEMMA RemovingKeeps ==
    ASSUME RowsInv, dbRows' \subseteq dbRows, Allowed(dbRows')
    PROVE  RowsInv' /\ Keys(dbRows') \subseteq Keys(dbRows)
BY DEF RowsInv, Unique, Keys

-----------------------------------------------------------------------------
\* A row of a scan in the store.
LEMMA StoredScan ==
    ASSUME RowsInv, NEW s, InStore(RowKey("scans", s))
    PROVE  /\ At(RowKey("scans", s)) \in dbRows /\ At(RowKey("scans", s)).key = RowKey("scans", s)
           /\ At(RowKey("scans", s)).refs = {RowKey("targets", s)} /\ RowKey("targets", s) \in Keys(dbRows)
<1>1. PICK row \in dbRows : row.key = RowKey("scans", s)
  BY DEF InStore, Keys
<1>2. At(RowKey("scans", s)) = row
  BY <1>1, AtFinds DEF RowsInv
<1>3. row.refs = {RowKey("targets", s)}
  BY <1>1, KeysDiffer, WrittenRows DEF RowsInv, IsRow, IsTarget, IsScan, IsStoredFinding, IsFindingOf, IsCheckpoint
<1> QED
  BY <1>1, <1>2, <1>3 DEF RowsInv, Allowed

\* And one of a finding.
LEMMA StoredFinding ==
    ASSUME RowsInv, NEW f, InStore(RowKey("findings", f))
    PROVE  /\ At(RowKey("findings", f)) \in dbRows /\ f \in DOMAIN DbFindings
           /\ IsFindingOf(At(RowKey("findings", f)), f) /\ RowKey("scans", DbFindings[f].scan) \in Keys(dbRows)
<1>1. PICK row \in dbRows : row.key = RowKey("findings", f)
  BY DEF InStore, Keys
<1>2. At(RowKey("findings", f)) = row
  BY <1>1, AtFinds DEF RowsInv
<1>3. f \in DOMAIN DbFindings /\ IsFindingOf(row, f)
  BY <1>1, KeysDiffer, WrittenRows DEF RowsInv, IsRow, IsTarget, IsScan, IsStoredFinding, IsFindingOf, IsCheckpoint
<1> QED
  BY <1>1, <1>2, <1>3 DEF RowsInv, Allowed, IsFindingOf

\* All checkpoints of a scan are one row here.
LEMMA CheckpointsAreOne ==
    ASSUME NEW row, IsRow(row), NEW s, row.key = RowKey("scan_scanner_checkpoints", s)
    PROVE  row = CheckpointRow(s)
<1>1. ~IsTarget(row) /\ ~IsScan(row) /\ ~IsStoredFinding(row)
  BY KeysDiffer DEF IsTarget, IsScan, IsStoredFinding, IsFindingOf
<1>2. PICK t \in DbScans : row = CheckpointRow(t)
  BY <1>1 DEF IsRow, IsCheckpoint
<1>3. t = s
  BY <1>2, KeysDiffer, WrittenRows
<1> QED
  BY <1>2, <1>3

\* So is a finding.
LEMMA FindingsAreOne ==
    ASSUME NEW row, IsRow(row), NEW f, row.key = RowKey("findings", f)
    PROVE  f \in DOMAIN DbFindings /\ IsFindingOf(row, f)
<1>1. ~IsTarget(row) /\ ~IsScan(row) /\ ~IsCheckpoint(row)
  BY KeysDiffer, WrittenRows DEF IsTarget, IsScan, IsCheckpoint
<1>2. PICK g \in DOMAIN DbFindings : IsFindingOf(row, g)
  BY <1>1 DEF IsRow, IsStoredFinding
<1>3. g = f
  BY <1>2, KeysDiffer DEF IsFindingOf
<1> QED
  BY <1>2, <1>3

\* The findings of a scan are those of its rows.
LEMMA FindingsOfScan ==
    ASSUME RowsInv, NEW s
    PROVE  ScanFindings(s) = {row \in dbRows : \E f \in DOMAIN DbFindings : IsFindingOf(row, f) /\ DbFindings[f].scan = s}
<1>1. ASSUME NEW row \in dbRows, RowKey("scans", s) \in row.refs, row.key.table = "findings"
      PROVE  \E f \in DOMAIN DbFindings : IsFindingOf(row, f) /\ DbFindings[f].scan = s
  BY <1>1, WhoRefers, WrittenRows, KeysDiffer DEF RowsInv
<1>2. ASSUME NEW row \in dbRows, NEW f \in DOMAIN DbFindings, IsFindingOf(row, f), DbFindings[f].scan = s
      PROVE  RowKey("scans", s) \in row.refs /\ row.key.table = "findings"
  BY <1>2, KeysDiffer DEF IsFindingOf
<1> QED
  BY <1>1, <1>2 DEF ScanFindings, Children

-----------------------------------------------------------------------------
\* No finding and no checkpoint is stored of a scan that has no row.
LEMMA NothingWithoutScan ==
    ASSUME RowsInv, NEW s, ~InStore(RowKey("scans", s))
    PROVE  \A f \in DOMAIN DbFindings : DbFindings[f].scan = s => RowKey("findings", f) \notin Keys(dbRows)
<1> SUFFICES ASSUME NEW f \in DOMAIN DbFindings, DbFindings[f].scan = s, RowKey("findings", f) \in Keys(dbRows)
             PROVE  FALSE
  OBVIOUS
<1> QED
  BY StoredFinding DEF InStore

LEMMA ScanStartsKeeps ==
    ASSUME DbInv, NEW s \in DbScans, ScanStarts(s)
    PROVE  DbInv'
<1> DEFINE target == Row(RowKey("targets", s), {}, "")
           scan == Row(RowKey("scans", s), {RowKey("targets", s)}, "running")
<1>1. /\ dbRows' = dbRows \cup {target, scan} /\ dbRun' = [scan |-> s, held |-> <<>>] /\ UNCHANGED <<dbDelete, dbTriage>>
      /\ RowKey("targets", s) \notin Keys(dbRows) /\ RowKey("scans", s) \notin Keys(dbRows)
  BY DEF ScanStarts, InStore
<1>2. /\ IsRow(target) /\ IsRow(scan) /\ target.key = RowKey("targets", s) /\ scan.key = RowKey("scans", s)
      /\ target.refs = {} /\ scan.refs = {target.key} /\ target.key # scan.key
      /\ target.key.table = "targets" /\ scan.key.table = "scans"
  <2>1. IsRow(target) /\ IsRow(scan)
    BY AddedAreRows
  <2>2. target.key = RowKey("targets", s) /\ scan.key = RowKey("scans", s) /\ target.refs = {} /\ scan.refs = {RowKey("targets", s)}
    BY DEF Row
  <2> HIDE DEF target, scan
  <2>3. target.key # scan.key /\ target.key.table = "targets" /\ scan.key.table = "scans"
    BY <2>2, KeysDiffer
  <2> QED
    BY <2>1, <2>2, <2>3
<1> HIDE DEF target, scan
<1>3. Keys(dbRows') = Keys(dbRows) \cup {target.key, scan.key}
  BY <1>1 DEF Keys
<1>4. Unique(dbRows')
  <2>1. \A r \in dbRows : r.key # target.key /\ r.key # scan.key
    BY <1>1, <1>2 DEF Keys
  <2>2. \A r1, r2 \in dbRows : r1.key = r2.key => r1 = r2
    BY DEF DbInv, RowsInv, Unique
  <2> QED
    BY <1>1, <1>2, <2>1, <2>2 DEF Unique
<1>5. Allowed(dbRows')
  BY <1>1, <1>2, <1>3 DEF DbInv, RowsInv, Allowed
<1>6. \A id : /\ RowKey("findings", id) \in Keys(dbRows') => RowKey("findings", id) \in Keys(dbRows)
              /\ RowKey("scan_scanner_checkpoints", id) \in Keys(dbRows') => RowKey("scan_scanner_checkpoints", id) \in Keys(dbRows)
  BY <1>2, <1>3, KeysDiffer
<1>7. \A f \in DOMAIN DbFindings : DbFindings[f].scan = s => RowKey("findings", f) \notin Keys(dbRows')
  BY <1>1, <1>6, NothingWithoutScan DEF DbInv, InStore
<1>8. RunInv'
  <2>1. dbRun'.scan = s /\ dbRun'.held = <<>> /\ DOMAIN <<>> = {}
    BY <1>1
  <2>2. \A f \in DOMAIN DbFindings : ~(DbFindings[f].scan = dbRun'.scan /\ RowKey("findings", f) \in Keys(dbRows'))
    BY <1>7, <2>1
  <2>3. dbRun' = [scan |-> dbRun'.scan, held |-> dbRun'.held]
    BY <1>1, <2>1
  <2> QED
    BY <2>1, <2>2, <2>3 DEF RunInv
<1>9. DeleteInv'
  BY <1>1, <1>6 DEF DbInv, DeleteInv
<1> QED
  BY <1>1, <1>2, <1>4, <1>5, <1>8, <1>9 DEF DbInv, RowsInv

LEMMA ScanResumesKeeps ==
    ASSUME DbInv, NEW s \in DbScans, ScanResumes(s)
    PROVE  DbInv'
<1> DEFINE old == At(RowKey("scans", s))
           held == [f \in {row.key.id : row \in ScanFindings(s)} |-> At(RowKey("findings", f)).status]
<1>1. /\ InStore(RowKey("scans", s)) /\ dbRun' = [scan |-> s, held |-> held] /\ UNCHANGED <<dbDelete, dbTriage>>
      /\ dbRows' = (dbRows \ {old}) \cup {[old EXCEPT !.status = "running"]}
  BY DEF ScanResumes, WithStatus
<1>2. old \in dbRows /\ old.key.table # "scan_scanner_checkpoints" /\ IsRow(old)
  <2>1. old \in dbRows /\ old.key = RowKey("scans", s)
    BY <1>1, StoredScan DEF DbInv
  <2> HIDE DEF old
  <2>2. old.key.table = "scans"
    BY <2>1, KeysDiffer
  <2> QED
    BY <2>1, <2>2 DEF DbInv, RowsInv
<1>3. RowsInv' /\ Keys(dbRows') = Keys(dbRows)
  <2> HIDE DEF old
  <2> QED
    BY <1>1, <1>2, RewrittenIsRow, RewritingKeeps DEF DbInv
<1>4. \A f : f \in DOMAIN held <=> f \in DOMAIN DbFindings /\ DbFindings[f].scan = s /\ RowKey("findings", f) \in Keys(dbRows)
  <2>1. ASSUME NEW row \in ScanFindings(s)
        PROVE  row.key.id \in DOMAIN DbFindings /\ DbFindings[row.key.id].scan = s /\ RowKey("findings", row.key.id) \in Keys(dbRows)
    <3>1. PICK f \in DOMAIN DbFindings : row \in dbRows /\ IsFindingOf(row, f) /\ DbFindings[f].scan = s
      BY <2>1, FindingsOfScan DEF DbInv
    <3>2. row.key = RowKey("findings", f) /\ row.key.id = f
      BY <3>1, KeysDiffer DEF IsFindingOf
    <3> QED
      BY <3>1, <3>2 DEF Keys
  <2>2. ASSUME NEW f \in DOMAIN DbFindings, DbFindings[f].scan = s, RowKey("findings", f) \in Keys(dbRows)
        PROVE  f \in {row.key.id : row \in ScanFindings(s)}
    <3>1. At(RowKey("findings", f)) \in dbRows /\ IsFindingOf(At(RowKey("findings", f)), f)
      BY <2>2, StoredFinding DEF DbInv, InStore
    <3>2. At(RowKey("findings", f)) \in ScanFindings(s)
      BY <2>2, <3>1, FindingsOfScan DEF DbInv
    <3>3. At(RowKey("findings", f)).key.id = f
      BY <3>1, KeysDiffer DEF IsFindingOf
    <3> QED
      BY <3>2, <3>3
  <2> QED
    BY <2>1, <2>2
<1> HIDE DEF held, old
<1>5. RunInv'
  <2>1. dbRun'.scan = s /\ dbRun'.held = held /\ dbRun' = [scan |-> dbRun'.scan, held |-> dbRun'.held]
    BY <1>1
  <2> QED
    BY <1>3, <1>4, <2>1 DEF RunInv
<1>6. DeleteInv'
  BY <1>1, <1>3 DEF DbInv, DeleteInv
<1> QED
  BY <1>1, <1>3, <1>5, <1>6 DEF DbInv

\* A delete knows who wrote what it may have passed.
LEMMA RacedKeeps ==
    ASSUME DeleteInv, NEW s \in DbScans, Raced(s),
           \A id : RowKey("scan_scanner_checkpoints", id) \in Keys(dbRows') =>
                      RowKey("scan_scanner_checkpoints", id) \in Keys(dbRows) \/ id = s,
           \A f \in DOMAIN DbFindings :
               RowKey("findings", f) \in Keys(dbRows') => RowKey("findings", f) \in Keys(dbRows) \/ DbFindings[f].scan = s
    PROVE  DeleteInv'
<1>1. dbDelete = NoDelete \/ dbDelete \in [scan : DbScans, next : 0..6, raced : BOOLEAN]
  BY DEF DeleteInv
<1>2. /\ dbDelete'.scan = dbDelete.scan /\ dbDelete'.next = dbDelete.next
      /\ dbDelete'.raced = (dbDelete.raced \/ (dbDelete.scan = s /\ dbDelete.next > 0))
      /\ dbDelete' = NoDelete \/ dbDelete' \in [scan : DbScans, next : 0..6, raced : BOOLEAN]
  <2>1. CASE dbDelete = NoDelete
    <3>1. dbDelete.scan = "" /\ dbDelete.next = 0 /\ dbDelete.raced = FALSE /\ "" # s
      BY <2>1, DatabaseAssumption DEF NoDelete
    <3>2. dbDelete' = dbDelete
      BY <2>1, <3>1 DEF Raced, NoDelete
    <3> QED
      BY <2>1, <3>1, <3>2
  <2>2. CASE dbDelete \in [scan : DbScans, next : 0..6, raced : BOOLEAN]
    BY <2>2 DEF Raced
  <2> QED
    BY <1>1, <2>1, <2>2
<1>3. dbDelete.next \in 2..5 => dbDelete.next > 0
  OBVIOUS
<1>4. dbDelete.next \in 2..5 /\ ~dbDelete'.raced => dbDelete.scan # s /\ ~dbDelete.raced
  BY <1>2, <1>3
<1>5. dbDelete.next = 5 => dbDelete.next \in 2..5
  OBVIOUS
<1> QED
  BY <1>2, <1>4, <1>5 DEF DeleteInv

\* A finding and its checkpoint are stored, or the run fails.
LEMMA RunCheckpointsKeeps ==
    ASSUME DbInv, NEW f \in DOMAIN DbFindings, RunCheckpoints(f)
    PROVE  DbInv'
<1> DEFINE s == DbFindings[f].scan
           finding == FindingRow(f, "open")
           checkpoint == CheckpointRow(s)
<1>0. s \in DbScans /\ dbTriage' = dbTriage /\ dbRun.scan = s /\ f \notin DOMAIN dbRun.held
  BY DatabaseAssumption DEF RunCheckpoints, RunFails
<1>1. CASE RunFails
  <2>1. dbRun' = NoScanRun /\ UNCHANGED <<dbRows, dbDelete>>
    BY <1>1 DEF RunFails
  <2> QED
    BY <1>0, <2>1 DEF DbInv, RowsInv, RunInv, DeleteInv
<1>2. CASE ~RunFails
  <2>1. /\ dbRows' = dbRows \cup {finding, checkpoint} /\ Allowed(dbRows')
        /\ dbRun' = [dbRun EXCEPT !.held = Holding(dbRun.held, f)] /\ Raced(s)
    BY <1>2 DEF RunCheckpoints
  <2>2. /\ IsRow(finding) /\ IsRow(checkpoint) /\ finding.key = RowKey("findings", f)
        /\ checkpoint.key = RowKey("scan_scanner_checkpoints", s)
    BY <1>0, AddedAreRows, WrittenRows DEF IsFindingOf
  <2>3. dbRun # NoScanRun
    <3>1. NoScanRun.scan = "" /\ "" \notin DbScans
      BY DatabaseAssumption DEF NoScanRun
    <3> QED
      BY <1>0, <3>1
  <2>4. RowKey("findings", f) \notin Keys(dbRows)
    BY <1>0, <2>3 DEF DbInv, RunInv
  <2>5. \A row \in dbRows : row.key = checkpoint.key => row = checkpoint
    BY <2>2, CheckpointsAreOne DEF DbInv, RowsInv
  <2> HIDE DEF finding, checkpoint
  <2>6. finding.key # checkpoint.key
    BY <2>2, KeysDiffer
  <2>7. Unique(dbRows')
    <3>1. \A row \in dbRows : row.key # finding.key
      BY <2>2, <2>4 DEF Keys
    <3>2. \A r1, r2 \in dbRows : r1.key = r2.key => r1 = r2
      BY DEF DbInv, RowsInv, Unique
    <3> QED
      BY <2>1, <2>5, <2>6, <3>1, <3>2 DEF Unique
  <2>8. Keys(dbRows') = Keys(dbRows) \cup {finding.key, checkpoint.key}
    BY <2>1 DEF Keys
  <2> HIDE DEF s
  <2>9. \A id : /\ RowKey("findings", id) \in Keys(dbRows') => RowKey("findings", id) \in Keys(dbRows) \/ id = f
                /\ RowKey("scan_scanner_checkpoints", id) \in Keys(dbRows') =>
                      RowKey("scan_scanner_checkpoints", id) \in Keys(dbRows) \/ id = s
    BY <2>2, <2>8, KeysDiffer
  <2>10. RunInv'
    <3>1. dbRun = [scan |-> s, held |-> dbRun.held]
      BY <1>0, <2>3 DEF DbInv, RunInv
    <3>2. dbRun' = [scan |-> s, held |-> Holding(dbRun.held, f)]
      BY <2>1, <3>1
    <3>3. dbRun'.scan = s /\ dbRun'.held = Holding(dbRun.held, f) /\ DOMAIN dbRun'.held = DOMAIN dbRun.held \cup {f}
      BY <3>2 DEF Holding
    <3>4. \A g \in DOMAIN dbRun'.held : g \in DOMAIN DbFindings /\ DbFindings[g].scan = s
      BY <1>0, <2>3, <3>3 DEF DbInv, RunInv, s
    <3>5. \A g \in DOMAIN DbFindings :
             DbFindings[g].scan = s /\ RowKey("findings", g) \in Keys(dbRows') => g \in DOMAIN dbRun'.held
      BY <1>0, <2>3, <2>9, <3>3 DEF DbInv, RunInv
    <3> QED
      BY <1>0, <3>2, <3>3, <3>4, <3>5 DEF RunInv
  <2>11. DeleteInv'
    <3>1. \A g \in DOMAIN DbFindings :
             RowKey("findings", g) \in Keys(dbRows') => RowKey("findings", g) \in Keys(dbRows) \/ DbFindings[g].scan = s
      BY <2>9 DEF s
    <3> QED
      BY <1>0, <2>1, <2>9, <3>1, RacedKeeps DEF DbInv
  <2> QED
    BY <1>0, <2>1, <2>2, <2>7, <2>10, <2>11 DEF DbInv, RowsInv
<1> QED
  BY <1>1, <1>2

\* The findings of the scan are replaced and its row is written, or the run fails.
LEMMA RunFinalizesKeeps ==
    ASSUME DbInv, NEW dropped, NEW confirmed, NEW degraded \in BOOLEAN, RunFinalizes(dropped, confirmed, degraded)
    PROVE  /\ DbInv'
           /\ ~RunFails =>
                \A row \in dbRows : \A g \in DOMAIN DbFindings : IsFindingOf(row, g) =>
                    \/ row \in dbRows' \/ row.key \notin Keys(dbRows')
                    \/ /\ DbFindings[g].scan = dbRun.scan /\ g \in DOMAIN dbRun.held
                       /\ FindingRow(g, IF g \in confirmed THEN "confirmed" ELSE dbRun.held[g]) \in dbRows'
<1> DEFINE s == dbRun.scan
           StatusOf(f) == IF f \in confirmed THEN "confirmed" ELSE dbRun.held[f]
           kept == DOMAIN dbRun.held \ dropped
           rows == {FindingRow(f, StatusOf(f)) : f \in kept}
           own == Row(RowKey("scans", s), {RowKey("targets", s)}, IF degraded THEN "failed" ELSE "completed")
           others == dbRows \ (ScanFindings(s) \cup {row \in dbRows : row.key = RowKey("scans", s)})
<1>0. /\ dbRun # NoScanRun /\ dbTriage' = dbTriage /\ s \in DbScans
      /\ \A f \in kept : f \in DOMAIN DbFindings /\ DbFindings[f].scan = s
  BY DEF RunFinalizes, RunFails, DbInv, RunInv
<1>1. CASE RunFails
  <2>1. dbRun' = NoScanRun /\ UNCHANGED <<dbRows, dbDelete>>
    BY <1>1 DEF RunFails
  <2> QED
    BY <1>0, <1>1, <2>1 DEF DbInv, RowsInv, RunInv, DeleteInv
<1>2. CASE ~RunFails
  <2>1. dbRows' = others \cup rows \cup {own} /\ dbRun' = NoScanRun /\ Raced(s) /\ InStore(RowKey("scans", s))
    BY <1>2 DEF RunFinalizes, Restored
  <2>2. IsRow(own) /\ own.key = RowKey("scans", s) /\ own.refs = {RowKey("targets", s)}
    <3>1. own.key = RowKey("scans", s) /\ own.refs = {RowKey("targets", s)}
      BY DEF Row
    <3> QED
      BY <1>0, <3>1, AddedAreRows
  <2>3. \A row \in rows : \E f \in kept : row = FindingRow(f, StatusOf(f)) /\ IsRow(row) /\ IsFindingOf(row, f)
    BY <1>0, AddedAreRows, WrittenRows
  <2>4. \A row \in others : /\ row \in dbRows /\ IsRow(row) /\ row.key # RowKey("scans", s)
                            /\ \A f \in DOMAIN DbFindings : IsFindingOf(row, f) => DbFindings[f].scan # s
    BY FindingsOfScan DEF DbInv, RowsInv
  <2>5. \A row \in dbRows : row.key.table \in {"scans", "targets"} /\ row.key # RowKey("scans", s) => row \in others
    BY KeysDiffer DEF ScanFindings
  <2>6. \A f \in kept : FindingRow(f, StatusOf(f)) \in rows
    OBVIOUS
  <2>7. \A row \in dbRows : \A f \in DOMAIN DbFindings :
           row.key = RowKey("findings", f) => IsFindingOf(row, f)
    BY FindingsAreOne DEF DbInv, RowsInv
  <2>8. \A row \in dbRows : \A f \in DOMAIN DbFindings : IsFindingOf(row, f) /\ DbFindings[f].scan # s => row \in others
    <3> SUFFICES ASSUME NEW row \in dbRows, NEW f \in DOMAIN DbFindings, IsFindingOf(row, f), DbFindings[f].scan # s
                 PROVE  row \notin ScanFindings(s) /\ row.key # RowKey("scans", s)
      OBVIOUS
    <3>1. row.key = RowKey("findings", f) /\ \A g : IsFindingOf(row, g) => g = f
      BY KeysDiffer DEF IsFindingOf
    <3>2. row \notin ScanFindings(s)
      BY <3>1, FindingsOfScan DEF DbInv
    <3> QED
      BY <3>1, <3>2, KeysDiffer
  <2> HIDE DEF rows, own, others, kept, StatusOf
  <2>9. Unique(dbRows')
    <3>1. \A row \in rows : row.key.table = "findings" /\ row.key # own.key
      BY <2>2, <2>3, KeysDiffer DEF IsFindingOf
    <3>2. ASSUME NEW r1 \in rows, NEW r2 \in rows, r1.key = r2.key
          PROVE  r1 = r2
      BY <2>3, <3>2, KeysDiffer DEF IsFindingOf
    <3>3. ASSUME NEW r1 \in rows, NEW r2 \in others
          PROVE  r1.key # r2.key
      BY <1>0, <2>3, <2>4, <2>7, <3>3 DEF IsFindingOf
    <3>4. \A r1, r2 \in others : r1.key = r2.key => r1 = r2
      BY <2>4 DEF DbInv, RowsInv, Unique
    <3> QED
      BY <2>1, <2>2, <2>4, <3>1, <3>2, <3>3, <3>4 DEF Unique
  <2>10. Allowed(dbRows')
    <3>1. \A key \in Keys(dbRows) : key.table \in {"scans", "targets"} => key \in Keys(dbRows')
      BY <2>1, <2>2, <2>5 DEF Keys
    <3>2. \A row \in others : row.refs \subseteq Keys(dbRows')
      BY <2>4, <3>1, WhoRefers DEF DbInv, RowsInv, Allowed
    <3>3. RowKey("targets", s) \in Keys(dbRows') /\ RowKey("scans", s) \in Keys(dbRows')
      <4>1. RowKey("targets", s) \in Keys(dbRows) /\ RowKey("targets", s).table = "targets"
        BY <2>1, StoredScan, KeysDiffer DEF DbInv
      <4> QED
        BY <2>1, <2>2, <3>1, <4>1 DEF Keys
    <3>4. \A row \in rows : row.refs \subseteq Keys(dbRows')
      BY <1>0, <2>3, <3>3 DEF IsFindingOf
    <3> QED
      BY <2>1, <2>2, <3>2, <3>3, <3>4 DEF Allowed
  <2>11. \A key \in Keys(dbRows') : key \in Keys(dbRows) \/ key = own.key \/ \E f \in kept : key = RowKey("findings", f)
    BY <2>1, <2>3, <2>4 DEF Keys, IsFindingOf
  <2>12. DeleteInv'
    <3>1. \A id : RowKey("scan_scanner_checkpoints", id) \in Keys(dbRows') =>
                      RowKey("scan_scanner_checkpoints", id) \in Keys(dbRows) \/ id = s
      BY <2>2, <2>11, KeysDiffer
    <3>2. \A f \in DOMAIN DbFindings :
               RowKey("findings", f) \in Keys(dbRows') => RowKey("findings", f) \in Keys(dbRows) \/ DbFindings[f].scan = s
      BY <1>0, <2>2, <2>11, KeysDiffer
    <3> HIDE DEF s
    <3> QED
      BY <1>0, <2>1, <3>1, <3>2, RacedKeeps DEF DbInv
  <2>13. ASSUME NEW row \in dbRows, NEW g \in DOMAIN DbFindings, IsFindingOf(row, g), row \notin dbRows', row.key \in Keys(dbRows')
         PROVE  g \in kept /\ DbFindings[g].scan = s
    <3>1. DbFindings[g].scan = s
      BY <2>1, <2>8, <2>13
    <3>2. PICK after \in dbRows' : after.key = RowKey("findings", g)
      BY <2>13 DEF Keys, IsFindingOf
    <3>3. after \in rows
      BY <2>1, <2>2, <2>4, <2>7, <3>1, <3>2, KeysDiffer
    <3> QED
      BY <2>3, <3>1, <3>2, <3>3, KeysDiffer DEF IsFindingOf
  <2>14. \A row \in dbRows : \A g \in DOMAIN DbFindings : IsFindingOf(row, g) =>
            \/ row \in dbRows' \/ row.key \notin Keys(dbRows')
            \/ /\ DbFindings[g].scan = dbRun.scan /\ g \in DOMAIN dbRun.held
               /\ FindingRow(g, IF g \in confirmed THEN "confirmed" ELSE dbRun.held[g]) \in dbRows'
    BY <2>1, <2>6, <2>13 DEF kept, StatusOf
  <2>15. RowsInv'
    BY <2>1, <2>2, <2>3, <2>4, <2>9, <2>10 DEF RowsInv
  <2> QED
    BY <1>0, <2>1, <2>12, <2>14, <2>15 DEF DbInv, RunInv
<1> QED
  BY <1>1, <1>2

\* The next statement of a delete.
LEMMA Statements ==
    /\ Len(DeleteStatements) = 5 /\ DeleteStatements[1] = "scan_scanner_checkpoints" /\ DeleteStatements[2] = "agent_actions"
    /\ DeleteStatements[3] = "artifacts" /\ DeleteStatements[4] = "findings" /\ DeleteStatements[5] = "scans"
BY DEF DeleteStatements

\* Only the last statement can be refused, and only for what was written meanwhile.
LEMMA RefusedIsRaced ==
    ASSUME DbInv, dbDelete.next \in 1..5, ~Allowed(dbRows \ Doomed(DeleteStatements[dbDelete.next], dbDelete.scan))
    PROVE  dbDelete.raced /\ InStore(RowKey("scans", dbDelete.scan))
<1> DEFINE table == DeleteStatements[dbDelete.next]
           scan == RowKey("scans", dbDelete.scan)
           rows == dbRows \ Doomed(table, dbDelete.scan)
<1>a. PICK row \in rows : ~(row.refs \subseteq Keys(rows))
  BY DEF Allowed
<1>1. PICK key \in row.refs : key \notin Keys(rows)
  BY <1>a
<1>2. row \in dbRows /\ IsRow(row) /\ key.table \in {"scans", "targets"}
  BY <1>1, WhoRefers DEF DbInv, RowsInv
<1>3. PICK r \in dbRows : r.key = key /\ IsRow(r)
  BY <1>1, <1>2 DEF DbInv, RowsInv, Allowed, Keys
<1>4. r \in Doomed(table, dbDelete.scan)
  BY <1>1, <1>3 DEF Keys
<1>5. key.table = table /\ (key = scan \/ scan \in r.refs)
  BY <1>3, <1>4 DEF Doomed
<1>6. table = "scans" /\ dbDelete.next = 5
  BY <1>2, <1>5, Statements
<1>7. scan \notin r.refs
  <2>1. ASSUME scan \in r.refs PROVE r.key.table \in {"findings", "scan_scanner_checkpoints"}
    BY <1>3, <2>1, WhoRefers, WrittenRows, KeysDiffer DEF IsFindingOf
  <2> QED
    BY <1>3, <1>5, <1>6, <2>1
<1>8. key = scan /\ InStore(scan)
  BY <1>3, <1>5, <1>7 DEF InStore, Keys
<1>9. \/ \E f \in DOMAIN DbFindings : DbFindings[f].scan = dbDelete.scan /\ RowKey("findings", f) \in Keys(dbRows)
      \/ RowKey("scan_scanner_checkpoints", dbDelete.scan) \in Keys(dbRows)
  <2>1. \/ \E f \in DOMAIN DbFindings : IsFindingOf(row, f) /\ DbFindings[f].scan = dbDelete.scan
        \/ row = CheckpointRow(dbDelete.scan)
    BY <1>1, <1>2, <1>8, WhoRefers
  <2> QED
    BY <1>2, <2>1, WrittenRows DEF IsFindingOf, Keys
<1>10. dbDelete.next = 5 /\ dbDelete.next \in 2..5
  BY <1>6
<1> QED
  BY <1>8, <1>9, <1>10 DEF DbInv, DeleteInv

LEMMA DeleteStepKeeps ==
    ASSUME DbInv, DeleteStep
    PROVE  DbInv' /\ DeletedIsGone /\ dbRows' \subseteq dbRows
<1> DEFINE table == DeleteStatements[dbDelete.next]
           scan == RowKey("scans", dbDelete.scan)
           rows == dbRows \ Doomed(table, dbDelete.scan)
<1>0. /\ dbDelete.next \in 1..5 /\ UNCHANGED <<dbRun, dbTriage>>
      /\ dbDelete \in [scan : DbScans, next : 0..6, raced : BOOLEAN]
  <2>1. NoDelete.next = 0
    BY DEF NoDelete
  <2> QED
    <3>1. dbDelete.next \in 1..5 /\ UNCHANGED <<dbRun, dbTriage>>
      BY Statements DEF DeleteStep
    <3>2. dbDelete # NoDelete
      BY <2>1, <3>1
    <3> QED
      BY <3>1, <3>2 DEF DbInv, DeleteInv
<1>1. CASE Allowed(rows) /\ dbRows' = rows /\ dbDelete' = [dbDelete EXCEPT !.next = @ + 1]
  <2>1. dbDelete' \in [scan : DbScans, next : 0..6, raced : BOOLEAN] /\ dbDelete'.next = dbDelete.next + 1
        /\ dbDelete'.scan = dbDelete.scan /\ dbDelete'.raced = dbDelete.raced
    BY <1>0, <1>1
  <2>2. dbRows' \subseteq dbRows /\ RowsInv' /\ Keys(dbRows') \subseteq Keys(dbRows)
    BY <1>1, RemovingKeeps DEF DbInv
  <2>3. RunInv'
    BY <1>0, <2>2 DEF DbInv, RunInv
  <2>4. dbDelete.next = 1 => RowKey("scan_scanner_checkpoints", dbDelete.scan) \notin Keys(dbRows')
    <3> SUFFICES ASSUME dbDelete.next = 1, NEW row \in dbRows', row.key = RowKey("scan_scanner_checkpoints", dbDelete.scan)
                 PROVE  FALSE
      BY DEF Keys
    <3>1. row.refs = {scan}
      <4>1. IsRow(row)
        BY <2>2 DEF RowsInv
      <4>2. row = CheckpointRow(dbDelete.scan)
        BY <4>1, CheckpointsAreOne
      <4> QED
        BY <4>2, WrittenRows
    <3>2. row \in Doomed(table, dbDelete.scan)
      BY <2>2, <3>1, Statements, KeysDiffer DEF Doomed
    <3> QED
      BY <1>1, <3>2
  <2>5. dbDelete.next = 4 =>
           \A f \in DOMAIN DbFindings : DbFindings[f].scan = dbDelete.scan => RowKey("findings", f) \notin Keys(dbRows')
    <3> SUFFICES ASSUME dbDelete.next = 4, NEW f \in DOMAIN DbFindings, DbFindings[f].scan = dbDelete.scan,
                        NEW row \in dbRows', row.key = RowKey("findings", f)
                 PROVE  FALSE
      BY DEF Keys
    <3>1. scan \in row.refs
      <4>1. IsRow(row)
        BY <2>2 DEF DbInv, RowsInv
      <4>2. IsFindingOf(row, f)
        BY <4>1, FindingsAreOne
      <4> QED
        BY <4>2 DEF IsFindingOf
    <3>2. row \in Doomed(table, dbDelete.scan)
      BY <2>2, <3>1, Statements, KeysDiffer DEF Doomed
    <3> QED
      BY <1>1, <3>2
  <2>6. DeleteInv'
    <3>1. dbDelete'.next \in 2..5 => dbDelete.next = 1 \/ dbDelete.next \in 2..5
      BY <1>0, <2>1
    <3>2. dbDelete'.next = 5 => dbDelete.next = 4
      BY <1>0, <2>1
    <3> QED
      BY <2>1, <2>2, <2>4, <2>5, <3>1, <3>2 DEF DbInv, DeleteInv
  <2>7. DeletedIsGone
    <3>1. \A row \in dbRows \ dbRows' : row.key = scan \/ scan \in row.refs
      BY <1>1 DEF Doomed
    <3>2. ASSUME dbDelete'.next > 5
          PROVE  scan \notin Keys(dbRows') /\ Children(dbRows', scan) = {}
      <4>1. table = "scans"
        BY <1>0, <2>1, <3>2, Statements
      <4>2. \A row \in dbRows' : row.key # scan
        BY <1>1, <2>2, <4>1, KeysDiffer DEF Doomed
      <4> QED
        BY <1>1, <4>2 DEF Allowed, Keys, Children
    <3>3. dbDelete'.next # 0 /\ RowKey("scans", dbDelete'.scan) = scan
      BY <1>0, <2>1
    <3>4. /\ dbDelete'.next > Len(DeleteStatements) => ~InStore(scan)' /\ Children(dbRows', scan) = {}
          /\ ~(dbDelete'.next = 0)
      BY <3>2, <3>3, Statements DEF InStore
    <3> QED
      BY <3>1, <3>4 DEF DeletedIsGone
  <2> QED
    BY <1>0, <2>2, <2>3, <2>6, <2>7 DEF DbInv
<1>2. CASE ~Allowed(rows) /\ dbDelete' = [dbDelete EXCEPT !.next = 0] /\ UNCHANGED dbRows
  <2>1. dbDelete' \in [scan : DbScans, next : 0..6, raced : BOOLEAN] /\ dbDelete'.next = 0 /\ dbDelete'.scan = dbDelete.scan
    BY <1>0, <1>2
  <2>2. dbDelete.raced /\ InStore(scan)
    BY <1>0, <1>2, RefusedIsRaced
  <2>3. DbInv'
    <3>1. RowsInv' /\ RunInv'
      BY <1>0, <1>2 DEF DbInv, RowsInv, RunInv
    <3>2. 0 \notin 2..5 /\ 0 # 5
      OBVIOUS
    <3>3. DeleteInv'
      BY <2>1, <3>2 DEF DeleteInv
    <3> QED
      BY <1>0, <3>1, <3>3 DEF DbInv
  <2>4. DeletedIsGone
    <3>1. InStore(scan)' /\ ~(dbDelete'.next > Len(DeleteStatements)) /\ dbRows \ dbRows' = {}
      BY <1>2, <2>1, <2>2, Statements DEF InStore
    <3> QED
      BY <2>2, <3>1 DEF DeletedIsGone
  <2> QED
    BY <1>2, <2>3, <2>4
<1> QED
  BY <1>1, <1>2 DEF DeleteStep

\* The steps that touch neither the run nor the delete.
LEMMA OtherStepsKeep ==
    ASSUME DbInv,
           \/ TriageWrites
           \/ \E f \in DOMAIN DbFindings : TriageReads(f)
           \/ \E s \in DbScans : RemoveTarget(s) \/ AddTarget(s)
           \/ \E f \in DbCorruptible : Spoiled(f)
           \/ \E q \in DbQuestions : Ask(q)
    PROVE  DbInv' /\ UNCHANGED <<dbRun, dbDelete>>
<1>1. UNCHANGED <<dbRun, dbDelete>>
  BY DEF TriageWrites, TriageReads, RemoveTarget, AddTarget, Spoiled, Ask
<1>2. dbTriage' \in DOMAIN DbFindings \cup {""}
  BY DEF TriageWrites, TriageReads, RemoveTarget, AddTarget, Spoiled, Ask, DbInv
<1>3. ASSUME UNCHANGED dbRows PROVE DbInv'
  BY <1>1, <1>2, <1>3 DEF DbInv, RowsInv, RunInv, DeleteInv
<1>4. ASSUME RowsInv', \A key \in Keys(dbRows') : key.table \in {"findings", "scan_scanner_checkpoints"} => key \in Keys(dbRows)
      PROVE  DbInv'
  BY <1>1, <1>2, <1>4, NothingAddedKeeps DEF DbInv
<1>5. ASSUME NEW f, NEW new, InStore(RowKey("findings", f)), NEW value,
             new = [At(RowKey("findings", f)) EXCEPT !.status = value] \/ new = [At(RowKey("findings", f)) EXCEPT !.readable = value],
             dbRows' = (dbRows \ {At(RowKey("findings", f))}) \cup {new}
      PROVE  DbInv'
  <2> DEFINE old == At(RowKey("findings", f))
  <2>1. old \in dbRows /\ IsRow(old) /\ old.key = RowKey("findings", f)
    BY <1>5, StoredFinding DEF DbInv, RowsInv, IsFindingOf
  <2>2. new = [old EXCEPT !.status = value] \/ new = [old EXCEPT !.readable = value]
    BY <1>5
  <2>3. dbRows' = (dbRows \ {old}) \cup {new}
    BY <1>5
  <2> HIDE DEF old
  <2>4. old.key.table # "scan_scanner_checkpoints"
    BY <2>1, KeysDiffer
  <2>5. IsRow(new) /\ new.key = old.key /\ new.refs = old.refs
    <3>1. /\ IsRow([old EXCEPT !.status = value]) /\ IsRow([old EXCEPT !.readable = value])
          /\ [old EXCEPT !.status = value].key = old.key /\ [old EXCEPT !.status = value].refs = old.refs
          /\ [old EXCEPT !.readable = value].key = old.key /\ [old EXCEPT !.readable = value].refs = old.refs
      BY <2>1, <2>4, RewrittenIsRow
    <3> QED
      BY <2>2, <3>1
  <2>6. RowsInv' /\ Keys(dbRows') = Keys(dbRows)
    BY <2>1, <2>3, <2>4, <2>5, RewritingKeeps DEF DbInv
  <2> QED
    BY <1>4, <2>6
<1>6. ASSUME TriageWrites PROVE DbInv'
  <2>1. CASE UNCHANGED dbRows
    BY <1>3, <2>1
  <2>2. CASE InStore(RowKey("findings", dbTriage)) /\ \E status \in TriageVerdict(dbTriage) : dbRows' = WithStatus(RowKey("findings", dbTriage), status)
    BY <1>5, <2>2 DEF WithStatus
  <2> QED
    BY <1>6, <2>1, <2>2 DEF TriageWrites
<1>7. ASSUME NEW t \in DbScans, RemoveTarget(t) PROVE DbInv'
  <2>1. dbRows' \subseteq dbRows /\ Allowed(dbRows')
    BY <1>7 DEF RemoveTarget
  <2> QED
    BY <1>4, <2>1, RemovingKeeps DEF DbInv
<1>8. ASSUME NEW t \in DbScans, AddTarget(t) PROVE DbInv'
  <2> DEFINE target == Row(RowKey("targets", t), {}, "")
  <2>1. dbRows' = dbRows \cup {target} /\ RowKey("targets", t) \notin Keys(dbRows)
    BY <1>8 DEF AddTarget, InStore
  <2>2. IsRow(target) /\ target.key = RowKey("targets", t) /\ target.refs = {}
    <3>1. IsRow(target)
      BY AddedAreRows
    <3> QED
      BY <3>1 DEF Row
  <2> HIDE DEF target
  <2>3. Keys(dbRows') = Keys(dbRows) \cup {RowKey("targets", t)}
    BY <2>1, <2>2 DEF Keys
  <2>4. \A r \in dbRows : r.key # target.key
    BY <2>1, <2>2 DEF Keys
  <2>5. RowsInv'
    <3>1. Unique(dbRows) /\ Allowed(dbRows) /\ \A row \in dbRows : IsRow(row)
      BY DEF DbInv, RowsInv
    <3>2. Unique(dbRows')
      BY <2>1, <2>4, <3>1 DEF Unique
    <3>3. Allowed(dbRows')
      BY <2>1, <2>2, <2>3, <3>1 DEF Allowed
    <3> QED
      BY <2>1, <2>2, <3>1, <3>2, <3>3 DEF RowsInv
  <2> QED
    BY <1>4, <2>3, <2>5, KeysDiffer
<1>9. ASSUME NEW f \in DbCorruptible, Spoiled(f) PROVE DbInv'
  BY <1>5, <1>9 DEF Spoiled
<1>10. CASE (\E f \in DOMAIN DbFindings : TriageReads(f)) \/ \E q \in DbQuestions : Ask(q)
  BY <1>3, <1>10 DEF TriageReads, Ask
<1> QED
  BY <1>1, <1>6, <1>7, <1>8, <1>9, <1>10

\* The run dies, or a delete begins or ends.
LEMMA EndsKeep ==
    ASSUME DbInv, RunDies \/ DeleteEnds \/ \E s \in DbScans : DeleteBegins(s)
    PROVE  DbInv' /\ DeletedIsGone /\ UNCHANGED dbRows
<1>0. /\ NoDelete.next = 0 /\ NoDelete.scan = "" /\ "" \notin DbScans
      /\ 0 \notin 1..5 /\ 0 \notin 2..5 /\ 0 # 5 /\ 1 \notin 2..5 /\ 1 # 5 /\ ~(0 > 5) /\ 1 \in 0..6
  <2>1. NoDelete.next = 0 /\ NoDelete.scan = ""
    BY DEF NoDelete
  <2>2. "" \notin DbScans
    BY DatabaseAssumption
  <2>3. 0 \notin 1..5 /\ 0 \notin 2..5 /\ 0 # 5 /\ 1 \notin 2..5 /\ 1 # 5 /\ ~(0 > 5) /\ 1 \in 0..6
    OBVIOUS
  <2> QED
    BY <2>1, <2>2, <2>3
<1>1. UNCHANGED <<dbRows, dbTriage>>
  BY DEF RunDies, RunFails, DeleteEnds, DeleteBegins
<1>2. RowsInv' /\ dbTriage' \in DOMAIN DbFindings \cup {""}
  BY <1>1 DEF DbInv, RowsInv
<1>3. CASE RunDies
  BY <1>1, <1>2, <1>3 DEF RunDies, RunFails, DbInv, RunInv, DeleteInv, DeletedIsGone
<1>4. CASE DeleteEnds
  <2>1. dbDelete # NoDelete /\ dbDelete' = NoDelete /\ dbRun' = dbRun
    BY <1>4 DEF DeleteEnds
  <2>2. RunInv' /\ DeleteInv'
    BY <1>0, <1>1, <2>1 DEF DbInv, RunInv, DeleteInv
  <2>3. dbDelete.scan \in DbScans /\ dbRows \ dbRows' = {}
    BY <1>1, <2>1 DEF DbInv, DeleteInv
  <2>4. DeletedIsGone
    BY <1>0, <2>1, <2>3, Statements DEF DeletedIsGone
  <2> QED
    BY <1>1, <1>2, <2>2, <2>4 DEF DbInv
<1>5. ASSUME NEW s \in DbScans, DeleteBegins(s) PROVE DbInv' /\ DeletedIsGone
  <2>1. dbDelete = NoDelete /\ dbDelete' = [scan |-> s, next |-> 1, raced |-> FALSE] /\ dbRun' = dbRun
    BY <1>5 DEF DeleteBegins
  <2>2. RunInv'
    BY <1>1, <2>1 DEF DbInv, RunInv
  <2>3. DeleteInv'
    BY <1>0, <2>1 DEF DeleteInv
  <2>4. DeletedIsGone
    BY <1>0, <2>1, Statements DEF DeletedIsGone
  <2> QED
    BY <1>2, <2>2, <2>3, <2>4 DEF DbInv
<1> QED
  BY <1>1, <1>3, <1>4, <1>5

\* Where the delete is as it was, or the run is not, a delete did no step.
LEMMA NoDeleteStep ==
    ASSUME dbDelete' = dbDelete \/ dbRun' # dbRun
    PROVE  DeletedIsGone
BY DEF DeletedIsGone

\* Every step keeps the invariant, and a delete that does one does what it should.
LEMMA DbMoves ==
    ASSUME DbInv, [DbStep]_dbVars
    PROVE  DbInv' /\ DeletedIsGone
<1>1. ASSUME NEW s \in DbScans, ScanStarts(s) \/ ScanResumes(s) PROVE DbInv' /\ DeletedIsGone
  BY <1>1, ScanStartsKeeps, ScanResumesKeeps, NoDeleteStep DEF ScanStarts, ScanResumes
<1>2. ASSUME NEW f \in DOMAIN DbFindings, RunCheckpoints(f) PROVE DbInv' /\ DeletedIsGone
  <2>1. dbDelete' = dbDelete \/ dbRun' # dbRun
    <3>1. CASE RunFails
      BY <3>1 DEF RunFails
    <3>2. CASE ~RunFails
      <4>1. f \notin DOMAIN dbRun.held /\ dbRun' = [dbRun EXCEPT !.held = Holding(dbRun.held, f)] /\ dbRun.scan = DbFindings[f].scan
        BY <1>2, <3>2 DEF RunCheckpoints
      <4>2. dbRun # NoScanRun
        <5>1. NoScanRun.scan = "" /\ "" \notin DbScans /\ DbFindings[f].scan \in DbScans
          BY DatabaseAssumption DEF NoScanRun
        <5> QED
          BY <4>1, <5>1
      <4>3. dbRun = [scan |-> dbRun.scan, held |-> dbRun.held]
        BY <4>2 DEF DbInv, RunInv
      <4>4. dbRun'.held = Holding(dbRun.held, f)
        BY <4>1, <4>3
      <4>5. f \in DOMAIN dbRun'.held
        BY <4>4 DEF Holding
      <4> QED
        BY <4>1, <4>5
    <3> QED
      BY <3>1, <3>2
  <2> QED
    BY <1>2, <2>1, RunCheckpointsKeeps, NoDeleteStep
<1>3. ASSUME NEW dropped \in SUBSET DOMAIN dbRun.held, NEW confirmed \in SUBSET DOMAIN dbRun.held, NEW degraded \in BOOLEAN,
             RunFinalizes(dropped, confirmed, degraded)
      PROVE  DbInv' /\ DeletedIsGone
  <2>1. dbRun' # dbRun
    BY <1>3 DEF RunFinalizes, RunFails
  <2> QED
    BY <1>3, <2>1, RunFinalizesKeeps, NoDeleteStep
<1>4. CASE DeleteStep
  BY <1>4, DeleteStepKeeps
<1>5. CASE RunDies \/ DeleteEnds \/ \E s \in DbScans : DeleteBegins(s)
  BY <1>5, EndsKeep
<1>6. CASE \/ TriageWrites
           \/ \E f \in DOMAIN DbFindings : TriageReads(f)
           \/ \E s \in DbScans : RemoveTarget(s) \/ AddTarget(s)
           \/ \E f \in DbCorruptible : Spoiled(f)
           \/ \E q \in DbQuestions : Ask(q)
  BY <1>6, OtherStepsKeep, NoDeleteStep
<1>7. CASE UNCHANGED dbVars
  BY <1>7 DEF dbVars, DbInv, RowsInv, RunInv, DeleteInv, DeletedIsGone
<1> QED
  BY <1>1, <1>2, <1>3, <1>4, <1>5, <1>6, <1>7 DEF DbStep

LEMMA DbStarts ==
    ASSUME DbInit
    PROVE  DbInv
<1>1. NoDelete.next = 0 /\ 0 \notin 2..5 /\ 0 # 5
  BY DEF NoDelete
<1> QED
  BY <1>1 DEF DbInit, DbInv, RowsInv, RunInv, DeleteInv, Unique, Allowed

-----------------------------------------------------------------------------
\* The verdict on a finding stays, or is lost as it may be lost.
VerdictKept(row) ==
    LET f == row.key.id  after == CHOOSE r \in dbRows' : r.key = row.key IN
    \/ after.status = row.status
    \/ dbTriage = f /\ dbTriage' = ""
    \/ dbRun # NoScanRun /\ dbRun' = NoScanRun /\ f \in DOMAIN dbRun.held
       /\ (dbRun.scan \in DbAgents \/ dbRun.held[f] # row.status)

\* It stays where the row is still there.
LEMMA RowStays ==
    ASSUME Unique(dbRows'), NEW row, NEW after \in dbRows', after.key = row.key, after.status = row.status
    PROVE  VerdictKept(row)
<1>1. (CHOOSE r \in dbRows' : r.key = row.key) = after
  BY DEF Unique
<1> QED
  BY <1>1 DEF VerdictKept

LEMMA VerdictsAreKept ==
    ASSUME DbInv, [DbStep]_dbVars
    PROVE  TriageKept
<1> SUFFICES ASSUME NEW row \in dbRows, row.key.table = "findings", row.status # "open", row.key \in Keys(dbRows')
             PROVE  VerdictKept(row)
  BY DEF TriageKept, VerdictKept
<1>0. DbInv' /\ Unique(dbRows) /\ Unique(dbRows') /\ IsRow(row)
  <2>1. DbInv'
    BY DbMoves
  <2> QED
    BY <2>1 DEF DbInv, RowsInv
<1>1. PICK f \in DOMAIN DbFindings : IsFindingOf(row, f)
  BY <1>0, KeysDiffer, WrittenRows DEF IsRow, IsTarget, IsScan, IsStoredFinding, IsCheckpoint
<1>2. row.key = RowKey("findings", f) /\ row.key.id = f
  BY <1>1, KeysDiffer DEF IsFindingOf
<1>3. ASSUME row \in dbRows' PROVE VerdictKept(row)
  BY <1>0, <1>3, RowStays
<1>4. ASSUME dbRows' \subseteq dbRows PROVE VerdictKept(row)
  <2>1. PICK r \in dbRows' : r.key = row.key
    BY DEF Keys
  <2>2. r = row
    BY <1>0, <1>4, <2>1 DEF Unique
  <2> QED
    BY <1>3, <2>1, <2>2
<1>5. ASSUME dbRows \subseteq dbRows' PROVE VerdictKept(row)
  BY <1>3, <1>5
<1>6. ASSUME NEW s \in DbScans, ScanResumes(s) PROVE VerdictKept(row)
  <2>1. InStore(RowKey("scans", s)) /\ dbRows \ {At(RowKey("scans", s))} \subseteq dbRows'
    BY <1>6 DEF ScanResumes, WithStatus
  <2>2. row # At(RowKey("scans", s))
    <3>1. At(RowKey("scans", s)).key = RowKey("scans", s)
      BY <2>1, StoredScan DEF DbInv
    <3>2. RowKey("scans", s) # RowKey("findings", f)
      BY KeysDiffer
    <3> QED
      BY <1>2, <3>1, <3>2
  <2> QED
    BY <1>3, <2>1, <2>2
<1>7. ASSUME NEW dropped, NEW confirmed, NEW degraded \in BOOLEAN, RunFinalizes(dropped, confirmed, degraded)
      PROVE  VerdictKept(row)
  <2>1. dbRun # NoScanRun /\ dbRun' = NoScanRun /\ (dbRun.scan \notin DbAgents => confirmed = {})
    BY <1>7 DEF RunFinalizes, RunFails
  <2>2. CASE RunFails
    BY <1>3, <2>2 DEF RunFails
  <2>3. CASE ~RunFails
    <3>1. CASE row \in dbRows'
      BY <1>3, <3>1
    <3>2. CASE row \notin dbRows'
      <4> DEFINE status == IF f \in confirmed THEN "confirmed" ELSE dbRun.held[f]
      <4>1. f \in DOMAIN dbRun.held /\ FindingRow(f, status) \in dbRows'
        BY <1>1, <1>7, <2>3, <3>2, RunFinalizesKeeps
      <4>2. FindingRow(f, status).key = row.key /\ FindingRow(f, status).status = status
        BY <1>2, WrittenRows DEF IsFindingOf
      <4>3. CASE dbRun.scan \in DbAgents \/ dbRun.held[f] # row.status
        BY <1>2, <2>1, <4>1, <4>3 DEF VerdictKept
      <4>4. CASE dbRun.scan \notin DbAgents /\ dbRun.held[f] = row.status
        <5>1. status = row.status
          BY <2>1, <4>4
        <5> HIDE DEF status
        <5> QED
          BY <1>0, <4>1, <4>2, <5>1, RowStays
      <4> QED
        BY <4>3, <4>4
    <3> QED
      BY <3>1, <3>2
  <2> QED
    BY <2>2, <2>3
<1>8. CASE TriageWrites
  <2>1. CASE dbTriage = f
    BY <1>2, <1>8, <2>1 DEF TriageWrites, VerdictKept
  <2>2. CASE dbTriage # f
    <3>1. CASE UNCHANGED dbRows
      BY <1>5, <3>1
    <3>2. CASE InStore(RowKey("findings", dbTriage)) /\ \E status \in TriageVerdict(dbTriage) : dbRows' = WithStatus(RowKey("findings", dbTriage), status)
      <4>1. dbRows \ {At(RowKey("findings", dbTriage))} \subseteq dbRows'
        BY <3>2 DEF WithStatus
      <4>2. row # At(RowKey("findings", dbTriage))
        <5>1. IsFindingOf(At(RowKey("findings", dbTriage)), dbTriage)
          BY <3>2, StoredFinding DEF DbInv
        <5>2. At(RowKey("findings", dbTriage)).key = RowKey("findings", dbTriage)
          BY <5>1 DEF IsFindingOf
        <5>3. RowKey("findings", dbTriage) # RowKey("findings", f)
          BY <2>2, KeysDiffer
        <5> QED
          BY <1>2, <5>2, <5>3
      <4> QED
        BY <1>3, <4>1, <4>2
    <3> QED
      BY <1>8, <3>1, <3>2 DEF TriageWrites
  <2> QED
    BY <2>1, <2>2
<1>9. ASSUME NEW g \in DbCorruptible, Spoiled(g) PROVE VerdictKept(row)
  <2> DEFINE old == At(RowKey("findings", g))
             new == [old EXCEPT !.readable = FALSE]
  <2>1. InStore(RowKey("findings", g)) /\ dbRows' = (dbRows \ {old}) \cup {new}
    BY <1>9 DEF Spoiled
  <2>2. CASE row # old
    BY <1>3, <2>1, <2>2
  <2>3. CASE row = old
    <3>1. row.key.table # "scan_scanner_checkpoints"
      OBVIOUS
    <3>2. new.key = row.key /\ new.status = row.status /\ new \in dbRows'
      BY <1>0, <2>1, <2>3, <3>1, RewrittenIsRow
    <3> HIDE DEF new
    <3> QED
      BY <1>0, <3>2, RowStays
  <2> QED
    BY <2>2, <2>3
<1>10. CASE RunDies \/ DeleteEnds \/ \E s \in DbScans : DeleteBegins(s)
  BY <1>5, <1>10, EndsKeep
<1>11. CASE DeleteStep
  BY <1>4, <1>11, DeleteStepKeeps
<1>12. CASE \/ \E s \in DbScans : ScanStarts(s) \/ AddTarget(s) \/ RemoveTarget(s)
            \/ \E g \in DOMAIN DbFindings : RunCheckpoints(g) \/ TriageReads(g)
            \/ \E q \in DbQuestions : Ask(q)
  <2>1. dbRows \subseteq dbRows' \/ dbRows' \subseteq dbRows
    BY <1>12 DEF ScanStarts, AddTarget, RemoveTarget, RunCheckpoints, RunFails, TriageReads, Ask
  <2> QED
    BY <1>4, <1>5, <2>1
<1>13. CASE UNCHANGED dbVars
  BY <1>5, <1>13 DEF dbVars
<1> QED
  BY <1>6, <1>7, <1>8, <1>9, <1>10, <1>11, <1>12, <1>13 DEF DbStep

\* However scans, deletes, validations and edits of the targets meet, no verdict is lost
\* unless another one, a deletion or a run that read before it takes it, and a delete
\* takes its scan, all of it, and nothing else (finalize_scan, delete_scan).
THEOREM StoreKeeps == DbSpec => NothingIsLost
<1>1. DbInit => DbInv
  BY DbStarts
<1>2. DbInv /\ [DbStep]_dbVars => DbInv' /\ (TriageKept /\ DeletedIsGone)
  BY DbMoves, VerdictsAreKept
<1> QED
  BY <1>1, <1>2, PTL DEF DbSpec, NothingIsLost

-----------------------------------------------------------------------------
(* What reports tell of what is stored *)

\* What there are finitely many of, there are finitely many values of.
LEMMA FiniteImage ==
    ASSUME NEW S, IsFiniteSet(S), NEW f, NEW T, T = {f[x] : x \in S}
    PROVE  IsFiniteSet(T)
<1> DEFINE g == [x \in S |-> f[x]]
<1>1. g \in Surjection(S, T)
  BY DEF Surjection
<1> QED
  BY <1>1, FS_Surjection

\* A finite set put in some order has each of its members once.
LEMMA SetAsSequence ==
    ASSUME NEW S, IsFiniteSet(S)
    PROVE  /\ SetToSeq(S) \in Seq(S) /\ DOMAIN SetToSeq(S) = 1..Len(SetToSeq(S)) /\ Len(SetToSeq(S)) \in Nat
           /\ \A i, j \in DOMAIN SetToSeq(S) : SetToSeq(S)[i] = SetToSeq(S)[j] => i = j
           /\ \A x \in S : \E i \in DOMAIN SetToSeq(S) : SetToSeq(S)[i] = x
<1> DEFINE n == Cardinality(S)
<1>1. n \in Nat /\ ExistsBijection(1..n, S)
  BY FS_CardinalityType
<1>2. PICK g \in Bijection(1..n, S) : TRUE
  BY <1>1 DEF ExistsBijection
<1>3. g \in [1..n -> S] /\ \A i, j \in 1..n : g[i] = g[j] => i = j
  BY <1>2 DEF Bijection, Injection, IsInjective
<1>4. DOMAIN g = 1..n
  BY <1>3
<1>5. \E f \in [1..n -> S] : IsInjective(f)
  BY <1>3, <1>4 DEF IsInjective
<1> DEFINE s == SetToSeq(S)
<1>6. s \in [1..n -> S] /\ IsInjective(s)
  BY <1>5 DEF SetToSeq
<1> HIDE DEF s
<1>7. s \in Seq(S) /\ DOMAIN s = 1..n
  BY <1>1, <1>6, SeqDef
<1>8. Len(s) \in Nat /\ DOMAIN s = 1..Len(s)
  BY <1>7, LenProperties
<1>9. \A i, j \in DOMAIN s : s[i] = s[j] => i = j
  BY <1>6 DEF IsInjective
<1>10. \A x \in S : \E i \in DOMAIN s : s[i] = x
  <2>1. s \in Injection(1..n, S)
    BY <1>6, <1>7, <1>9 DEF Injection, IsInjective
  <2>2. IsFiniteSet(1..n) /\ Cardinality(1..n) = n
    BY <1>1, FS_Interval
  <2>3. s \in Surjection(1..n, S)
    BY <2>1, <2>2, FS_Injection
  <2> QED
    BY <1>7, <2>3 DEF Surjection
<1> QED
  BY <1>7, <1>8, <1>9, <1>10 DEF s

\* Whoever has the smaller number, or the same and came before, has the earlier place.
LEMMA PlacesDiffer ==
    ASSUME NEW n \in Nat, NEW keys \in [1..n -> Nat]
    PROVE  /\ \A j \in 1..n : Place(keys, j) \in 1..n
           /\ \A j, k \in 1..n : keys[j] < keys[k] \/ (keys[j] = keys[k] /\ j < k) => Place(keys, j) < Place(keys, k)
<1> DEFINE UpTo(j) == {k \in 1..n : keys[k] < keys[j] \/ (keys[k] = keys[j] /\ k <= j)}
<1>1. IsFiniteSet(1..n) /\ Cardinality(1..n) = n
  BY FS_Interval
<1>2. \A j \in 1..n : Place(keys, j) = Cardinality(UpTo(j))
  BY DEF Place
<1>3. ASSUME NEW j \in 1..n
      PROVE  /\ IsFiniteSet(UpTo(j)) /\ Cardinality(UpTo(j)) \in 1..n /\ j \in UpTo(j)
  <2>1. UpTo(j) \in SUBSET (1..n) /\ j \in UpTo(j)
    OBVIOUS
  <2>2. IsFiniteSet(UpTo(j)) /\ Cardinality(UpTo(j)) <= n /\ Cardinality(UpTo(j)) \in Nat
    BY <1>1, <2>1, FS_Subset, FS_CardinalityType
  <2>3. Cardinality(UpTo(j)) # 0
    <3> HIDE DEF UpTo
    <3> QED
      BY <2>1, <2>2, FS_EmptySet
  <2> QED
    BY <2>1, <2>2, <2>3
<1>4. ASSUME NEW j \in 1..n, NEW k \in 1..n, keys[j] < keys[k] \/ (keys[j] = keys[k] /\ j < k)
      PROVE  Cardinality(UpTo(j)) < Cardinality(UpTo(k))
  <2>1. UpTo(j) \subseteq UpTo(k) /\ k \notin UpTo(j)
    BY <1>4
  <2>2. k \in UpTo(k) /\ IsFiniteSet(UpTo(k)) /\ Cardinality(UpTo(k)) \in 1..n /\ Cardinality(UpTo(j)) \in 1..n
    BY <1>3
  <2> HIDE DEF UpTo
  <2>3. Cardinality(UpTo(j)) <= Cardinality(UpTo(k)) /\ Cardinality(UpTo(k)) # Cardinality(UpTo(j))
    BY <2>1, <2>2, FS_Subset
  <2> QED
    BY <2>2, <2>3
<1> HIDE DEF UpTo
<1> QED
  BY <1>2, <1>3, <1>4

\* A list put in order has the same members, each at a place of its own, the smaller first.
LEMMA OrderedIs ==
    ASSUME NEW X, NEW seq \in Seq(X), NEW keys \in [1..Len(seq) -> Nat]
    PROVE  /\ Ordered(seq, keys) \in Seq(X) /\ Len(Ordered(seq, keys)) = Len(seq) /\ Len(seq) \in Nat
           /\ \E at \in [1..Len(seq) -> 1..Len(seq)] :
                 /\ \A i \in 1..Len(seq) : Ordered(seq, keys)[i] = seq[at[i]]
                 /\ \A i, j \in 1..Len(seq) : at[i] = at[j] => i = j
                 /\ \A j \in 1..Len(seq) : \E i \in 1..Len(seq) : at[i] = j
                 /\ \A i, j \in 1..Len(seq) : i < j => keys[at[i]] <= keys[at[j]]
<1> DEFINE n == Len(seq)
           place == [j \in 1..n |-> Place(keys, j)]
           at == [i \in 1..n |-> CHOOSE j \in 1..n : Place(keys, j) = i]
<1>1. n \in Nat /\ DOMAIN seq = 1..n /\ \A i \in 1..n : seq[i] \in X
  BY LenProperties
<1>2. /\ \A j \in 1..n : Place(keys, j) \in 1..n
      /\ \A j, k \in 1..n : keys[j] < keys[k] \/ (keys[j] = keys[k] /\ j < k) => Place(keys, j) < Place(keys, k)
  BY <1>1, PlacesDiffer
<1>3. \A j \in 1..n : keys[j] \in Nat
  OBVIOUS
<1> HIDE DEF n
<1>4. \A j, k \in 1..n : Place(keys, j) = Place(keys, k) => j = k
  <2> SUFFICES ASSUME NEW j \in 1..n, NEW k \in 1..n, j # k PROVE Place(keys, j) # Place(keys, k)
    OBVIOUS
  <2>1. \/ keys[j] < keys[k] \/ (keys[j] = keys[k] /\ j < k)
        \/ keys[k] < keys[j] \/ (keys[k] = keys[j] /\ k < j)
    BY <1>3
  <2>2. Place(keys, j) \in Int /\ Place(keys, k) \in Int
    BY <1>2
  <2>3. Place(keys, j) < Place(keys, k) \/ Place(keys, k) < Place(keys, j)
    BY <1>2, <2>1
  <2> QED
    BY <2>2, <2>3
<1>5. \A i \in 1..n : \E j \in 1..n : Place(keys, j) = i
  <2>1. place \in Injection(1..n, 1..n)
    BY <1>2, <1>4 DEF Injection, IsInjective
  <2>2. IsFiniteSet(1..n)
    BY <1>1, FS_Interval
  <2>3. place \in Surjection(1..n, 1..n)
    <3> HIDE DEF place
    <3> QED
      BY <2>1, <2>2, FS_Injection
  <2> QED
    BY <2>3 DEF Surjection
<1>6. \A i \in 1..n : at[i] \in 1..n /\ Place(keys, at[i]) = i
  BY <1>5
<1>7. at \in [1..n -> 1..n]
  BY <1>6
<1>8. Ordered(seq, keys) = [i \in 1..n |-> seq[at[i]]]
  BY <1>1 DEF Ordered
<1> HIDE DEF at
<1>9. \A i \in 1..n : Ordered(seq, keys)[i] = seq[at[i]]
  BY <1>8
<1>10. Ordered(seq, keys) \in Seq(X) /\ Len(Ordered(seq, keys)) = n
  <2>1. Ordered(seq, keys) \in [1..n -> X]
    BY <1>1, <1>6, <1>8
  <2>2. Ordered(seq, keys) \in Seq(X) /\ DOMAIN Ordered(seq, keys) = 1..n
    BY <1>1, <2>1, SeqDef
  <2>3. Len(Ordered(seq, keys)) \in Nat /\ 1..Len(Ordered(seq, keys)) = 1..n
    BY <2>2, LenProperties
  <2> QED
    BY <1>1, <2>2, <2>3
<1>11. \A i, j \in 1..n : at[i] = at[j] => i = j
  BY <1>6
<1>12. \A j \in 1..n : \E i \in 1..n : at[i] = j
  <2> SUFFICES ASSUME NEW j \in 1..n PROVE \E i \in 1..n : at[i] = j
    OBVIOUS
  <2>1. Place(keys, j) \in 1..n
    BY <1>2
  <2>2. Place(keys, at[Place(keys, j)]) = Place(keys, j) /\ at[Place(keys, j)] \in 1..n
    BY <1>6, <2>1
  <2> QED
    BY <1>4, <2>1, <2>2
<1>13. \A i, j \in 1..n : i < j => keys[at[i]] <= keys[at[j]]
  <2> SUFFICES ASSUME NEW i \in 1..n, NEW j \in 1..n, i < j, ~(keys[at[i]] <= keys[at[j]]) PROVE FALSE
    OBVIOUS
  <2>1. at[i] \in 1..n /\ at[j] \in 1..n /\ Place(keys, at[i]) = i /\ Place(keys, at[j]) = j
    BY <1>6
  <2>2. keys[at[j]] < keys[at[i]]
    BY <1>3, <2>1
  <2>3. Place(keys, at[j]) < Place(keys, at[i])
    BY <1>2, <2>1, <2>2
  <2> QED
    BY <2>1, <2>3
<1> QED
  BY <1>1, <1>7, <1>9, <1>10, <1>11, <1>12, <1>13 DEF n

\* The numbers that findings are ordered by: critical and high ones come first.
LEMMA KeysOfFindings ==
    ASSUME NEW f, IsReported(f)
    PROVE  /\ NameKey(f) \in Nat /\ RankKey(f) \in Nat
           /\ f.severity \in {"critical", "high"} <=> NameKey(f) <= 32
<1>1. f.confidence \in 0..10 /\ f.severity \in {"info", "low", "medium", "high", "critical"}
  <2>1. DOMAIN RankOrder = 1..5
    BY DEF RankOrder
  <2>2. \A i \in 1..5 : RankOrder[i] \in {"info", "low", "medium", "high", "critical"}
    BY DEF RankOrder
  <2> QED
    BY <2>1, <2>2 DEF IsReported, Range
<1>2. /\ PlaceIn(NameOrder, "critical") = 1 /\ PlaceIn(NameOrder, "high") = 2 /\ PlaceIn(NameOrder, "info") = 3
      /\ PlaceIn(NameOrder, "low") = 4 /\ PlaceIn(NameOrder, "medium") = 5
  <2>1. DOMAIN NameOrder = 1..5
    BY DEF NameOrder
  <2>2. /\ NameOrder[1] = "critical" /\ NameOrder[2] = "high" /\ NameOrder[3] = "info" /\ NameOrder[4] = "low"
        /\ NameOrder[5] = "medium"
    BY DEF NameOrder
  <2>3. \A i \in 1..5 : i = 1 \/ i = 2 \/ i = 3 \/ i = 4 \/ i = 5
    OBVIOUS
  <2>4. 1 \in 1..5 /\ 2 \in 1..5 /\ 3 \in 1..5 /\ 4 \in 1..5 /\ 5 \in 1..5
    OBVIOUS
  <2> HIDE DEF NameOrder
  <2>5. PlaceIn(NameOrder, "critical") = 1 /\ PlaceIn(NameOrder, "high") = 2
    BY <2>1, <2>2, <2>3, <2>4 DEF PlaceIn
  <2>6. PlaceIn(NameOrder, "info") = 3 /\ PlaceIn(NameOrder, "low") = 4
    BY <2>1, <2>2, <2>3, <2>4 DEF PlaceIn
  <2>7. PlaceIn(NameOrder, "medium") = 5
    BY <2>1, <2>2, <2>3, <2>4 DEF PlaceIn
  <2> QED
    BY <2>5, <2>6, <2>7
<1>3. PlaceIn(RankOrder, f.severity) \in 1..5
  <2>1. \E i \in DOMAIN RankOrder : RankOrder[i] = f.severity
    BY DEF IsReported, Range
  <2>2. PlaceIn(RankOrder, f.severity) \in DOMAIN RankOrder
    BY <2>1 DEF PlaceIn
  <2> QED
    BY <2>2 DEF RankOrder
<1>4. RankKey(f) \in Nat
  <2> DEFINE i == PlaceIn(RankOrder, f.severity)
  <2>1. RankKey(f) = 11 * (6 - i) + (10 - f.confidence) /\ i \in 1..5
    BY <1>3 DEF RankKey
  <2> HIDE DEF i
  <2> QED
    BY <1>1, <2>1
<1>5. NameKey(f) = 11 * PlaceIn(NameOrder, f.severity) + (10 - f.confidence)
  BY DEF NameKey
<1>6. CASE f.severity \in {"critical", "high"}
  <2>1. NameKey(f) = 11 + (10 - f.confidence) \/ NameKey(f) = 22 + (10 - f.confidence)
    BY <1>2, <1>5, <1>6
  <2> QED
    BY <1>1, <1>4, <1>6, <2>1
<1>7. CASE f.severity \notin {"critical", "high"}
  <2>1. \/ NameKey(f) = 33 + (10 - f.confidence) \/ NameKey(f) = 44 + (10 - f.confidence)
        \/ NameKey(f) = 55 + (10 - f.confidence)
    BY <1>1, <1>2, <1>5, <1>7
  <2> QED
    BY <1>1, <1>4, <1>7, <2>1
<1> QED
  BY <1>6, <1>7

\* A list of a set has each of its members once.
IsListOf(seq, X) ==
    /\ seq \in Seq(X) /\ Len(seq) \in Nat
    /\ \A x \in X : \E i \in 1..Len(seq) : seq[i] = x
    /\ \A i, j \in 1..Len(seq) : seq[i] = seq[j] => i = j

\* Putting it in order leaves it one.
LEMMA OrderedLists ==
    ASSUME NEW X, NEW seq, IsListOf(seq, X), NEW keys \in [1..Len(seq) -> Nat]
    PROVE  IsListOf(Ordered(seq, keys), X) /\ Len(Ordered(seq, keys)) = Len(seq)
<1>0. seq \in Seq(X) /\ Len(seq) \in Nat
  BY DEF IsListOf
<1>1. /\ Ordered(seq, keys) \in Seq(X) /\ Len(Ordered(seq, keys)) = Len(seq) /\ Len(seq) \in Nat
      /\ \E at \in [1..Len(seq) -> 1..Len(seq)] :
            /\ \A i \in 1..Len(seq) : Ordered(seq, keys)[i] = seq[at[i]]
            /\ \A i, j \in 1..Len(seq) : at[i] = at[j] => i = j
            /\ \A j \in 1..Len(seq) : \E i \in 1..Len(seq) : at[i] = j
            /\ \A i, j \in 1..Len(seq) : i < j => keys[at[i]] <= keys[at[j]]
  BY <1>0, OrderedIs
<1> DEFINE s == Ordered(seq, keys)
<1> HIDE DEF s
<1>2. PICK at \in [1..Len(seq) -> 1..Len(seq)] :
         /\ \A i \in 1..Len(seq) : s[i] = seq[at[i]]
         /\ \A i, j \in 1..Len(seq) : at[i] = at[j] => i = j
         /\ \A j \in 1..Len(seq) : \E i \in 1..Len(seq) : at[i] = j
  BY <1>1, Zenon DEF s
<1>3. \A x \in X : \E i \in 1..Len(seq) : s[i] = x
  <2> SUFFICES ASSUME NEW x \in X PROVE \E i \in 1..Len(seq) : s[i] = x
    OBVIOUS
  <2>1. PICK j \in 1..Len(seq) : seq[j] = x
    BY DEF IsListOf
  <2>2. PICK i \in 1..Len(seq) : at[i] = j
    BY <1>2
  <2>3. s[i] = seq[at[i]]
    BY <1>2
  <2> QED
    BY <2>1, <2>2, <2>3
<1>4. ASSUME NEW i \in 1..Len(seq), NEW j \in 1..Len(seq), s[i] = s[j] PROVE i = j
  <2>1. at[i] \in 1..Len(seq) /\ at[j] \in 1..Len(seq) /\ seq[at[i]] = seq[at[j]]
    BY <1>2, <1>4
  <2>2. at[i] = at[j]
    BY <2>1 DEF IsListOf
  <2> QED
    BY <1>2, <2>2
<1> QED
  BY <1>1, <1>3, <1>4 DEF IsListOf, s

\* The first of a list.
LEMMA LeadingIs ==
    ASSUME NEW X, NEW seq \in Seq(X), NEW n \in Nat
    PROVE  /\ Leading(seq, n) \in Seq(X)
           /\ Len(Leading(seq, n)) = IF n < Len(seq) THEN n ELSE Len(seq)
           /\ \A i \in 1..Len(Leading(seq, n)) : Leading(seq, n)[i] = seq[i] /\ i <= Len(seq)
<1> DEFINE m == IF n < Len(seq) THEN n ELSE Len(seq)
<1>1. Len(seq) \in Nat /\ m \in 0..Len(seq)
  BY LenProperties
<1>2. Leading(seq, n) = SubSeq(seq, 1, m)
  BY DEF Leading
<1> HIDE DEF m
<1>3. \A i \in 1..m : i \in 1..Len(seq)
  BY <1>1
<1>4. /\ SubSeq(seq, 1, m) \in Seq(X) /\ Len(SubSeq(seq, 1, m)) = m
      /\ \A i \in 1..m : SubSeq(seq, 1, m)[i] = seq[i]
  BY <1>1, <1>3, SubSeqProperties
<1> QED
  BY <1>1, <1>2, <1>3, <1>4 DEF m

\* What the ids of a report are: those of the findings that it lists.
LEMMA IdsOfList ==
    ASSUME NEW X, NEW seq, IsListOf(seq, X)
    PROVE  {seq[i].id : i \in 1..Len(seq)} = {x.id : x \in X}
<1>1. \A i \in 1..Len(seq) : seq[i] \in X
  BY ElementOfSeq DEF IsListOf
<1> QED
  BY <1>1 DEF IsListOf

\* Where ids differ, the first ten have ten of them.
LEMMA TenIds ==
    ASSUME NEW X, NEW seq, IsListOf(seq, X), \A x, y \in X : x.id = y.id => x = y, NEW n \in Nat, n <= Len(seq)
    PROVE  Cardinality({seq[i].id : i \in 1..n}) = n
<1> DEFINE ids == {seq[i].id : i \in 1..n}
           f == [i \in 1..n |-> seq[i].id]
<1>1. \A i \in 1..n : i \in 1..Len(seq)
  BY DEF IsListOf
<1>2. \A i \in 1..n : seq[i] \in X
  BY <1>1, ElementOfSeq DEF IsListOf
<1>3. \A i, j \in 1..n : seq[i].id = seq[j].id => i = j
  BY <1>1, <1>2 DEF IsListOf
<1>4. f \in Bijection(1..n, ids)
  BY <1>3 DEF Bijection, Injection, Surjection, IsInjective
<1>5. IsFiniteSet(1..n) /\ Cardinality(1..n) = n
  BY FS_Interval
<1> HIDE DEF f, ids
<1>6. Cardinality(1..n) = Cardinality(ids)
  BY <1>4, <1>5, FS_Bijection DEF ExistsBijection
<1> QED
  BY <1>5, <1>6 DEF ids

-----------------------------------------------------------------------------
\* What is told of a stored finding is what was found.
LEMMA ToldOfRow ==
    ASSUME RowsInv, NEW row \in dbRows, row.key.table = "findings"
    PROVE  /\ IsReported(ToReport(row)) /\ ToReport(row).id = row.key.id
           /\ ToReport(row).severity = DbFindings[row.key.id].severity
           /\ row.key.id \in DOMAIN DbFindings /\ row.key = RowKey("findings", row.key.id)
<1>1. IsRow(row)
  BY DEF RowsInv
<1>2. PICK f \in DOMAIN DbFindings : IsFindingOf(row, f)
  BY <1>1, KeysDiffer, WrittenRows DEF IsRow, IsTarget, IsScan, IsStoredFinding, IsCheckpoint
<1>3. row.key = RowKey("findings", f) /\ row.key.id = f
  BY <1>2, KeysDiffer DEF IsFindingOf
<1>4. IsReported(DbFindings[f])
  BY DatabaseAssumption
<1>5. /\ ToReport(row).id = f /\ ToReport(row).severity = DbFindings[f].severity
      /\ ToReport(row).confidence = DbFindings[f].confidence /\ ToReport(row).cut = DbFindings[f].cut
      /\ ToReport(row).titled = DbFindings[f].titled /\ ToReport(row).described = DbFindings[f].described
      /\ ToReport(row).evidence = DbFindings[f].evidence
  BY <1>3 DEF ToReport
<1>6. IsReported(ToReport(row))
  BY <1>4, <1>5 DEF IsReported
<1> QED
  BY <1>3, <1>5, <1>6

\* No two rows tell of the same finding.
LEMMA ReportsDiffer ==
    ASSUME RowsInv, NEW rows, rows \subseteq dbRows, \A row \in rows : row.key.table = "findings"
    PROVE  \A x, y \in {ToReport(row) : row \in rows} : x.id = y.id => x = y
<1> SUFFICES ASSUME NEW r1 \in rows, NEW r2 \in rows, ToReport(r1).id = ToReport(r2).id PROVE ToReport(r1) = ToReport(r2)
  OBVIOUS
<1>1. r1.key = r2.key
  BY ToldOfRow
<1> QED
  BY <1>1 DEF RowsInv, Unique

\* A list of findings has each of them, the critical and high ones first.
LEMMA ListedIs ==
    ASSUME NEW rows, IsFiniteSet(rows), \A row \in rows : IsReported(ToReport(row))
    PROVE  /\ IsListOf(Listed(rows), {ToReport(row) : row \in rows})
           /\ \A i, j \in 1..Len(Listed(rows)) : i < j => NameKey(Listed(rows)[i]) <= NameKey(Listed(rows)[j])
<1> DEFINE X == {ToReport(row) : row \in rows}
           f == [row \in rows |-> ToReport(row)]
           seq == SetToSeq(X)
           keys == [i \in DOMAIN seq |-> NameKey(seq[i])]
<1>1. X = {f[row] : row \in rows}
  OBVIOUS
<1>2. IsFiniteSet(X)
  <2> HIDE DEF X, f
  <2> QED
    BY <1>1, FiniteImage
<1>3. \A x \in X : IsReported(x) /\ NameKey(x) \in Nat
  BY KeysOfFindings
<1>4. Listed(rows) = Ordered(seq, keys)
  BY DEF Listed, ByName
<1> HIDE DEF X
<1>5. IsListOf(seq, X) /\ DOMAIN seq = 1..Len(seq) /\ seq \in Seq(X)
  BY <1>2, SetAsSequence DEF IsListOf
<1> HIDE DEF seq
<1>6. \A i \in 1..Len(seq) : seq[i] \in X
  BY <1>5, ElementOfSeq
<1>7. keys \in [1..Len(seq) -> Nat]
  BY <1>3, <1>5, <1>6
<1>8. \A i \in 1..Len(seq) : keys[i] = NameKey(seq[i])
  BY <1>5
<1> HIDE DEF keys
<1>9. IsListOf(Ordered(seq, keys), X) /\ Len(Ordered(seq, keys)) = Len(seq)
  BY <1>5, <1>7, OrderedLists
<1>10. ASSUME NEW i \in 1..Len(seq), NEW j \in 1..Len(seq), i < j
       PROVE  NameKey(Ordered(seq, keys)[i]) <= NameKey(Ordered(seq, keys)[j])
  <2>1. PICK at \in [1..Len(seq) -> 1..Len(seq)] :
           /\ \A k \in 1..Len(seq) : Ordered(seq, keys)[k] = seq[at[k]]
           /\ \A k, l \in 1..Len(seq) : k < l => keys[at[k]] <= keys[at[l]]
    BY <1>5, <1>7, OrderedIs, Zenon
  <2>2. at[i] \in 1..Len(seq) /\ at[j] \in 1..Len(seq) /\ keys[at[i]] <= keys[at[j]]
    BY <1>10, <2>1
  <2> QED
    BY <1>8, <2>1, <2>2
<1> QED
  BY <1>4, <1>9, <1>10 DEF X

\* So has the same list by rank.
LEMMA RankedIs ==
    ASSUME NEW X, \A x \in X : IsReported(x), NEW seq, IsListOf(seq, X)
    PROVE  IsListOf(ByRank(seq), X) /\ Len(ByRank(seq)) = Len(seq)
<1> DEFINE keys == [i \in DOMAIN seq |-> RankKey(seq[i])]
<1>1. seq \in Seq(X) /\ Len(seq) \in Nat /\ DOMAIN seq = 1..Len(seq)
  BY LenProperties DEF IsListOf
<1>2. \A i \in 1..Len(seq) : seq[i] \in X
  BY <1>1, ElementOfSeq
<1>3. keys \in [1..Len(seq) -> Nat]
  BY <1>1, <1>2, KeysOfFindings
<1>4. ByRank(seq) = Ordered(seq, keys)
  BY DEF ByRank
<1> HIDE DEF keys
<1> QED
  BY <1>3, <1>4, OrderedLists

\* The findings that are in a list, and in an answer.
IdsIn(list) == {list[i].id : i \in DOMAIN list}
ShownIds(answer) == IdsIn(answer.shown)

\* The ids of the first ten are all of them, or ten.
LEMMA FirstTen ==
    ASSUME NEW X, NEW seq, IsListOf(seq, X), \A x, y \in X : x.id = y.id => x = y
    PROVE  IdsIn(Leading(seq, 10)) = {x.id : x \in X} \/ Cardinality(IdsIn(Leading(seq, 10))) = 10
<1> DEFINE first == Leading(seq, 10)
           ids == {first[i].id : i \in DOMAIN first}
           n == IF 10 < Len(seq) THEN 10 ELSE Len(seq)
<1>1. seq \in Seq(X) /\ Len(seq) \in Nat
  BY DEF IsListOf
<1>2. first \in Seq(X) /\ Len(first) = n /\ \A i \in 1..Len(first) : first[i] = seq[i]
  <2>1. 10 \in Nat
    OBVIOUS
  <2> QED
    BY <1>1, <2>1, LeadingIs, Zenon
<1>3. DOMAIN first = 1..n
  BY <1>2, LenProperties
<1>4. \A i \in 1..n : first[i] = seq[i]
  BY <1>2
<1>5. ids = {seq[i].id : i \in 1..n}
  <2> HIDE DEF first, n
  <2> QED
    BY <1>3, <1>4
<1>6. IdsIn(first) = ids
  BY DEF IdsIn
<1>7. CASE 10 < Len(seq)
  <2>1. Cardinality({seq[i].id : i \in 1..10}) = 10
    <3>1. 10 <= Len(seq)
      BY <1>1, <1>7
    <3> QED
      BY <3>1, TenIds
  <2> QED
    BY <1>5, <1>7, <1>6, <2>1
<1>8. CASE ~(10 < Len(seq))
  <2>1. {seq[i].id : i \in 1..Len(seq)} = {x.id : x \in X}
    BY IdsOfList
  <2> QED
    BY <1>5, <1>8, <1>6, <2>1
<1> QED
  BY <1>7, <1>8

\* Where the smallest come first, whoever is left out is no smaller than who is not.
LEMMA LesserLeftOut ==
    ASSUME NEW X, \A x \in X : IsReported(x), NEW seq, IsListOf(seq, X), NEW n \in Nat,
           \A i, j \in 1..Len(seq) : i < j => NameKey(seq[i]) <= NameKey(seq[j]),
           NEW x \in X, x.severity \in {"critical", "high"},
           \A i \in 1..Len(Leading(seq, n)) : Leading(seq, n)[i].id # x.id,
           NEW i \in 1..Len(Leading(seq, n))
    PROVE  Leading(seq, n)[i] \in X /\ Leading(seq, n)[i].severity \in {"critical", "high"}
<1> DEFINE m == Len(Leading(seq, n))
<1>1. seq \in Seq(X) /\ Len(seq) \in Nat
  BY DEF IsListOf
<1>2. m \in 0..Len(seq) /\ \A k \in 1..m : Leading(seq, n)[k] = seq[k]
  BY <1>1, LeadingIs
<1>3. i \in 1..m /\ i \in 1..Len(seq)
  BY <1>1, <1>2
<1>4. PICK j \in 1..Len(seq) : seq[j] = x
  BY DEF IsListOf
<1>5. j \notin 1..m
  BY <1>2, <1>4
<1>6. i < j
  BY <1>1, <1>2, <1>3, <1>4, <1>5
<1>7. NameKey(seq[i]) <= NameKey(seq[j])
  BY <1>3, <1>4, <1>6
<1>8. seq[i] \in X
  BY <1>1, <1>3, ElementOfSeq
<1>9. NameKey(seq[i]) \in Nat /\ NameKey(x) \in Nat /\ NameKey(x) <= 32
  BY <1>8, KeysOfFindings
<1>10. NameKey(seq[i]) <= 32
  BY <1>4, <1>7, <1>9
<1> QED
  BY <1>2, <1>3, <1>8, <1>10, KeysOfFindings

\* A report, as it is written, has the findings of its scan, or the first ten.
LEMMA ReportIsWhole ==
    ASSUME RowsInv, IsFiniteSet(dbRows), NEW q, GenerateReport(q).exit = "ok", Readable(ScanFindings(q.id)),
           NEW ids, ids = ShownIds(GenerateReport(q))
    PROVE  ids = {row.key.id : row \in ScanFindings(q.id)} \/ Cardinality(ids) = 10
<1> DEFINE rows == ScanFindings(q.id)
           X == {ToReport(row) : row \in rows}
           l == Listed(rows)
           shown == GenerateReport(q).shown
<1>1. rows \subseteq dbRows /\ \A row \in rows : row.key.table = "findings"
  BY DEF ScanFindings, Children
<1>2. IsFiniteSet(rows) /\ \A row \in rows : IsReported(ToReport(row)) /\ ToReport(row).id = row.key.id
  <2>1. rows \in SUBSET dbRows
    BY <1>1
  <2> QED
    BY <1>1, <2>1, FS_Subset, ToldOfRow
<1>3. IsListOf(l, X)
  <2> HIDE DEF rows
  <2> QED
    BY <1>2, ListedIs
<1>4. \A x \in X : IsReported(x)
  BY <1>2
<1>5. \A x, y \in X : x.id = y.id => x = y
  BY <1>1, ReportsDiffer
<1>6. {x.id : x \in X} = {row.key.id : row \in rows}
  BY <1>2
<1>7. OrNone(rows) = l
  BY DEF OrNone
<1> HIDE DEF X, l
<1>8. q.format \in Formats /\ shown = Rendered(q.format, l, q.evidence)
  <2>1. \A exit, list, totals, file : /\ Told(q, exit, list, totals, file).exit = exit
                                      /\ Told(q, exit, list, totals, file).shown = list
    BY DEF Told
  <2>2. CASE ~InStore(RowKey("scans", q.id))
    <3>1. rows = {}
      BY <2>2 DEF RowsInv, Allowed, InStore, ScanFindings, Children
    <3>2. l = <<>>
      <4>1. X = {}
        BY <3>1 DEF X
      <4>2. l \in Seq({}) /\ Len(l) \in Nat
        BY <1>3, <4>1 DEF IsListOf
      <4>3. Len(l) = 0
        <5> SUFFICES ASSUME Len(l) # 0 PROVE FALSE
          OBVIOUS
        <5>1. 1 \in 1..Len(l)
          BY <4>2
        <5> QED
          BY <4>2, <5>1, ElementOfSeq
      <4> QED
        BY <4>2, <4>3, EmptySeq
    <3>3. ~TerminalFails(l)
      BY <3>2 DEF TerminalFails
    <3>4. GenerateReport(q).exit = "InvalidInput"
      BY <1>7, <2>1, <2>2, <3>3 DEF GenerateReport, rows
    <3> QED
      BY <3>4
  <2>3. CASE InStore(RowKey("scans", q.id)) /\ q.format \notin Formats
    <3>1. q.format # "terminal"
      BY <2>3 DEF Formats
    <3>2. GenerateReport(q).exit = "UnsupportedFormat"
      BY <2>1, <2>3, <3>1 DEF GenerateReport
    <3> QED
      BY <3>2
  <2>4. CASE InStore(RowKey("scans", q.id)) /\ q.format \in Formats /\ q.format = "terminal" /\ TerminalFails(l)
    <3>1. GenerateReport(q).exit = "panic"
      BY <1>7, <2>1, <2>4 DEF GenerateReport, rows
    <3> QED
      BY <3>1
  <2>5. CASE InStore(RowKey("scans", q.id)) /\ q.format \in Formats /\ ~(q.format = "terminal" /\ TerminalFails(l))
    <3>1. GenerateReport(q) = Told(q, "ok", Rendered(q.format, l, q.evidence), SeverityTotals(l), Extension(q.format))
      BY <1>7, <2>5 DEF GenerateReport, rows
    <3> QED
      BY <2>1, <2>5, <3>1
  <2> QED
    BY <2>2, <2>3, <2>4, <2>5
<1> HIDE DEF shown
<1>9. \A x, included : ReportEntry(x, included).id = x.id /\ SarifResult(x).id = x.id
  BY DEF ReportEntry, SarifResult
<1>10. l \in Seq(X) /\ DOMAIN l = 1..Len(l) /\ Len(l) \in Nat
  BY <1>3, LenProperties DEF IsListOf
<1>11. q.format = "json" \/ q.format = "sarif" \/ q.format = "markdown" \/ q.format = "terminal"
  BY <1>8 DEF Formats
<1>12. CASE q.format = "json"
  <2>1. shown = [i \in 1..Len(l) |-> ReportEntry(l[i], q.evidence)]
    BY <1>8, <1>10, <1>12 DEF Rendered
  <2>2. ids = {l[i].id : i \in 1..Len(l)}
    BY <1>9, <2>1 DEF shown, ShownIds, IdsIn
  <2> QED
    BY <1>3, <1>6, <2>2, IdsOfList DEF rows
<1>13. CASE q.format = "sarif"
  <2>1. shown = [i \in 1..Len(l) |-> SarifResult(l[i])]
    BY <1>8, <1>10, <1>13 DEF Rendered
  <2>2. ids = {l[i].id : i \in 1..Len(l)}
    BY <1>9, <2>1 DEF shown, ShownIds, IdsIn
  <2> QED
    BY <1>3, <1>6, <2>2, IdsOfList DEF rows
<1>14. IsListOf(ByRank(l), X)
  BY <1>3, <1>4, RankedIs
<1> DEFINE m == ByRank(l)
<1> HIDE DEF m
<1>15. m \in Seq(X) /\ DOMAIN m = 1..Len(m) /\ Len(m) \in Nat
  BY <1>14, LenProperties DEF IsListOf, m
<1>16. CASE q.format = "markdown"
  <2>1. shown = [i \in 1..Len(m) |-> ReportEntry(m[i], q.evidence)]
    BY <1>8, <1>15, <1>16 DEF Rendered, m
  <2>2. ids = {m[i].id : i \in 1..Len(m)}
    BY <1>9, <2>1 DEF shown, ShownIds, IdsIn
  <2> QED
    BY <1>6, <1>14, <2>2, IdsOfList DEF rows, m
<1>17. CASE q.format = "terminal"
  <2> DEFINE first == Leading(m, 10)
  <2>1. IdsIn(first) = {x.id : x \in X} \/ Cardinality(IdsIn(first)) = 10
    <3>1. IsListOf(m, X)
      BY <1>14 DEF m
    <3> QED
      BY <1>5, <3>1, FirstTen
  <2>2. shown = [i \in DOMAIN first |-> ReportEntry(first[i], FALSE)]
    BY <1>8, <1>17 DEF Rendered, m
  <2> HIDE DEF first
  <2>3. ids = IdsIn(first)
    <3>1. DOMAIN shown = DOMAIN first /\ \A i \in DOMAIN first : shown[i].id = first[i].id
      BY <1>9, <2>2, Zenon
    <3> QED
      BY <3>1 DEF shown, ShownIds, IdsIn
  <2> QED
    BY <1>6, <2>1, <2>3 DEF rows
<1> QED
  BY <1>11, <1>12, <1>13, <1>16, <1>17

\* A list that is cut leaves out the lesser ones.
LEMMA ListIsFair ==
    ASSUME RowsInv, IsFiniteSet(dbRows), NEW q, q.limit \in Nat, q.severity = "",
           NEW ids, ids = ShownIds(ListFindings(q)), NEW row, row \in Table("findings"),
           q.id # "" => row \in ScanFindings(q.id),
           DbFindings[row.key.id].severity \in {"critical", "high"}, row.key.id \notin ids, NEW f \in ids
    PROVE  DbFindings[f].severity \in {"critical", "high"}
<1> DEFINE rows == {r \in dbRows : r.key.table = "findings" /\ q.severity \in {"", ToReport(r).severity}
                                  /\ (q.id = "" \/ RowKey("scans", q.id) \in r.refs)}
           X == {ToReport(r) : r \in rows}
           l == Listed(rows)
           shown == Leading(l, q.limit)
<1>1. rows \subseteq dbRows /\ row \in rows /\ \A r \in rows : r.key.table = "findings"
  BY DEF ScanFindings, Children, Table
<1>2. ListFindings(q).shown = shown
  BY DEF ListFindings, Told
<1>3. IsFiniteSet(rows) /\ \A r \in rows : /\ IsReported(ToReport(r)) /\ ToReport(r).id = r.key.id
                                           /\ ToReport(r).severity = DbFindings[r.key.id].severity
  <2>1. rows \in SUBSET dbRows
    BY <1>1
  <2> HIDE DEF rows
  <2> QED
    BY <1>1, <2>1, FS_Subset, ToldOfRow
<1> HIDE DEF rows
<1>4. /\ IsListOf(l, X)
      /\ \A i, j \in 1..Len(l) : i < j => NameKey(l[i]) <= NameKey(l[j])
  BY <1>3, ListedIs
<1> HIDE DEF l
<1>5. l \in Seq(X) /\ shown \in Seq(X) /\ DOMAIN shown = 1..Len(shown)
  <2>1. l \in Seq(X)
    BY <1>4 DEF IsListOf
  <2>2. shown \in Seq(X)
    <3> HIDE DEF X
    <3> QED
      BY <2>1, LeadingIs
  <2> QED
    BY <2>1, <2>2, LenProperties
<1>6. ids = {shown[i].id : i \in 1..Len(shown)}
  BY <1>2, <1>5 DEF ShownIds, IdsIn
<1>7. PICK i \in 1..Len(shown) : f = shown[i].id
  BY <1>6
<1> DEFINE x == ToReport(row)
<1>8. x \in X /\ x.severity \in {"critical", "high"} /\ x.id = row.key.id
  BY <1>1, <1>3
<1>9. \A y \in X : IsReported(y) /\ DbFindings[y.id].severity = y.severity
  BY <1>3
<1>10. \A k \in 1..Len(shown) : shown[k].id # x.id
  BY <1>6, <1>8
<1>11. shown[i] \in X /\ shown[i].severity \in {"critical", "high"}
  <2> HIDE DEF X, x
  <2> QED
    BY <1>4, <1>8, <1>9, <1>10, LesserLeftOut
<1> QED
  BY <1>7, <1>9, <1>11

-----------------------------------------------------------------------------
\* What an answer says it was asked is what was asked.
LEMMA AnswersEcho ==
    ASSUME NEW q, IsQuestion(q)
    PROVE  /\ AnswerTo(q).what = q.what /\ AnswerTo(q).id = q.id /\ AnswerTo(q).severity = q.severity
           /\ q.what = "findings list" => AnswerTo(q) = ListFindings(q)
           /\ q.what = "report generate" => AnswerTo(q) = GenerateReport(q)
<1>1. \A exit, shown, totals, file : /\ Told(q, exit, shown, totals, file).what = q.what
                                     /\ Told(q, exit, shown, totals, file).id = q.id
                                     /\ Told(q, exit, shown, totals, file).severity = q.severity
  BY DEF Told
<1> DEFINE Echoes(answer) == answer.what = q.what /\ answer.id = q.id /\ answer.severity = q.severity
<1>2. \A exit, shown, totals, file : Echoes(Told(q, exit, shown, totals, file))
  BY <1>1
<1> HIDE DEF Echoes
<1>3. Echoes(ListFindings(q))
  BY <1>2 DEF ListFindings
<1>4. Echoes(ShowFinding(q))
  BY <1>2 DEF ShowFinding
<1>5. Echoes(ShowScan(q))
  BY <1>2 DEF ShowScan
<1>6. Echoes(GenerateReport(q))
  BY <1>2 DEF GenerateReport
<1>7. Echoes(CompareScans(q))
  BY <1>2 DEF CompareScans
<1>8. Echoes(FindingsStats(q))
  BY <1>2 DEF FindingsStats
<1>9. Echoes(ListRows(q, "scans")) /\ Echoes(ListRows(q, "targets"))
  BY <1>2 DEF ListRows
<1>10. q.what \in {"findings list", "findings show", "findings stats", "scans list", "scans show",
                   "targets list", "report generate", "report compare"}
  BY DEF IsQuestion
<1>11. Echoes(AnswerTo(q))
  BY <1>3, <1>4, <1>5, <1>6, <1>7, <1>8, <1>9, <1>10 DEF AnswerTo
<1> QED
  BY <1>11 DEF AnswerTo, Echoes

\* So an answer tells what is there.
LEMMA AskingTells ==
    ASSUME RowsInv, IsFiniteSet(dbRows), NEW q \in DbQuestions, Ask(q)
    PROVE  AnswersTell
<1> DEFINE a == AnswerTo(q)
<1>1. dbAnswer' = a /\ IsQuestion(q) /\ q.limit \in Nat
  BY DatabaseAssumption DEF Ask, IsQuestion
<1>2. a.what = q.what /\ a.id = q.id /\ a.severity = q.severity
  BY <1>1, AnswersEcho
<1>3. ASSUME q.what = "report generate", a.exit = "ok"
      PROVE  \/ ShownIds(a) = {row.key.id : row \in ScanFindings(a.id)}
             \/ Cardinality(ShownIds(a)) = 10 \/ ~Readable(ScanFindings(a.id))
  <2>1. a = GenerateReport(q)
    BY <1>1, <1>3, AnswersEcho
  <2> QED
    BY <1>2, <1>3, <2>1, ReportIsWhole
<1>4. ASSUME q.what = "findings list", q.severity = "",
             NEW row \in IF a.id = "" THEN Table("findings") ELSE ScanFindings(a.id),
             DbFindings[row.key.id].severity \in {"critical", "high"}, row.key.id \notin ShownIds(a),
             NEW f \in ShownIds(a)
      PROVE  DbFindings[f].severity \in {"critical", "high"}
  <2>1. a = ListFindings(q)
    BY <1>1, <1>4, AnswersEcho
  <2>2. row \in Table("findings") /\ (q.id # "" => row \in ScanFindings(q.id))
    BY <1>2, <1>4 DEF Table, ScanFindings, Children
  <2> QED
    BY <1>1, <1>4, <2>1, <2>2, ListIsFair
<1> HIDE DEF a
<1> QED
  BY <1>1, <1>2, <1>3, <1>4 DEF AnswersTell, ShownIds, IdsIn

\* Nobody else answers.
LEMMA OthersAnswerNothing ==
    ASSUME [DbStep]_dbVars, \A q \in DbQuestions : ~Ask(q)
    PROVE  dbAnswer' = dbAnswer
<1>1. ASSUME NEW s \in DbScans, ScanStarts(s) \/ ScanResumes(s) PROVE dbAnswer' = dbAnswer
  BY <1>1 DEF ScanStarts, ScanResumes
<1>2. ASSUME NEW f \in DOMAIN DbFindings, RunCheckpoints(f) \/ TriageReads(f) PROVE dbAnswer' = dbAnswer
  BY <1>2 DEF RunCheckpoints, TriageReads, RunFails
<1>3. ASSUME NEW dropped, NEW confirmed, NEW degraded, RunFinalizes(dropped, confirmed, degraded) PROVE dbAnswer' = dbAnswer
  BY <1>3 DEF RunFinalizes, RunFails
<1>4. CASE RunDies \/ DeleteStep \/ DeleteEnds \/ TriageWrites
  BY <1>4 DEF RunDies, RunFails, DeleteStep, DeleteEnds, TriageWrites
<1>5. ASSUME NEW s \in DbScans, DeleteBegins(s) \/ RemoveTarget(s) \/ AddTarget(s) PROVE dbAnswer' = dbAnswer
  BY <1>5 DEF DeleteBegins, RemoveTarget, AddTarget
<1>6. ASSUME NEW f, Spoiled(f) PROVE dbAnswer' = dbAnswer
  BY <1>6 DEF Spoiled
<1>7. CASE UNCHANGED dbVars
  BY <1>7 DEF dbVars
<1> QED
  BY <1>1, <1>2, <1>3, <1>4, <1>5, <1>6, <1>7 DEF DbStep

-----------------------------------------------------------------------------
\* There are finitely many rows, and a run holds finitely many findings, of however many
\* there may be.
StoreIsFinite == IsFiniteSet(dbRows) /\ IsFiniteSet(DOMAIN dbRun.held)

\* Rows that are added, written or taken away.
LEMMA FiniteRows ==
    ASSUME NEW S, IsFiniteSet(S)
    PROVE  /\ \A x, y : IsFiniteSet((S \ {x}) \cup {y}) /\ IsFiniteSet(S \cup {x}) /\ IsFiniteSet(S \cup {x, y})
           /\ \A T : T \subseteq S => IsFiniteSet(T)
<1>1. ASSUME NEW T, T \subseteq S PROVE IsFiniteSet(T)
  <2>1. T \in SUBSET S
    BY <1>1
  <2> QED
    BY <2>1, FS_Subset
<1>2. ASSUME NEW x, NEW y PROVE IsFiniteSet((S \ {x}) \cup {y}) /\ IsFiniteSet(S \cup {x}) /\ IsFiniteSet(S \cup {x, y})
  <2>1. IsFiniteSet(S \ {x}) /\ IsFiniteSet(S \cup {x})
    BY <1>1, FS_AddElement
  <2>2. IsFiniteSet((S \ {x}) \cup {y})
    BY <2>1, FS_AddElement
  <2>3. IsFiniteSet((S \cup {x}) \cup {y})
    BY <2>1, FS_AddElement
  <2>4. (S \cup {x}) \cup {y} = S \cup {x, y}
    OBVIOUS
  <2> QED
    BY <2>1, <2>2, <2>3, <2>4
<1> QED
  BY <1>1, <1>2

\* No step makes them infinitely many.
LEMMA StaysFinite ==
    ASSUME StoreIsFinite, RunInv, [DbStep]_dbVars
    PROVE  StoreIsFinite'
<1>0. IsFiniteSet(dbRows) /\ IsFiniteSet(DOMAIN dbRun.held)
  BY DEF StoreIsFinite
<1>1. IsFiniteSet(DOMAIN NoScanRun.held)
  <2>1. NoScanRun.held = <<>> /\ DOMAIN NoScanRun.held = {}
    BY DEF NoScanRun
  <2> QED
    BY <2>1, FS_EmptySet
<1>2. CASE RunFails
  BY <1>0, <1>1, <1>2 DEF RunFails, StoreIsFinite
<1>3. ASSUME NEW s \in DbScans, ScanStarts(s) PROVE StoreIsFinite'
  <2>1. IsFiniteSet(dbRows')
    BY <1>0, <1>3, FiniteRows DEF ScanStarts
  <2>2. DOMAIN dbRun'.held = {}
    <3>1. dbRun'.held = <<>>
      BY <1>3 DEF ScanStarts
    <3>2. DOMAIN <<>> = {}
      OBVIOUS
    <3> QED
      BY <3>1, <3>2
  <2> QED
    BY <2>1, <2>2, FS_EmptySet DEF StoreIsFinite
<1>4. ASSUME NEW s \in DbScans, ScanResumes(s) PROVE StoreIsFinite'
  <2> DEFINE ids == {row.key.id : row \in ScanFindings(s)}
             f == [row \in ScanFindings(s) |-> row.key.id]
  <2>1. IsFiniteSet(dbRows')
    BY <1>0, <1>4, FiniteRows DEF ScanResumes, WithStatus
  <2>2. DOMAIN dbRun'.held = ids
    BY <1>4 DEF ScanResumes
  <2>3. ScanFindings(s) \subseteq dbRows
    BY DEF ScanFindings, Children
  <2>4. IsFiniteSet(ScanFindings(s))
    BY <1>0, <2>3, FiniteRows
  <2>5. ids = {f[row] : row \in ScanFindings(s)}
    OBVIOUS
  <2>6. IsFiniteSet(ids)
    <3> HIDE DEF ids, f
    <3> QED
      BY <2>4, <2>5, FiniteImage
  <2> QED
    BY <2>1, <2>2, <2>6 DEF StoreIsFinite
<1>5. ASSUME NEW f \in DOMAIN DbFindings, RunCheckpoints(f), ~RunFails PROVE StoreIsFinite'
  <2>1. /\ dbRows' = dbRows \cup {FindingRow(f, "open"), CheckpointRow(DbFindings[f].scan)}
        /\ dbRun' = [dbRun EXCEPT !.held = Holding(dbRun.held, f)] /\ dbRun.scan = DbFindings[f].scan
    BY <1>5 DEF RunCheckpoints
  <2>2. IsFiniteSet(dbRows')
    BY <1>0, <2>1, FiniteRows
  <2>3. dbRun # NoScanRun
    <3>1. NoScanRun.scan = "" /\ "" \notin DbScans /\ DbFindings[f].scan \in DbScans
      BY DatabaseAssumption DEF NoScanRun
    <3> QED
      BY <2>1, <3>1
  <2>4. dbRun = [scan |-> dbRun.scan, held |-> dbRun.held]
    BY <2>3 DEF RunInv
  <2>5. DOMAIN dbRun'.held = DOMAIN dbRun.held \cup {f}
    BY <2>1, <2>4 DEF Holding
  <2> QED
    BY <1>0, <2>2, <2>5, FiniteRows DEF StoreIsFinite
<1>6. ASSUME NEW dropped, NEW confirmed, NEW degraded, RunFinalizes(dropped, confirmed, degraded), ~RunFails
      PROVE  StoreIsFinite'
  <2> DEFINE s == dbRun.scan
             kept == DOMAIN dbRun.held \ dropped
             g == [f \in kept |-> Restored(f, IF f \in confirmed THEN "confirmed" ELSE dbRun.held[f])]
             rows == {Restored(f, IF f \in confirmed THEN "confirmed" ELSE dbRun.held[f]) : f \in kept}
             others == dbRows \ (ScanFindings(s) \cup {row \in dbRows : row.key = RowKey("scans", s)})
             new == Row(RowKey("scans", s), {RowKey("targets", s)}, IF degraded THEN "failed" ELSE "completed")
  <2>1. dbRows' = others \cup rows \cup {new} /\ dbRun' = NoScanRun
    BY <1>6 DEF RunFinalizes
  <2>2. others \subseteq dbRows /\ kept \subseteq DOMAIN dbRun.held
    OBVIOUS
  <2>3. rows = {g[f] : f \in kept}
    OBVIOUS
  <2> HIDE DEF others, kept, g, rows, new
  <2>4. IsFiniteSet(others) /\ IsFiniteSet(kept)
    BY <1>0, <2>2, FiniteRows
  <2>5. IsFiniteSet(rows)
    BY <2>3, <2>4, FiniteImage
  <2>6. IsFiniteSet(others \cup rows)
    BY <2>4, <2>5, FS_Union
  <2>7. IsFiniteSet(dbRows')
    BY <2>1, <2>6, FiniteRows
  <2> QED
    BY <1>1, <2>1, <2>7 DEF StoreIsFinite
<1>7. CASE DeleteStep \/ \E s \in DbScans : RemoveTarget(s)
  <2>1. dbRows' \subseteq dbRows /\ dbRun' = dbRun
    BY <1>7 DEF DeleteStep, RemoveTarget
  <2> QED
    BY <1>0, <2>1, FiniteRows DEF StoreIsFinite
<1>8. CASE \/ DeleteEnds \/ \E s \in DbScans : DeleteBegins(s)
           \/ \E f \in DOMAIN DbFindings : TriageReads(f)
           \/ \E q \in DbQuestions : Ask(q)
           \/ UNCHANGED dbVars
  <2>1. dbRows' = dbRows /\ dbRun' = dbRun
    BY <1>8 DEF DeleteEnds, DeleteBegins, TriageReads, Ask, dbVars
  <2> QED
    BY <1>0, <2>1 DEF StoreIsFinite
<1>9. CASE TriageWrites \/ (\E s \in DbScans : AddTarget(s)) \/ \E f \in DbCorruptible : Spoiled(f)
  <2>1. dbRun' = dbRun
    BY <1>9 DEF TriageWrites, AddTarget, Spoiled
  <2>2. \/ dbRows' = dbRows
        \/ \E y : dbRows' = dbRows \cup {y}
        \/ \E x, y : dbRows' = (dbRows \ {x}) \cup {y}
    BY <1>9 DEF TriageWrites, AddTarget, Spoiled, WithStatus
  <2> QED
    BY <1>0, <2>1, <2>2, FiniteRows DEF StoreIsFinite
<1>10. CASE RunDies
  BY <1>2, <1>10 DEF RunDies
<1> QED
  BY <1>2, <1>3, <1>4, <1>5, <1>6, <1>7, <1>8, <1>9, <1>10 DEF DbStep

\* Whatever is stored, and however it came to be: a report of a scan has all its findings,
\* or ten of them, and a list that is cut leaves out the lesser ones (generate_report,
\* list_findings).
THEOREM ReportsAreTrue == DbSpec => ReportsTell
<1>1. DbInit => DbInv /\ StoreIsFinite
  <2>1. DbInit => dbRows = {} /\ DOMAIN dbRun.held = {}
    <3>1. NoScanRun.held = <<>> /\ DOMAIN NoScanRun.held = {}
      BY DEF NoScanRun
    <3> QED
      BY <3>1 DEF DbInit
  <2> QED
    BY <2>1, DbStarts, FS_EmptySet DEF StoreIsFinite
<1>2. DbInv /\ StoreIsFinite /\ [DbStep]_dbVars => (DbInv /\ StoreIsFinite)' /\ AnswersTell
  <2> SUFFICES ASSUME DbInv, StoreIsFinite, [DbStep]_dbVars PROVE (DbInv /\ StoreIsFinite)' /\ AnswersTell
    OBVIOUS
  <2>1. DbInv' /\ StoreIsFinite'
    BY DbMoves, StaysFinite DEF DbInv
  <2>2. CASE \E q \in DbQuestions : Ask(q)
    BY <2>1, <2>2, AskingTells DEF DbInv, StoreIsFinite
  <2>3. CASE \A q \in DbQuestions : ~Ask(q)
    BY <2>1, <2>3, OthersAnswerNothing DEF AnswersTell
  <2> QED
    BY <2>1, <2>2, <2>3
<1> QED
  BY <1>1, <1>2, PTL DEF DbSpec, ReportsTell

-----------------------------------------------------------------------------
(* Which file a tool may open *)

\* The first names of a path, and the rest.
LEMMA SplitAt ==
    ASSUME NEW S, NEW path \in Seq(S), NEW n \in 0..Len(path)
    PROVE  /\ SubSeq(path, 1, n) \in Seq(S) /\ Len(SubSeq(path, 1, n)) = n
           /\ SubSeq(path, n + 1, Len(path)) \in Seq(S) /\ Len(SubSeq(path, n + 1, Len(path))) = Len(path) - n
           /\ SubSeq(path, 1, n) \o SubSeq(path, n + 1, Len(path)) = path
<1>1. Len(path) \in Nat /\ \A i \in 1..Len(path) : path[i] \in S
  BY LenProperties
<1>2. SubSeq(path, 1, n) \in Seq(S) /\ Len(SubSeq(path, 1, n)) = n
  BY <1>1
<1>3. SubSeq(path, n + 1, Len(path)) \in Seq(S) /\ Len(SubSeq(path, n + 1, Len(path))) = Len(path) - n
  <2>1. \A i \in (n + 1)..Len(path) : path[i] \in S
    BY <1>1
  <2>2. n + 1 \in Int /\ Len(path) \in Int
    BY <1>1
  <2> QED
    BY <1>1, <2>1, <2>2, SubSeqProperties
<1>4. SubSeq(path, 1, n) \o SubSeq(path, n + 1, Len(path)) = SubSeq(path, 1, Len(path))
  <2>1. 1 \in 1..(Len(path) + 1) /\ n \in (1 - 1)..Len(path) /\ Len(path) \in n..Len(path)
    BY <1>1
  <2> QED
    BY <2>1, ConcatAdjacentSubSeq
<1>5. SubSeq(path, 1, Len(path)) = path
  BY SubSeqFull
<1> QED
  BY <1>2, <1>3, <1>4, <1>5

\* The first names of the first names.
LEMMA FirstOfFirst ==
    ASSUME NEW S, NEW path \in Seq(S), NEW n \in 0..Len(path), NEW m \in 0..n
    PROVE  SubSeq(SubSeq(path, 1, n), 1, m) = SubSeq(path, 1, m)
<1>1. Len(path) \in Nat /\ \A i \in 1..Len(path) : path[i] \in S
  BY LenProperties
<1> DEFINE a == SubSeq(path, 1, n)
<1>2. a \in Seq(S) /\ Len(a) = n /\ \A i \in 1..n : a[i] = path[i]
  BY <1>1
<1>3. SubSeq(path, 1, m) \in Seq(S) /\ Len(SubSeq(path, 1, m)) = m /\ \A i \in 1..m : SubSeq(path, 1, m)[i] = path[i]
  BY <1>1
<1> HIDE DEF a
<1>4. SubSeq(a, 1, m) \in Seq(S) /\ Len(SubSeq(a, 1, m)) = m /\ \A i \in 1..m : SubSeq(a, 1, m)[i] = a[i]
  BY <1>2
<1>5. \A i \in 1..Len(SubSeq(a, 1, m)) : SubSeq(a, 1, m)[i] = SubSeq(path, 1, m)[i]
  BY <1>2, <1>3, <1>4
<1> QED
  BY <1>3, <1>4, <1>5, SeqEqual DEF a

\* What comes first in one path put behind another, and what is left of it.
LEMMA FirstOfBoth ==
    ASSUME NEW S, NEW p \in Seq(S), NEW s \in Seq(S)
    PROVE  /\ p \o s \in Seq(S) /\ Len(p \o s) = Len(p) + Len(s) /\ Len(p) \in Nat /\ Len(s) \in Nat
           /\ \A n \in 0..Len(p) : SubSeq(p \o s, 1, n) = SubSeq(p, 1, n)
           /\ \A n \in 0..Len(p) : SubSeq(p \o s, n + 1, Len(p \o s)) = SubSeq(p, n + 1, Len(p)) \o s
           /\ \A n \in 0..Len(s) : SubSeq(p \o s, 1, Len(p) + n) = p \o SubSeq(s, 1, n)
<1>1. p \o s \in Seq(S) /\ Len(p \o s) = Len(p) + Len(s) /\ Len(p) \in Nat /\ Len(s) \in Nat
  BY ConcatProperties, LenProperties
<1>2. ASSUME NEW n \in 0..Len(p) PROVE SubSeq(p \o s, 1, n) = SubSeq(p, 1, n)
  <2>1. CASE n = 0
    BY <1>1, <2>1, SubSeqEmpty
  <2>2. CASE n # 0
    <3>1. 1 \in 1..Len(p) /\ n \in 1..Len(p)
      BY <1>1, <2>2
    <3> QED
      BY <3>1, SubSeqOfConcat1
  <2> QED
    BY <2>1, <2>2
<1>3. ASSUME NEW n \in 0..Len(p) PROVE SubSeq(p \o s, n + 1, Len(p \o s)) = SubSeq(p, n + 1, Len(p)) \o s
  <2> DEFINE a == SubSeq(p, 1, n)
             u == SubSeq(p, n + 1, Len(p))
             v == SubSeq(p \o s, n + 1, Len(p \o s))
  <2>1. u \in Seq(S) /\ a \o u = p /\ a \in Seq(S)
    BY SplitAt
  <2>2. n \in 0..Len(p \o s)
    BY <1>1
  <2>3. v \in Seq(S) /\ SubSeq(p \o s, 1, n) \o v = p \o s
    BY <1>1, <2>2, SplitAt
  <2>4. SubSeq(p \o s, 1, n) = a
    BY <1>2
  <2> HIDE DEF u, v, a
  <2>5. (a \o u) \o s = a \o (u \o s)
    <3>1. a \in Seq(S) /\ u \in Seq(S)
      BY <2>1
    <3> QED
      BY <3>1, ConcatAssociative
  <2>6. a \o v = a \o (u \o s) /\ u \o s \in Seq(S)
    BY <2>1, <2>3, <2>4, <2>5, ConcatProperties
  <2>7. v = u \o s
    BY <2>1, <2>3, <2>6, ConcatSimplifications
  <2> QED
    BY <2>7 DEF u, v
<1>4. ASSUME NEW n \in 0..Len(s) PROVE SubSeq(p \o s, 1, Len(p) + n) = p \o SubSeq(s, 1, n)
  <2> DEFINE t == SubSeq(s, 1, n)
             w == SubSeq(s, n + 1, Len(s))
  <2>1. t \in Seq(S) /\ w \in Seq(S) /\ t \o w = s /\ Len(t) = n
    BY SplitAt
  <2> HIDE DEF t, w
  <2>2. p \o t \in Seq(S) /\ Len(p \o t) = Len(p) + n
    BY <2>1, ConcatProperties
  <2>3. p \o s = (p \o t) \o w
    <3>1. t \in Seq(S) /\ w \in Seq(S)
      BY <2>1
    <3>2. (p \o t) \o w = p \o (t \o w)
      BY <3>1, ConcatAssociative
    <3> QED
      BY <2>1, <3>2
  <2>4. n \in Nat /\ Len(p) + n \in Nat
    BY <1>1
  <2>5. CASE Len(p) + n = 0
    <3>1. p \o t = <<>>
      BY <2>2, <2>5, EmptySeq
    <3>2. SubSeq(p \o s, 1, Len(p) + n) = <<>>
      BY <2>5, SubSeqEmpty
    <3> QED
      BY <3>1, <3>2 DEF t
  <2>6. CASE Len(p) + n # 0
    <3>1. 1 \in 1..Len(p \o t) /\ Len(p) + n \in 1..Len(p \o t)
      BY <2>2, <2>4, <2>6
    <3>2. SubSeq((p \o t) \o w, 1, Len(p) + n) = SubSeq(p \o t, 1, Len(p) + n)
      BY <2>1, <2>2, <3>1, SubSeqOfConcat1
    <3>3. SubSeq(p \o t, 1, Len(p) + n) = p \o t
      BY <2>2, SubSeqFull
    <3> QED
      BY <2>3, <3>2, <3>3 DEF t
  <2> QED
    BY <2>5, <2>6
<1> QED
  BY <1>1, <1>2, <1>3, <1>4

\* A path that begins with another is it and the rest.
LEMMA WithinIs ==
    ASSUME NEW S, NEW path \in Seq(S), NEW root \in Seq(S)
    PROVE  /\ Within(path, root) => path = root \o Below(path, root) /\ Below(path, root) \in Seq(S)
           /\ \A s \in Seq(S) : Within(root \o s, root) /\ Below(root \o s, root) = s
<1>1. ASSUME Within(path, root) PROVE path = root \o Below(path, root) /\ Below(path, root) \in Seq(S)
  <2>1. Len(root) \in 0..Len(path) /\ SubSeq(root, 1, Len(root)) = SubSeq(path, 1, Len(root))
    BY <1>1, LenProperties DEF Within, IsPrefix
  <2>2. SubSeq(root, 1, Len(root)) = root
    BY SubSeqFull
  <2> QED
    BY <2>1, <2>2, SplitAt DEF Below
<1>2. ASSUME NEW s \in Seq(S) PROVE Within(root \o s, root) /\ Below(root \o s, root) = s
  <2>1. /\ Len(root \o s) = Len(root) + Len(s) /\ Len(root) \in Nat /\ Len(s) \in Nat
        /\ SubSeq(root \o s, 1, Len(root)) = SubSeq(root, 1, Len(root))
        /\ SubSeq(root \o s, Len(root) + 1, Len(root \o s)) = SubSeq(root, Len(root) + 1, Len(root)) \o s
    BY FirstOfBoth
  <2>2. SubSeq(root, Len(root) + 1, Len(root)) = <<>>
    BY <2>1, SubSeqEmpty
  <2>3. <<>> \o s = s
    BY ConcatEmptySeq
  <2>4. Len(root) <= Len(root \o s)
    BY <2>1
  <2> QED
    BY <2>1, <2>2, <2>3, <2>4 DEF Within, Below, IsPrefix
<1> QED
  BY <1>1, <1>2

\* The paths that may be gone along as they are.
Real(tree, path) == Stops(tree, path) = {}

\* What stops a path, and what does not stop one that is real.
LEMMA StopsAre ==
    ASSUME NEW tree, IsTree(tree), NEW path \in Paths
    PROVE  /\ Stops(tree, path) \subseteq 1..Len(path) /\ Len(path) \in Nat
           /\ \A n \in 0..Len(path) : Stops(tree, SubSeq(path, 1, n)) \subseteq Stops(tree, path)
           /\ \A n \in Stops(tree, path) : \A m \in (n + 1)..Len(path) : n \in Stops(tree, SubSeq(path, 1, m))
           /\ Real(tree, path) => path \in DOMAIN tree /\ tree[path].kind \in {"dir", "file"}
<1>1. Len(path) \in Nat
  BY LenProperties DEF Paths
<1>2. Stops(tree, path) \subseteq 1..Len(path)
  BY DEF Stops
<1>3. ASSUME NEW n \in 0..Len(path) PROVE Stops(tree, SubSeq(path, 1, n)) \subseteq Stops(tree, path)
  <2>1. Len(SubSeq(path, 1, n)) = n
    BY SplitAt DEF Paths
  <2>2. \A m \in 1..n : SubSeq(SubSeq(path, 1, n), 1, m) = SubSeq(path, 1, m)
    BY FirstOfFirst DEF Paths
  <2>3. \A m \in 1..n : m \in 1..Len(path) /\ (m < n => m < Len(path))
    BY <1>1
  <2> QED
    BY <2>1, <2>2, <2>3 DEF Stops
<1>4. ASSUME NEW n \in Stops(tree, path), NEW m \in (n + 1)..Len(path) PROVE n \in Stops(tree, SubSeq(path, 1, m))
  <2>1. n \in 1..Len(path) /\ m \in 0..Len(path) /\ n \in 0..m /\ n \in 1..m /\ n < m
    BY <1>1, <1>2
  <2>2. Len(SubSeq(path, 1, m)) = m /\ SubSeq(SubSeq(path, 1, m), 1, n) = SubSeq(path, 1, n)
    BY <2>1, SplitAt, FirstOfFirst DEF Paths
  <2> QED
    BY <2>1, <2>2 DEF Stops
<1>5. ASSUME Real(tree, path) PROVE path \in DOMAIN tree /\ tree[path].kind \in {"dir", "file"}
  <2>1. CASE path = <<>>
    BY <2>1 DEF IsTree
  <2>2. CASE path # <<>>
    <3>1. Len(path) \in 1..Len(path) /\ SubSeq(path, 1, Len(path)) = path
      BY <1>1, <2>2, EmptySeq, SubSeqFull DEF Paths
    <3>2. path \in DOMAIN tree /\ tree[path].kind # "link"
      BY <1>5, <3>1 DEF Real, Stops
    <3> QED
      BY <3>2 DEF IsTree, Kinds
  <2> QED
    BY <2>1, <2>2
<1> QED
  BY <1>1, <1>2, <1>3, <1>4, <1>5

\* One link is followed, the first on the way, if that is what stops the path first.
LEMMA FollowIs ==
    ASSUME NEW tree, IsTree(tree), NEW path \in Paths
    PROVE  /\ Follow(tree, path) \in Paths
           /\ Real(tree, path) => Follow(tree, path) = path
           /\ ~Real(tree, path) => \E first \in Stops(tree, path) :
                 /\ \A n \in Stops(tree, path) : first <= n
                 /\ LET here == SubSeq(path, 1, first)
                    IN  Follow(tree, path) = IF here \in DOMAIN tree /\ tree[here].kind = "link"
                                             THEN tree[here].to \o SubSeq(path, first + 1, Len(path))
                                             ELSE path
<1>1. Real(tree, path) => Follow(tree, path) = path
  BY DEF Follow, Real
<1> DEFINE first == CHOOSE n \in Stops(tree, path) : \A m \in Stops(tree, path) : n <= m
<1>2. ASSUME ~Real(tree, path)
      PROVE  /\ first \in Stops(tree, path) /\ \A n \in Stops(tree, path) : first <= n
             /\ LET here == SubSeq(path, 1, first)
                IN  Follow(tree, path) = IF here \in DOMAIN tree /\ tree[here].kind = "link"
                                         THEN tree[here].to \o SubSeq(path, first + 1, Len(path))
                                         ELSE path
  <2>1. Stops(tree, path) \subseteq Nat /\ Stops(tree, path) # {}
    BY <1>2, StopsAre DEF Real
  <2>2. \E n \in Stops(tree, path) : \A m \in Stops(tree, path) : n <= m
    BY <2>1, LeastExists
  <2>3. first \in Stops(tree, path) /\ \A n \in Stops(tree, path) : first <= n
    BY <2>2
  <2> QED
    BY <2>1, <2>3 DEF Follow
<1> HIDE DEF first
<1>3. ASSUME ~Real(tree, path) PROVE Follow(tree, path) \in Paths
  <2> DEFINE here == SubSeq(path, 1, first)
  <2>1. CASE here \in DOMAIN tree /\ tree[here].kind = "link"
    <3>1. first \in 0..Len(path)
      BY <1>2, <1>3, StopsAre
    <3>2. SubSeq(path, first + 1, Len(path)) \in Paths
      BY <3>1, SplitAt DEF Paths
    <3>3. tree[here].to \in Paths
      BY <2>1 DEF IsTree
    <3>4. tree[here].to \o SubSeq(path, first + 1, Len(path)) \in Paths
      <4> HIDE DEF here
      <4> QED
        BY <3>2, <3>3, ConcatProperties DEF Paths
    <3> QED
      BY <1>2, <1>3, <2>1, <3>4
  <2>2. CASE ~(here \in DOMAIN tree /\ tree[here].kind = "link")
    BY <1>2, <1>3, <2>2
  <2> QED
    BY <2>1, <2>2
<1> QED
  BY <1>1, <1>2, <1>3

\* What stops a path stops it whatever comes behind, and is followed the same way.
LEMMA FollowBehind ==
    ASSUME NEW tree, IsTree(tree), NEW path \in Paths, NEW rest \in Paths, ~Real(tree, path)
    PROVE  Follow(tree, path \o rest) = Follow(tree, path) \o rest
<1> DEFINE whole == path \o rest
<1>1. /\ whole \in Paths /\ Len(whole) = Len(path) + Len(rest) /\ Len(path) \in Nat /\ Len(rest) \in Nat
      /\ \A n \in 0..Len(path) : SubSeq(whole, 1, n) = SubSeq(path, 1, n)
      /\ \A n \in 0..Len(path) : SubSeq(whole, n + 1, Len(whole)) = SubSeq(path, n + 1, Len(path)) \o rest
  <2>1. path \in Seq(STRING) /\ rest \in Seq(STRING)
    BY DEF Paths
  <2>2. path \o rest \in Seq(STRING) /\ Len(path \o rest) = Len(path) + Len(rest) /\ Len(path) \in Nat /\ Len(rest) \in Nat
    BY <2>1, FirstOfBoth
  <2>3. \A n \in 0..Len(path) : SubSeq(path \o rest, 1, n) = SubSeq(path, 1, n)
    BY <2>1, FirstOfBoth, Zenon
  <2>4. \A n \in 0..Len(path) : SubSeq(path \o rest, n + 1, Len(path \o rest)) = SubSeq(path, n + 1, Len(path)) \o rest
    BY <2>1, FirstOfBoth, Zenon
  <2> QED
    BY <2>2, <2>3, <2>4 DEF Paths
<1> HIDE DEF whole
<1>2. PICK first \in Stops(tree, path) :
         /\ \A n \in Stops(tree, path) : first <= n
         /\ LET here == SubSeq(path, 1, first)
            IN  Follow(tree, path) = IF here \in DOMAIN tree /\ tree[here].kind = "link"
                                     THEN tree[here].to \o SubSeq(path, first + 1, Len(path))
                                     ELSE path
  BY FollowIs
<1>3. first \in 1..Len(path) /\ first \in 0..Len(path) /\ first \in 1..Len(whole)
  BY <1>1, StopsAre
<1>4. Stops(tree, path) \subseteq Stops(tree, whole)
  <2> SUFFICES ASSUME NEW n \in Stops(tree, path) PROVE n \in Stops(tree, whole)
    OBVIOUS
  <2>1. n \in 1..Len(path) /\ n \in 0..Len(path) /\ n \in 1..Len(whole) /\ (n < Len(path) => n < Len(whole))
    BY <1>1, StopsAre
  <2>2. SubSeq(whole, 1, n) = SubSeq(path, 1, n)
    BY <1>1, <2>1
  <2> QED
    BY <2>1, <2>2 DEF Stops
<1>5. ASSUME NEW n \in Stops(tree, whole), n < first PROVE FALSE
  <2>1. n \in 1..Len(path) /\ n < Len(path) /\ SubSeq(whole, 1, n) = SubSeq(path, 1, n)
    BY <1>1, <1>3, <1>5, StopsAre
  <2>2. n \in Stops(tree, path)
    BY <2>1 DEF Stops
  <2> QED
    BY <1>2, <1>3, <1>5, <2>1, <2>2
<1>6. ~Real(tree, whole)
  BY <1>4 DEF Real
<1>7. PICK next \in Stops(tree, whole) :
         /\ \A n \in Stops(tree, whole) : next <= n
         /\ LET here == SubSeq(whole, 1, next)
            IN  Follow(tree, whole) = IF here \in DOMAIN tree /\ tree[here].kind = "link"
                                     THEN tree[here].to \o SubSeq(whole, next + 1, Len(whole))
                                     ELSE whole
  BY <1>1, <1>6, FollowIs
<1>8. next = first
  <2>1. next \in Nat /\ next <= first /\ ~(next < first)
    BY <1>1, <1>4, <1>5, <1>7, StopsAre
  <2> QED
    BY <1>3, <2>1
<1> DEFINE here == SubSeq(path, 1, first)
<1>9. CASE here \in DOMAIN tree /\ tree[here].kind = "link"
  <2>1. Follow(tree, whole) = tree[here].to \o (SubSeq(path, first + 1, Len(path)) \o rest)
    BY <1>1, <1>3, <1>7, <1>8, <1>9
  <2>2. Follow(tree, path) = tree[here].to \o SubSeq(path, first + 1, Len(path))
    BY <1>2, <1>9
  <2>3. tree[here].to \in Seq(STRING) /\ SubSeq(path, first + 1, Len(path)) \in Seq(STRING) /\ rest \in Seq(STRING)
    BY <1>3, <1>9, SplitAt DEF IsTree, Paths
  <2> DEFINE to == tree[here].to
             left == SubSeq(path, first + 1, Len(path))
  <2>4. to \in Seq(STRING) /\ left \in Seq(STRING) /\ rest \in Seq(STRING)
    BY <2>3
  <2>5. Follow(tree, whole) = to \o (left \o rest) /\ Follow(tree, path) = to \o left
    BY <2>1, <2>2
  <2> HIDE DEF to, left
  <2>6. (to \o left) \o rest = to \o (left \o rest)
    BY <2>4, ConcatAssociative
  <2> QED
    BY <2>5, <2>6 DEF whole
<1>10. CASE ~(here \in DOMAIN tree /\ tree[here].kind = "link")
  <2>1. Follow(tree, path) = path
    BY <1>2, <1>10
  <2>2. Follow(tree, whole) = whole
    BY <1>1, <1>3, <1>7, <1>8, <1>10
  <2> QED
    BY <2>1, <2>2 DEF whole
<1> QED
  BY <1>9, <1>10

\* Links are followed one after the other.
LinksRun(at, tree, path) ==
    /\ at[0] = path
    /\ \A i \in 0..SystemLinks : at[i] \in Paths
    /\ \A i \in 1..SystemLinks : at[i] = Follow(tree, at[i - 1])

LEMMA FollowedRun ==
    ASSUME NEW tree, IsTree(tree), NEW path \in Paths
    PROVE  \E at : LinksRun(at, tree, path) /\ Followed(tree, path) = at[SystemLinks]
<1> DEFINE N == SystemLinks
           step == [p \in (1..N) \X Paths |-> Follow(tree, p[2])]
           body(g) == [s \in SUBSET (DOMAIN Times(N)) |-> IF s = {} THEN path ELSE Follow(tree, g[s \ {Max(s)}])]
           iter == CHOOSE g : g = body(g)
<1>1. N \in Nat /\ DOMAIN Times(N) = 1..N
  BY PathAssumption DEF Times
<1>2. step \in [(1..N) \X Paths -> Paths]
  BY FollowIs
<1>3. Followed(tree, path) = iter[DOMAIN Times(N)]
  BY DEF Followed, FoldLeft, MapThenFoldSet
<1>4. \E g : g = body(g)
  <2>1. PICK g \in [SUBSET (1..N) -> Paths] : IsFold(g, N, path, step)
    <3> HIDE DEF step
    <3> QED
      BY <1>1, <1>2, FoldExists
  <2>2. ASSUME NEW s \in SUBSET (1..N), s # {}
        PROVE  step[<<Max(s), g[s \ {Max(s)}]>>] = Follow(tree, g[s \ {Max(s)}])
    <3>1. g[s \ {Max(s)}] \in Paths /\ Max(s) \in 1..N
      BY <1>1, <2>1, <2>2, MaxIsIn
    <3> QED
      BY <3>1
  <2> HIDE DEF step
  <2>3. g = body(g)
    BY <1>1, <2>1, <2>2 DEF IsFold
  <2> QED
    BY <2>3
<1>5. iter = body(iter)
  BY <1>4
<1>6. Follows(iter, N, path, step, Paths)
  <2> HIDE DEF iter
  <2>1. iter[{}] = path
    BY <1>5
  <2>2. ASSUME NEW s \in SUBSET (1..N), s # {}, iter[s \ {Max(s)}] \in Paths
        PROVE  iter[s] = step[<<Max(s), iter[s \ {Max(s)}]>>]
    <3>1. Max(s) \in 1..N
      BY <1>1, <2>2, MaxIsIn
    <3>2. step[<<Max(s), iter[s \ {Max(s)}]>>] = Follow(tree, iter[s \ {Max(s)}])
      BY <2>2, <3>1
    <3>3. iter[s] = Follow(tree, iter[s \ {Max(s)}])
      <4>1. s \in SUBSET (DOMAIN Times(N))
        BY <1>1
      <4> HIDE DEF step, N
      <4> QED
        BY <1>5, <2>2, <4>1
    <3> QED
      BY <3>2, <3>3
  <2> QED
    BY <2>1, <2>2 DEF Follows
<1> HIDE DEF iter, body
<1>7. StepByStep(iter, N, path, step, Paths)
  <2> HIDE DEF step, N
  <2> QED
    BY <1>1, <1>2, <1>6, FoldSteps
<1> DEFINE at == [i \in 0..N |-> iter[1..i]]
<1>8. at[0] = path /\ at[N] = Followed(tree, path)
  BY <1>1, <1>3, <1>7 DEF StepByStep
<1>9. \A i \in 0..N : at[i] \in Paths
  BY <1>1, <1>7 DEF StepByStep
<1>10. ASSUME NEW i \in 1..N PROVE at[i] = Follow(tree, at[i - 1])
  <2>1. i \in 0..N /\ i - 1 \in 0..N /\ iter[1..(i - 1)] \in Paths
    BY <1>1, <1>7 DEF StepByStep
  <2>2. at[i] = iter[1..i] /\ at[i - 1] = iter[1..(i - 1)]
    BY <2>1
  <2>3. iter[1..i] = step[<<i, iter[1..(i - 1)]>>]
    BY <1>7 DEF StepByStep
  <2>4. step[<<i, iter[1..(i - 1)]>>] = Follow(tree, iter[1..(i - 1)])
    BY <2>1
  <2> HIDE DEF at, step
  <2> QED
    BY <2>2, <2>3, <2>4
<1> HIDE DEF at
<1>11. LinksRun(at, tree, path) /\ Followed(tree, path) = at[SystemLinks]
  BY <1>8, <1>9, <1>10 DEF LinksRun
<1> QED
  BY <1>11

\* A path that nothing is followed in is left as it is.
LEMMA FixedStays ==
    ASSUME NEW tree, IsTree(tree), NEW path \in Paths, Follow(tree, path) = path
    PROVE  Followed(tree, path) = path
<1>1. PICK at : LinksRun(at, tree, path) /\ Followed(tree, path) = at[SystemLinks]
  BY FollowedRun
<1> DEFINE Unmoved == {i \in 0..SystemLinks : at[i] = path}
<1>2. SystemLinks \in Nat
  BY PathAssumption
<1>3. 0 \in Unmoved
  BY <1>1, <1>2 DEF LinksRun
<1>4. ASSUME NEW i \in 1..SystemLinks, i - 1 \in Unmoved PROVE i \in Unmoved
  BY <1>1, <1>2, <1>4 DEF LinksRun
<1>5. 0..SystemLinks \subseteq Unmoved
  <2> HIDE DEF Unmoved
  <2> QED
    BY <1>2, <1>3, <1>4, Counting
<1> QED
  BY <1>1, <1>2, <1>5

\* What realpath says.
LEMMA CanonicalIs ==
    ASSUME NEW tree, IsTree(tree), NEW path \in Paths
    PROVE  /\ Canonical(tree, path).path \in Paths
           /\ Canonical(tree, path).why \in {"none", "missing"}
           /\ There(tree, path) => /\ Real(tree, Canonical(tree, path).path)
                                   /\ Canonical(tree, path) = Here(Canonical(tree, path).path)
           /\ Real(tree, path) => Canonical(tree, path) = Here(path) /\ There(tree, path)
           /\ Follow(tree, path) = path /\ ~Real(tree, path) => ~There(tree, path)
<1>1. PICK at : LinksRun(at, tree, path) /\ Followed(tree, path) = at[SystemLinks]
  BY FollowedRun
<1>2. Followed(tree, path) \in Paths
  <2>1. SystemLinks \in 0..SystemLinks
    BY PathAssumption
  <2> QED
    BY <1>1, <2>1 DEF LinksRun
<1>3. <<>> \in Paths
  BY EmptySeq DEF Paths
<1>4. \A p : Here(p).path = p /\ Here(p).why = "none"
  BY DEF Here
<1>5. Not("missing").path = <<>> /\ Not("missing").why = "missing"
  BY DEF Not
<1>6. Real(tree, path) => Followed(tree, path) = path
  BY FollowIs, FixedStays
<1>7. Follow(tree, path) = path => Followed(tree, path) = path
  BY FixedStays
<1> QED
  BY <1>2, <1>3, <1>4, <1>5, <1>6, <1>7 DEF Canonical, Arrived, There, Real

\* What is there is in a directory that is there.
LEMMA ThereBelow ==
    ASSUME NEW tree, IsTree(tree), NEW path \in Paths, NEW rest \in Paths, There(tree, path \o rest)
    PROVE  There(tree, path)
<1>1. PICK at : LinksRun(at, tree, path) /\ Followed(tree, path) = at[SystemLinks]
  BY FollowedRun
<1>2. path \o rest \in Paths
  BY ConcatProperties DEF Paths
<1>3. PICK below : LinksRun(below, tree, path \o rest) /\ Followed(tree, path \o rest) = below[SystemLinks]
  BY <1>2, FollowedRun
<1>4. SystemLinks \in Nat
  BY PathAssumption
<1> DEFINE Alike == {i \in 0..SystemLinks : below[i] = at[i] \o rest \/ Real(tree, at[i])}
<1>5. 0 \in Alike
  <2>1. at[0] = path /\ below[0] = path \o rest
    BY <1>1, <1>3 DEF LinksRun
  <2>2. below[0] = at[0] \o rest /\ 0 \in 0..SystemLinks
    BY <1>4, <2>1
  <2> QED
    BY <2>2
<1>6. ASSUME NEW i \in 1..SystemLinks, i - 1 \in Alike PROVE i \in Alike
  <2>1. /\ at[i - 1] \in Paths /\ at[i] = Follow(tree, at[i - 1]) /\ below[i] = Follow(tree, below[i - 1])
        /\ i \in 0..SystemLinks
    BY <1>1, <1>3, <1>4, <1>6 DEF LinksRun
  <2>2. CASE Real(tree, at[i - 1])
    BY <2>1, <2>2, FollowIs
  <2>3. CASE ~Real(tree, at[i - 1])
    <3>1. below[i - 1] = at[i - 1] \o rest
      BY <1>6, <2>3
    <3>2. Follow(tree, at[i - 1] \o rest) = Follow(tree, at[i - 1]) \o rest
      BY <2>1, <2>3, FollowBehind
    <3> QED
      BY <2>1, <3>1, <3>2
  <2> QED
    BY <2>2, <2>3
<1>7. 0..SystemLinks \subseteq Alike
  <2> HIDE DEF Alike
  <2> QED
    BY <1>4, <1>5, <1>6, Counting
<1> DEFINE end == at[SystemLinks]
<1>8. SystemLinks \in 0..SystemLinks /\ end \in Paths
  BY <1>1, <1>4 DEF LinksRun
<1>9. Real(tree, below[SystemLinks])
  BY <1>3 DEF There, Canonical, Arrived, Real, Not
<1> HIDE DEF end
<1>10. ASSUME below[SystemLinks] = end \o rest PROVE Real(tree, end)
  <2>1. Real(tree, end \o rest) /\ end \o rest \in Paths
    BY <1>8, <1>9, <1>10, ConcatProperties DEF Paths
  <2>2. Len(end) \in 0..Len(end \o rest) /\ SubSeq(end \o rest, 1, Len(end)) = SubSeq(end, 1, Len(end))
    BY <1>8, FirstOfBoth DEF Paths
  <2>3. SubSeq(end, 1, Len(end)) = end
    BY <1>8, SubSeqFull DEF Paths
  <2>4. Stops(tree, end) \subseteq Stops(tree, end \o rest)
    BY <2>1, <2>2, <2>3, StopsAre
  <2> QED
    BY <2>1, <2>4 DEF Real
<1>11. Real(tree, end)
  BY <1>7, <1>8, <1>10 DEF end
<1> QED
  BY <1>1, <1>11 DEF There, Canonical, Arrived, Real, Here, end

\* The directory a path lies in, and its name there.
LEMMA FrontAndLast ==
    ASSUME NEW path \in Paths
    PROVE  /\ Len(path) \in Nat /\ \A n \in 0..Len(path) : SubSeq(path, 1, n) \in Paths /\ Len(SubSeq(path, 1, n)) = n
           /\ SubSeq(path, 1, Len(path)) = path
           /\ path # <<>> => /\ Front(path) \in Paths /\ Front(path) = SubSeq(path, 1, Len(path) - 1)
                             /\ Len(path) \in 1..Len(path) /\ Len(path) - 1 \in 0..Len(path)
                             /\ Append(Front(path), Last(path)) = path /\ Last(path) \in STRING
           /\ \A n \in 1..Len(path) : /\ SubSeq(path, 1, n) # <<>> /\ n - 1 \in 0..Len(path)
                                      /\ Front(SubSeq(path, 1, n)) = SubSeq(path, 1, n - 1)
<1>1. Len(path) \in Nat /\ \A n \in 0..Len(path) : SubSeq(path, 1, n) \in Paths /\ Len(SubSeq(path, 1, n)) = n
  BY LenProperties, SplitAt DEF Paths
<1>2. SubSeq(path, 1, Len(path)) = path
  BY SubSeqFull DEF Paths
<1>3. ASSUME path # <<>>
      PROVE  /\ Front(path) \in Paths /\ Front(path) = SubSeq(path, 1, Len(path) - 1)
             /\ Len(path) \in 1..Len(path) /\ Len(path) - 1 \in 0..Len(path)
             /\ Append(Front(path), Last(path)) = path /\ Last(path) \in STRING
  <2>1. Len(path) \in 1..Len(path) /\ Len(path) - 1 \in 0..Len(path)
    BY <1>1, <1>3, EmptySeq DEF Paths
  <2>2. Front(path) \in Paths /\ Front(path) = SubSeq(path, 1, Len(path) - 1)
    BY <1>1, <2>1 DEF Front
  <2>3. Last(path) \in STRING
    BY <2>1, ElementOfSeq DEF Last, Paths
  <2>4. 1 \in 1..Len(path) /\ Len(path) \in 1..Len(path)
    BY <1>1, <2>1
  <2>5. SubSeq(path, 1, Len(path)) = SubSeq(path, 1, Len(path) - 1) \o <<path[Len(path)]>>
    BY <2>4, SubSeqRecursiveSecond DEF Paths
  <2>6. Append(Front(path), Last(path)) = Front(path) \o <<Last(path)>>
    BY <2>2, <2>3, AppendIsConcat DEF Paths
  <2> QED
    BY <1>2, <2>1, <2>2, <2>3, <2>5, <2>6 DEF Last
<1>4. ASSUME NEW n \in 1..Len(path)
      PROVE  /\ SubSeq(path, 1, n) # <<>> /\ n - 1 \in 0..Len(path)
             /\ Front(SubSeq(path, 1, n)) = SubSeq(path, 1, n - 1)
  <2>1. n \in 0..Len(path) /\ n - 1 \in 0..n /\ n - 1 \in 0..Len(path) /\ n # 0
    BY <1>1
  <2>2. SubSeq(path, 1, n) \in Paths /\ Len(SubSeq(path, 1, n)) = n
    BY <1>1, <2>1
  <2>3. SubSeq(path, 1, n) # <<>>
    BY <2>1, <2>2, EmptySeq DEF Paths
  <2>4. SubSeq(SubSeq(path, 1, n), 1, n - 1) = SubSeq(path, 1, n - 1)
    BY <2>1, FirstOfFirst DEF Paths
  <2> QED
    BY <2>1, <2>2, <2>3, <2>4 DEF Front
<1> QED
  BY <1>1, <1>2, <1>3, <1>4

\* A set of places of a path has a last one.
LEMMA LastExists ==
    ASSUME NEW N \in Nat, NEW S, S \subseteq 0..N, S # {}
    PROVE  \E m \in S : \A n \in S : n <= m
<1> DEFINE T == {n \in 1..(N + 1) : n - 1 \in S}
<1>1. \A n \in S : n \in Int /\ n + 1 \in 1..(N + 1) /\ (n + 1) - 1 = n
  OBVIOUS
<1>2. T \subseteq 1..(N + 1) /\ N + 1 \in Nat /\ \A n \in S : n + 1 \in T
  BY <1>1
<1>3. \A m \in T : m - 1 \in S /\ m \in Int
  OBVIOUS
<1> HIDE DEF T
<1>4. PICK m \in T : \A i \in T : i <= m
  BY <1>2, GreatestExists
<1>5. m - 1 \in S /\ m \in Int
  BY <1>3, <1>4
<1>6. ASSUME NEW n \in S PROVE n <= m - 1
  <2>1. n + 1 <= m /\ n \in Int
    BY <1>1, <1>2, <1>4
  <2> QED
    BY <1>5, <2>1
<1> QED
  BY <1>5, <1>6

\* Everything that exists lies in directories that exist.
LEMMA NothingBelowNothing ==
    ASSUME NEW tree, IsTree(tree), NEW path \in Paths, path \in DOMAIN tree
    PROVE  \A n \in 0..Len(path) : SubSeq(path, 1, n) \in DOMAIN tree
<1>1. Len(path) \in Nat /\ SubSeq(path, 1, Len(path)) = path
  BY FrontAndLast
<1> DEFINE Up == {i \in 0..Len(path) : SubSeq(path, 1, Len(path) - i) \in DOMAIN tree}
<1>2. 0 \in Up
  <2>1. 0 \in 0..Len(path) /\ Len(path) - 0 = Len(path)
    BY <1>1
  <2> QED
    BY <1>1, <2>1
<1>3. ASSUME NEW i \in 1..Len(path), i - 1 \in Up PROVE i \in Up
  <2> DEFINE n == Len(path) - (i - 1)
  <2>1. n \in 1..Len(path) /\ n - 1 = Len(path) - i /\ i \in 0..Len(path)
    BY <1>1
  <2>2. SubSeq(path, 1, n) \in DOMAIN tree
    BY <1>3
  <2> HIDE DEF n
  <2>3. SubSeq(path, 1, n) # <<>> /\ Front(SubSeq(path, 1, n)) = SubSeq(path, 1, n - 1)
    BY <2>1, FrontAndLast
  <2>4. SubSeq(path, 1, n - 1) \in DOMAIN tree
    BY <2>2, <2>3 DEF IsTree
  <2> QED
    BY <2>1, <2>4
<1>4. 0..Len(path) \subseteq Up
  <2> HIDE DEF Up
  <2> QED
    BY <1>1, <1>2, <1>3, Counting
<1> SUFFICES ASSUME NEW n \in 0..Len(path) PROVE SubSeq(path, 1, n) \in DOMAIN tree
  OBVIOUS
<1>5. Len(path) - n \in 0..Len(path) /\ Len(path) - (Len(path) - n) = n
  BY <1>1
<1>6. Len(path) - n \in Up
  BY <1>4, <1>5
<1> QED
  BY <1>5, <1>6

\* A path in a directory that may be gone along has its own name there.
LEMMA OwnPathIs ==
    ASSUME NEW tree, IsTree(tree), NEW path \in Paths
    PROVE  /\ OwnPath(tree, path) \in Paths
           /\ path = <<>> => OwnPath(tree, path) = path
           /\ path # <<>> /\ ~There(tree, Front(path)) => OwnPath(tree, path) = path
           /\ path # <<>> /\ Real(tree, Front(path)) => OwnPath(tree, path) = path
           /\ KindOfPath(tree, path) \in Kinds \cup {"missing"}
           /\ KindOfPath(tree, <<>>) = "dir"
<1>1. path = <<>> => OwnPath(tree, path) = path
  BY DEF OwnPath, InParent
<1>2. ASSUME path # <<>>, ~There(tree, Front(path)) PROVE OwnPath(tree, path) = path
  BY <1>2 DEF OwnPath, InParent, There
<1>3. ASSUME path # <<>>, Real(tree, Front(path)) PROVE OwnPath(tree, path) = path
  <2>1. Front(path) \in Paths /\ Append(Front(path), Last(path)) = path
    BY <1>3, FrontAndLast
  <2>2. Canonical(tree, Front(path)).path = Front(path)
    BY <1>3, <2>1, CanonicalIs DEF Here
  <2> QED
    BY <2>1, <2>2 DEF OwnPath, InParent
<1>4. OwnPath(tree, path) \in Paths
  <2>1. CASE path = <<>> \/ ~There(tree, Front(path))
    BY <1>1, <1>2, <2>1
  <2>2. CASE path # <<>> /\ There(tree, Front(path))
    <3>1. Front(path) \in Paths /\ Last(path) \in STRING
      BY <2>2, FrontAndLast
    <3>2. Canonical(tree, Front(path)).path \in Paths
      BY <3>1, CanonicalIs
    <3>3. Append(Canonical(tree, Front(path)).path, Last(path)) \in Paths
      BY <3>1, <3>2, AppendProperties DEF Paths
    <3> QED
      BY <2>2, <3>3 DEF OwnPath, InParent, There
  <2> QED
    BY <2>1, <2>2
<1>5. KindOfPath(tree, path) \in Kinds \cup {"missing"}
  BY DEF KindOfPath, KindAt, IsTree
<1>6. KindOfPath(tree, <<>>) = "dir"
  BY DEF KindOfPath, KindAt, OwnPath, InParent, IsTree
<1> QED
  BY <1>1, <1>2, <1>3, <1>4, <1>5, <1>6

\* A path that leaves a real one for no link is what it was found to be: the very same path.
LEMMA NoLinkLeadsElsewhere ==
    ASSUME NEW tree, IsTree(tree), NEW path \in Paths, NEW from \in 0..Len(path), Real(tree, SubSeq(path, 1, from)),
           \A n \in (from + 1)..Len(path) : KindOfPath(tree, SubSeq(path, 1, n)) # "link"
    PROVE  Finalise(tree, path) = Here(path) /\ (There(tree, path) => Real(tree, path))
<1>1. Len(path) \in Nat /\ SubSeq(path, 1, Len(path)) = path
      /\ \A n \in 0..Len(path) : SubSeq(path, 1, n) \in Paths /\ Len(SubSeq(path, 1, n)) = n
  BY FrontAndLast
<1> DEFINE Reals == {n \in 0..Len(path) : Real(tree, SubSeq(path, 1, n))}
<1>1a. Len(path) \in Nat
  BY <1>1
<1>2. PICK far \in Reals : \A n \in Reals : n <= far
  <2>1. from \in Reals /\ Reals \subseteq 0..Len(path)
    OBVIOUS
  <2> HIDE DEF Reals
  <2> QED
    BY <1>1a, <2>1, LastExists
<1>3. far \in 0..Len(path) /\ Real(tree, SubSeq(path, 1, far)) /\ from <= far
  BY <1>2, from \in Reals
<1>3a. \A n \in 0..Len(path) : Real(tree, SubSeq(path, 1, n)) => n <= far
  BY <1>2
<1> HIDE DEF Reals
<1>4. CASE far = Len(path)
  <2>1. Real(tree, path) /\ path \in DOMAIN tree /\ tree[path].kind \in {"dir", "file"}
    BY <1>1, <1>3, <1>4, StopsAre
  <2>2. Canonical(tree, path) = Here(path)
    BY <2>1, CanonicalIs
  <2>3. OwnPath(tree, path) = path
    <3>1. CASE path = <<>>
      BY <3>1, OwnPathIs
    <3>2. CASE path # <<>>
      <4>1. Front(path) = SubSeq(path, 1, Len(path) - 1) /\ Len(path) - 1 \in 0..Len(path)
        BY <3>2, FrontAndLast
      <4>2. Real(tree, Front(path))
        BY <2>1, <4>1, StopsAre DEF Real
      <4> QED
        BY <3>2, <4>2, OwnPathIs
    <3> QED
      BY <3>1, <3>2
  <2>4. KindOfPath(tree, path) \in {"dir", "file"}
    BY <2>1, <2>3 DEF KindOfPath, KindAt
  <2> QED
    BY <2>1, <2>2, <2>4 DEF Finalise
<1>5. CASE far # Len(path)
  <2> DEFINE next == SubSeq(path, 1, far + 1)
  <2>1. /\ far + 1 \in 0..Len(path) /\ far + 1 \in 1..Len(path) /\ far + 1 \in (from + 1)..Len(path)
        /\ next \in Paths /\ Len(next) = far + 1 /\ next # <<>> /\ Front(next) = SubSeq(path, 1, far)
    <3>1. far + 1 \in 0..Len(path) /\ far + 1 \in 1..Len(path) /\ far + 1 \in (from + 1)..Len(path) /\ (far + 1) - 1 = far
      BY <1>3, <1>5, <1>1a
    <3>2. next \in Paths /\ Len(next) = far + 1
      BY <1>1, <3>1
    <3>3. next # <<>> /\ Front(next) = SubSeq(path, 1, (far + 1) - 1)
      BY <3>1, FrontAndLast
    <3> QED
      BY <3>1, <3>2, <3>3
  <2>2. OwnPath(tree, next) = next
    BY <1>3, <2>1, OwnPathIs
  <2>3. ~Real(tree, next)
    <3>1. ~(far + 1 <= far)
      BY <1>3
    <3> QED
      BY <1>3a, <2>1, <3>1
  <2>4. KindOfPath(tree, next) # "link"
    BY <2>1
  <2>5. next \notin DOMAIN tree
    <3>1. SUFFICES ASSUME next \in DOMAIN tree PROVE FALSE
      OBVIOUS
    <3>2. tree[next].kind \in {"dir", "file"} /\ Front(next) \in DOMAIN tree /\ tree[Front(next)].kind = "dir"
      <4>1. tree[next].kind \in Kinds /\ tree[next].kind # "link"
        BY <2>2, <2>4, <3>1 DEF KindOfPath, KindAt, IsTree
      <4>2. Front(next) \in DOMAIN tree /\ tree[Front(next)].kind = "dir"
        BY <2>1, <3>1 DEF IsTree
      <4> QED
        BY <4>1, <4>2 DEF Kinds
    <3>3. PICK n \in Stops(tree, next) : TRUE
      BY <2>3 DEF Real
    <3>4. n \in 1..(far + 1)
      BY <2>1, <3>3, StopsAre
    <3>5. CASE n = far + 1
      <4>1. SubSeq(next, 1, n) = next /\ ~(n < Len(next))
        BY <1>3, <2>1, <3>5, FrontAndLast
      <4> QED
        BY <3>1, <3>2, <3>3, <4>1 DEF Stops
    <3>6. CASE n = far
      <4>1. SubSeq(next, 1, n) = SubSeq(path, 1, far)
        BY <1>3, <2>1, <3>6, FirstOfFirst DEF Paths
      <4>2. SubSeq(next, 1, n) \in DOMAIN tree /\ tree[SubSeq(next, 1, n)].kind = "dir"
        BY <2>1, <3>2, <4>1
      <4> QED
        BY <3>3, <4>2 DEF Stops
    <3>7. CASE n < far
      <4>1. far \in (n + 1)..Len(next) /\ far \in 0..(far + 1)
        BY <1>3, <2>1, <3>4, <3>7
      <4>2. n \in Stops(tree, SubSeq(next, 1, far))
        BY <2>1, <3>3, <4>1, StopsAre
      <4>3. SubSeq(next, 1, far) = SubSeq(path, 1, far)
        BY <2>1, <4>1, FirstOfFirst DEF Paths
      <4> QED
        BY <1>3, <4>2, <4>3 DEF Real
    <3> QED
      BY <1>3, <3>4, <3>5, <3>6, <3>7
  <2> HIDE DEF next
  <2>6. ASSUME NEW n \in (far + 1)..Len(path) PROVE ~There(tree, SubSeq(path, 1, n)) /\ SubSeq(path, 1, n) \notin DOMAIN tree
    <3> DEFINE here == SubSeq(path, 1, n)
    <3>1. n \in 0..Len(path) /\ far + 1 \in 0..n /\ far \in 0..n
      BY <1>1, <1>3, <2>1
    <3>2. here \in Paths /\ Len(here) = n /\ SubSeq(here, 1, far + 1) = next /\ SubSeq(here, 1, far) = SubSeq(path, 1, far)
      BY <1>1, <3>1, FirstOfFirst DEF next, Paths
    <3> HIDE DEF here
    <3>3. here \notin DOMAIN tree
      BY <2>5, <3>1, <3>2, NothingBelowNothing
    <3>4. ~Real(tree, here)
      BY <3>2, <3>3, StopsAre
    <3>5. PICK first \in Stops(tree, here) :
             /\ \A m \in Stops(tree, here) : first <= m
             /\ LET up == SubSeq(here, 1, first)
                IN  Follow(tree, here) = IF up \in DOMAIN tree /\ tree[up].kind = "link"
                                         THEN tree[up].to \o SubSeq(here, first + 1, Len(here))
                                         ELSE here
      BY <3>2, <3>4, FollowIs
    <3>6. first \in 1..n /\ first \in 0..n
      BY <3>2, <3>5, StopsAre
    <3>7. ~(SubSeq(here, 1, first) \in DOMAIN tree /\ tree[SubSeq(here, 1, first)].kind = "link")
      <4>1. SUFFICES ASSUME SubSeq(here, 1, first) \in DOMAIN tree, tree[SubSeq(here, 1, first)].kind = "link" PROVE FALSE
        OBVIOUS
      <4>2. CASE first >= far + 1
        <5> DEFINE up == SubSeq(here, 1, first)
        <5>1. up \in Paths /\ Len(up) = first /\ far + 1 \in 0..first
          BY <1>3, <3>2, <3>6, <4>2, FrontAndLast
        <5>2. SubSeq(up, 1, far + 1) = next
          BY <3>2, <3>6, <5>1, FirstOfFirst DEF Paths
        <5> QED
          BY <2>5, <4>1, <5>1, <5>2, NothingBelowNothing
      <4>3. CASE first < far
        <5>1. far \in (first + 1)..Len(here)
          BY <1>3, <3>1, <3>2, <3>6, <4>3
        <5>2. first \in Stops(tree, SubSeq(here, 1, far))
          BY <3>2, <3>5, <5>1, StopsAre
        <5> QED
          BY <1>3, <3>2, <5>2 DEF Real
      <4>4. CASE first = far
        <5>1. SubSeq(path, 1, far) \in Paths
          BY <1>1, <1>3
        <5>2. tree[SubSeq(path, 1, far)].kind \in {"dir", "file"}
          BY <1>3, <5>1, StopsAre
        <5> QED
          BY <3>2, <4>1, <4>4, <5>2
      <4> QED
        BY <1>3, <3>6, <4>2, <4>3, <4>4
    <3>8. Follow(tree, here) = here
      BY <3>5, <3>7
    <3>9. ~There(tree, here)
      BY <3>2, <3>4, <3>8, CanonicalIs
    <3> QED
      BY <3>3, <3>9 DEF here
  <2>7. There(tree, SubSeq(path, 1, far)) /\ Canonical(tree, SubSeq(path, 1, far)).path = SubSeq(path, 1, far)
    <3>1. SubSeq(path, 1, far) \in Paths
      BY <1>1, <1>3
    <3>2. \A p : Here(p).path = p
      BY DEF Here
    <3> QED
      BY <1>3, <3>1, <3>2, CanonicalIs
  <2>8. Len(path) \in (far + 1)..Len(path)
    BY <1>1, <2>1
  <2>9. ~There(tree, path) /\ path \notin DOMAIN tree
    BY <1>1, <2>6, <2>8
  <2>10. KindOfPath(tree, path) = "missing"
    <3>0. path # <<>>
      BY <1>1, <2>1, EmptySeq
    <3>1. path # <<>> /\ Front(path) = SubSeq(path, 1, Len(path) - 1) /\ Front(path) \in Paths
      BY <3>0, FrontAndLast
    <3>2. OwnPath(tree, path) = path
      <4>1. CASE far = Len(path) - 1
        BY <1>3, <3>1, <4>1, OwnPathIs
      <4>2. CASE far # Len(path) - 1
        <5>1. Len(path) - 1 \in (far + 1)..Len(path)
          BY <1>3, <1>5, <1>1a, <4>2
        <5> QED
          BY <2>6, <3>1, <5>1, OwnPathIs
      <4> QED
        BY <4>1, <4>2
    <3> QED
      BY <2>9, <3>2 DEF KindOfPath, KindAt
  <2> DEFINE thereLen == CHOOSE n \in 0..Len(path) :
                             /\ There(tree, SubSeq(path, 1, n))
                             /\ \A m \in (n + 1)..Len(path) : ~There(tree, SubSeq(path, 1, m))
  <2>11. thereLen = far
    <3>1. /\ thereLen \in 0..Len(path) /\ There(tree, SubSeq(path, 1, thereLen))
          /\ \A m \in (thereLen + 1)..Len(path) : ~There(tree, SubSeq(path, 1, m))
      BY <1>3, <2>6, <2>7
    <3> HIDE DEF thereLen
    <3>2. ~(thereLen > far)
      <4>1. thereLen > far => thereLen \in (far + 1)..Len(path)
        BY <1>1, <1>3, <3>1
      <4> QED
        BY <2>6, <3>1, <4>1
    <3>3. ~(thereLen < far)
      <4>1. thereLen < far => far \in (thereLen + 1)..Len(path)
        BY <1>1, <1>3, <3>1
      <4> QED
        BY <2>7, <3>1, <4>1
    <3> QED
      BY <1>3, <3>1, <3>2, <3>3
  <2> HIDE DEF thereLen
  <2>12. Finalise(tree, path) = Here(Canonical(tree, SubSeq(path, 1, thereLen)).path \o SubSeq(path, thereLen + 1, Len(path)))
    BY <2>10 DEF Finalise, thereLen
  <2>13. SubSeq(path, 1, far) \o SubSeq(path, far + 1, Len(path)) = path
    BY <1>3, SplitAt DEF Paths
  <2> QED
    BY <2>7, <2>9, <2>11, <2>12, <2>13
<1> QED
  BY <1>4, <1>5

\* What a name says is a path, whatever "." and ".." are in it.
LEMMA NormalIsPath ==
    ASSUME NEW path \in Paths
    PROVE  LexicalNormalize(path) \in Paths
<1> DEFINE N == Len(path)
           Normal(done, name) == CASE name = ".." -> IF done = <<>> THEN <<>> ELSE Front(done)
                                   [] name = "."  -> done
                                   [] OTHER       -> Append(done, name)
           step == [p \in (1..N) \X Paths |-> Normal(p[2], path[p[1]])]
           body(g) == [s \in SUBSET (DOMAIN path) |-> IF s = {} THEN <<>> ELSE Normal(g[s \ {Max(s)}], path[Max(s)])]
           iter == CHOOSE g : g = body(g)
<1>1. N \in Nat /\ DOMAIN path = 1..N /\ \A i \in 1..N : path[i] \in STRING
  BY LenProperties DEF Paths
<1>2. <<>> \in Paths
  BY EmptySeq DEF Paths
<1>3. \A done \in Paths, name \in STRING : Normal(done, name) \in Paths
  <2> SUFFICES ASSUME NEW done \in Paths, NEW name \in STRING PROVE Normal(done, name) \in Paths
    OBVIOUS
  <2>1. done # <<>> => Front(done) \in Paths
    BY FrontAndLast
  <2>2. Append(done, name) \in Paths
    BY AppendProperties DEF Paths
  <2> QED
    BY <1>2, <2>1, <2>2
<1>4. LexicalNormalize(path) = iter[DOMAIN path]
  BY DEF LexicalNormalize, FoldLeft, MapThenFoldSet
<1> HIDE DEF Normal
<1>5. step \in [(1..N) \X Paths -> Paths]
  BY <1>1, <1>3
<1>6. \E g : g = body(g)
  <2>1. PICK g \in [SUBSET (1..N) -> Paths] : IsFold(g, N, <<>>, step)
    <3> HIDE DEF step
    <3> QED
      BY <1>1, <1>2, <1>5, FoldExists
  <2>2. ASSUME NEW s \in SUBSET (1..N), s # {}
        PROVE  step[<<Max(s), g[s \ {Max(s)}]>>] = Normal(g[s \ {Max(s)}], path[Max(s)])
    <3>1. g[s \ {Max(s)}] \in Paths /\ Max(s) \in 1..N
      BY <1>1, <2>1, <2>2, MaxIsIn
    <3> QED
      BY <3>1
  <2> HIDE DEF step
  <2>3. g = body(g)
    BY <1>1, <2>1, <2>2 DEF IsFold
  <2> QED
    BY <2>3
<1>7. iter = body(iter)
  BY <1>6
<1>8. Follows(iter, N, <<>>, step, Paths)
  <2> HIDE DEF iter
  <2>1. iter[{}] = <<>>
    BY <1>7
  <2>2. ASSUME NEW s \in SUBSET (1..N), s # {}, iter[s \ {Max(s)}] \in Paths
        PROVE  iter[s] = step[<<Max(s), iter[s \ {Max(s)}]>>]
    <3>1. Max(s) \in 1..N
      BY <1>1, <2>2, MaxIsIn
    <3>2. step[<<Max(s), iter[s \ {Max(s)}]>>] = Normal(iter[s \ {Max(s)}], path[Max(s)])
      BY <2>2, <3>1
    <3>3. iter[s] = Normal(iter[s \ {Max(s)}], path[Max(s)])
      <4>1. s \in SUBSET (DOMAIN path)
        BY <1>1
      <4> HIDE DEF step, N
      <4> QED
        BY <1>7, <2>2, <4>1
    <3> QED
      BY <3>2, <3>3
  <2> QED
    BY <2>1, <2>2 DEF Follows
<1> HIDE DEF iter, body
<1>9. StepByStep(iter, N, <<>>, step, Paths)
  <2> HIDE DEF step, N
  <2> QED
    BY <1>1, <1>2, <1>5, <1>8, FoldSteps
<1> QED
  BY <1>1, <1>4, <1>9 DEF StepByStep

\* What a link is refused with.
LEMMA LinkErrorIs ==
    ASSUME NEW tree, NEW path
    PROVE  /\ LinkError(tree, path).why \in {"SymlinkLoop", "SymlinkRejected"}
           /\ LinkError(tree, path).path = <<>>
<1>1. \A why : Not(why).why = why /\ Not(why).path = <<>>
  BY DEF Not
<1> QED
  BY <1>1 DEF LinkError

\* What is there, or will be, is a path.
LEMMA FinaliseIs ==
    ASSUME NEW tree, IsTree(tree), NEW path \in Paths
    PROVE  /\ Finalise(tree, path).path \in Paths
           /\ Finalise(tree, path).why \in {"none", "missing", "SymlinkLoop", "SymlinkRejected"}
<1> DEFINE Is(n) == /\ There(tree, SubSeq(path, 1, n))
                    /\ \A m \in (n + 1)..Len(path) : ~There(tree, SubSeq(path, 1, m))
           thereLen == CHOOSE n \in 0..Len(path) : Is(n)
<1>1. Len(path) \in Nat
  BY FrontAndLast
<1>2. thereLen \in 0..Len(path)
  <2> DEFINE S == {n \in 0..Len(path) : There(tree, SubSeq(path, 1, n))}
  <2>1. 0 \in S
    <3>1. <<>> \in Paths /\ Len(<<>>) = 0
      BY EmptySeq DEF Paths
    <3>2. Real(tree, <<>>)
      BY <3>1 DEF Real, Stops
    <3>3. SubSeq(path, 1, 0) = <<>>
      BY SubSeqEmpty
    <3>4. There(tree, <<>>) /\ 0 \in 0..Len(path)
      BY <1>1, <3>1, <3>2, CanonicalIs
    <3> QED
      BY <3>3, <3>4
  <2>2. S \subseteq 0..Len(path)
    OBVIOUS
  <2> HIDE DEF S
  <2>3. PICK n \in S : \A m \in S : m <= n
    BY <1>1, <2>1, <2>2, LastExists
  <2>4. n \in 0..Len(path) /\ \A m \in (n + 1)..Len(path) : m \in 0..Len(path) /\ ~(m <= n)
    BY <1>1, <2>2, <2>3
  <2>5. Is(n)
    BY <2>3, <2>4 DEF S
  <2> QED
    BY <2>4, <2>5
<1>3. /\ SubSeq(path, 1, thereLen) \in Paths /\ SubSeq(path, thereLen + 1, Len(path)) \in Paths
  <2> HIDE DEF thereLen
  <2> QED
    BY <1>2, SplitAt DEF Paths
<1>4. \A p : Here(p).path = p /\ Here(p).why = "none"
  BY DEF Here
<1>5. <<>> \in Paths
  BY EmptySeq DEF Paths
<1>6. Canonical(tree, SubSeq(path, 1, thereLen)).path \in Paths
  <2> HIDE DEF thereLen
  <2> QED
    BY <1>3, CanonicalIs
<1>7. CASE KindOfPath(tree, path) = "link"
  <2>1. Finalise(tree, path) = LinkError(tree, path)
    BY <1>7 DEF Finalise
  <2> QED
    BY <1>5, <2>1, LinkErrorIs
<1>8. CASE KindOfPath(tree, path) \in {"dir", "file"}
  <2>1. Finalise(tree, path) = Canonical(tree, path)
    BY <1>8 DEF Finalise
  <2> QED
    BY <2>1, CanonicalIs
<1>9. CASE KindOfPath(tree, path) \notin {"link", "dir", "file"}
  <2>1. Finalise(tree, path) = Here(Canonical(tree, SubSeq(path, 1, thereLen)).path \o SubSeq(path, thereLen + 1, Len(path)))
    BY <1>9 DEF Finalise
  <2> HIDE DEF thereLen
  <2>2. Canonical(tree, SubSeq(path, 1, thereLen)).path \o SubSeq(path, thereLen + 1, Len(path)) \in Paths
    BY <1>3, <1>6, ConcatProperties DEF Paths
  <2> QED
    BY <1>4, <2>1, <2>2
<1> QED
  BY <1>7, <1>8, <1>9

\* What is admitted below a root, and can be opened, is what was named.
LEMMA AdmittedIs ==
    ASSUME NEW tree, IsTree(tree), NEW root \in Paths, Real(tree, root) \/ ~There(tree, root), NEW rel \in Paths
    PROVE  /\ Admitted(tree, root, rel).why \in {"none", "missing", "OutsideRoot", "SymlinkLoop", "SymlinkRejected"}
           /\ Admitted(tree, root, rel).why = "none" /\ There(tree, Admitted(tree, root, rel).path) =>
                 Admitted(tree, root, rel) = Here(root \o rel) /\ Real(tree, root \o rel)
<1> DEFINE links == LinkBelow(tree, root, rel)
           path == root \o rel
           final == Finalise(tree, path)
<1>1. path \in Paths /\ Len(path) = Len(root) + Len(rel) /\ Len(root) \in Nat /\ Len(rel) \in Nat
  BY FirstOfBoth DEF Paths
<1>2. \A n \in 0..Len(rel) : SubSeq(path, 1, Len(root) + n) = root \o SubSeq(rel, 1, n)
  <2>1. root \in Seq(STRING) /\ rel \in Seq(STRING)
    BY DEF Paths
  <2>2. \A n \in 0..Len(rel) : SubSeq(root \o rel, 1, Len(root) + n) = root \o SubSeq(rel, 1, n)
    BY <2>1, FirstOfBoth
  <2> QED
    BY <2>2
<1>3. SubSeq(path, 1, Len(root)) = root
  <2>1. Len(root) \in 0..Len(root)
    BY <1>1
  <2>2. SubSeq(path, 1, Len(root)) = SubSeq(root, 1, Len(root))
    BY <2>1, FirstOfBoth, Zenon DEF Paths
  <2> QED
    BY <2>2, SubSeqFull DEF Paths
<1> HIDE DEF path
<1>4. CASE links # {}
  <2>1. \E p : Admitted(tree, root, rel) = LinkError(tree, p)
    BY <1>4 DEF Admitted
  <2> QED
    BY <2>1, LinkErrorIs
<1>5. CASE links = {} /\ final.why = "none" /\ ~Within(final.path, root)
  <2>1. Admitted(tree, root, rel) = Not("OutsideRoot")
    BY <1>5 DEF Admitted, path
  <2> QED
    BY <2>1 DEF Not
<1>6. CASE links = {} /\ ~(final.why = "none" /\ ~Within(final.path, root))
  <2>1. Admitted(tree, root, rel) = final
    BY <1>6 DEF Admitted, path
  <2>2. final.path \in Paths /\ final.why \in {"none", "missing", "SymlinkLoop", "SymlinkRejected"}
    BY <1>1, FinaliseIs
  <2>3. ASSUME final.why = "none", There(tree, final.path) PROVE final = Here(path) /\ Real(tree, path)
    <3>1. Within(final.path, root)
      BY <1>6, <2>3
    <3>2. final.path = root \o Below(final.path, root) /\ Below(final.path, root) \in Paths
      BY <2>2, <3>1, WithinIs DEF Paths
    <3>3. Real(tree, root)
      BY <2>3, <3>2, ThereBelow
    <3>4. ASSUME NEW n \in (Len(root) + 1)..Len(path) PROVE KindOfPath(tree, SubSeq(path, 1, n)) # "link"
      <4>1. n - Len(root) \in 1..Len(rel) /\ n - Len(root) \in 0..Len(rel) /\ Len(root) + (n - Len(root)) = n
        BY <1>1
      <4>2. SubSeq(path, 1, n) = root \o SubSeq(rel, 1, n - Len(root))
        BY <1>2, <4>1
      <4> QED
        BY <1>6, <4>1, <4>2 DEF LinkBelow
    <3>5. Len(root) \in 0..Len(path)
      BY <1>1
    <3>6. Finalise(tree, path) = Here(path) /\ (There(tree, path) => Real(tree, path))
      BY <1>1, <1>3, <3>3, <3>4, <3>5, NoLinkLeadsElsewhere
    <3> QED
      BY <2>3, <3>6 DEF Here
  <2> QED
    BY <2>1, <2>2, <2>3 DEF path
<1> QED
  BY <1>4, <1>5, <1>6

\* The part of a path below a root is a path, and if the root begins the path, the rest of it.
LEMMA RelativeIs ==
    ASSUME NEW tree, IsTree(tree), NEW root \in Paths, NEW path \in Paths
    PROVE  /\ RelativeUnderRoot(tree, root, path).path \in Paths
           /\ RelativeUnderRoot(tree, root, path).why \in {"none", "OutsideRoot"}
           /\ Within(path, root) => root \o RelativeUnderRoot(tree, root, path).path = path
<1>1. \A p, why : Here(p).path = p /\ Here(p).why = "none" /\ Not(why).path = <<>> /\ Not(why).why = why
  BY DEF Here, Not
<1>2. <<>> \in Paths
  BY EmptySeq DEF Paths
<1>3. CASE Within(path, root)
  <2>1. path = root \o Below(path, root) /\ Below(path, root) \in Paths
    BY <1>3, WithinIs DEF Paths
  <2>2. RelativeUnderRoot(tree, root, path) = Here(Below(path, root))
    BY <1>3 DEF RelativeUnderRoot
  <2> QED
    BY <1>1, <2>1, <2>2
<1>4. CASE ~Within(path, root)
  <2> DEFINE probe == NearestThere(tree, path)
             suffix == Below(path, probe)
             isLink == KindOfPath(tree, probe) = "link"
             base == IF isLink THEN Front(probe) ELSE probe
             kept == IF isLink THEN <<Last(probe)>> ELSE <<>>
             whole == Canonical(tree, base).path \o kept \o suffix
  <2>1. probe \in Paths /\ suffix \in Paths
    <3> DEFINE Is(n) == /\ KindOfPath(tree, SubSeq(path, 1, n)) # "missing"
                        /\ \A m \in (n + 1)..Len(path) : KindOfPath(tree, SubSeq(path, 1, m)) = "missing"
               near == CHOOSE n \in 0..Len(path) : Is(n)
               S == {n \in 0..Len(path) : KindOfPath(tree, SubSeq(path, 1, n)) # "missing"}
    <3>1. Len(path) \in Nat
      BY FrontAndLast
    <3>2. 0 \in S
      <4>1. SubSeq(path, 1, 0) = <<>>
        BY SubSeqEmpty
      <4>2. KindOfPath(tree, <<>>) = "dir" /\ 0 \in 0..Len(path)
        BY <3>1, OwnPathIs
      <4> QED
        BY <4>1, <4>2
    <3>3. S \subseteq 0..Len(path)
      OBVIOUS
    <3> HIDE DEF S
    <3>4. PICK n \in S : \A m \in S : m <= n
      BY <3>1, <3>2, <3>3, LastExists
    <3>5. n \in 0..Len(path) /\ \A m \in (n + 1)..Len(path) : m \in 0..Len(path) /\ ~(m <= n)
      BY <3>1, <3>3, <3>4
    <3>6. Is(n)
      BY <3>4, <3>5 DEF S
    <3>7. near \in 0..Len(path)
      BY <3>5, <3>6
    <3>8. probe = SubSeq(path, 1, near)
      BY DEF NearestThere
    <3> HIDE DEF near, probe
    <3>9. probe \in Paths /\ Len(probe) = near /\ SubSeq(path, near + 1, Len(path)) \in Paths
      BY <3>7, <3>8, SplitAt DEF Paths
    <3> QED
      BY <3>9 DEF Below
  <2> HIDE DEF probe, suffix
  <2>2. base \in Paths /\ kept \in Paths
    <3>1. CASE isLink
      <4>1. probe # <<>>
        BY <3>1, OwnPathIs
      <4>2. Front(probe) \in Paths /\ Last(probe) \in STRING
        BY <2>1, <4>1, FrontAndLast
      <4> QED
        BY <3>1, <4>2 DEF Paths
    <3>2. CASE ~isLink
      BY <1>2, <2>1, <3>2
    <3> QED
      BY <3>1, <3>2
  <2> HIDE DEF base, kept
  <2>3. Canonical(tree, base).path \in Paths
    BY <2>2, CanonicalIs
  <2>4. whole \in Paths
    <3>1. Canonical(tree, base).path \o kept \in Paths
      BY <2>2, <2>3, ConcatProperties DEF Paths
    <3> QED
      BY <2>1, <3>1, ConcatProperties DEF Paths
  <2> HIDE DEF whole
  <2>5. Within(whole, root) => Below(whole, root) \in Paths
    BY <2>4, WithinIs DEF Paths
  <2>6. \/ Rebased(tree, root, probe, suffix) = Not("OutsideRoot")
        \/ Within(whole, root) /\ Rebased(tree, root, probe, suffix) = Here(Below(whole, root))
    BY DEF Rebased, whole, base, kept
  <2>7. RelativeUnderRoot(tree, root, path) = Rebased(tree, root, probe, suffix)
    BY <1>4 DEF RelativeUnderRoot, probe, suffix
  <2> QED
    BY <1>1, <1>2, <1>4, <2>5, <2>6, <2>7
<1> QED
  BY <1>3, <1>4

\* What a scope is made of: what the roots really are, or how they were named.
LEMMA ScopeIs ==
    ASSUME NEW tree, IsTree(tree), NEW roots \in Seq(Paths)
    PROVE  /\ NewScope(tree, roots) \in Seq(Paths) /\ DOMAIN NewScope(tree, roots) = DOMAIN roots
           /\ \A i \in DOMAIN NewScope(tree, roots) :
                 Real(tree, NewScope(tree, roots)[i]) \/ ~There(tree, NewScope(tree, roots)[i])
<1> DEFINE scope == NewScope(tree, roots)
<1>1. DOMAIN roots = 1..Len(roots) /\ Len(roots) \in Nat /\ \A i \in DOMAIN roots : roots[i] \in Paths
  BY LenProperties
<1>2. scope = [i \in DOMAIN roots |-> IF There(tree, roots[i]) THEN Canonical(tree, roots[i]).path ELSE roots[i]]
  BY DEF NewScope
<1> HIDE DEF scope
<1>3. \A i \in DOMAIN roots : scope[i] \in Paths /\ (Real(tree, scope[i]) \/ ~There(tree, scope[i]))
  BY <1>1, <1>2, CanonicalIs
<1>4. scope \in [1..Len(roots) -> Paths]
  BY <1>1, <1>2, <1>3
<1>5. scope \in Seq(Paths)
  BY <1>1, <1>4, SeqDef
<1> QED
  BY <1>2, <1>3, <1>5 DEF scope

\* What is answered is what one of the roots answers.
LEMMA ResolvedIs ==
    ASSUME NEW tree, IsTree(tree), NEW roots \in Seq(Paths), NEW name \in PaNames \cup {Unnamed},
           \A i \in DOMAIN roots : Real(tree, roots[i]) \/ ~There(tree, roots[i])
    PROVE  /\ ResolveReadPath(tree, roots, name).why \in
                 {"none", "missing", "EmptyPath", "NoRoots", "OutsideRoot", "SymlinkRejected", "SymlinkLoop"}
           /\ ResolveReadPath(tree, roots, name).why = "none" =>
                 /\ Lexical(roots, name) \in Paths
                 /\ \E i \in DOMAIN roots :
                       ResolveReadPath(tree, roots, name) = ResolveUnderRoot(tree, roots[i], Lexical(roots, name))
<1> DEFINE answer(i) == ResolveUnderRoot(tree, roots[i], Lexical(roots, name))
           answers == [i \in DOMAIN roots |-> answer(i)]
           having == {i \in DOMAIN roots : answers[i].why = "none"}
<1>1. CASE name = Unnamed \/ roots = <<>>
  BY <1>1 DEF ResolveReadPath, Not
<1>2. CASE name # Unnamed /\ roots # <<>>
  <2>1. DOMAIN roots = 1..Len(roots) /\ Len(roots) \in Nat /\ \A i \in DOMAIN roots : roots[i] \in Paths
    BY LenProperties
  <2>2. Len(roots) \in DOMAIN roots /\ 1 \in DOMAIN roots
    BY <1>2, <2>1, EmptySeq
  <2>3. Lexical(roots, name) \in Paths
    <3>1. name.absolute \in BOOLEAN /\ name.names \in Paths
      BY <1>2, PathAssumption
    <3>2. roots[1] \o name.names \in Paths
      BY <2>1, <2>2, <3>1, ConcatProperties DEF Paths
    <3> QED
      BY <3>1, <3>2, NormalIsPath DEF Lexical
  <2>4. \A i \in DOMAIN roots :
           answer(i).why \in {"none", "missing", "OutsideRoot", "SymlinkRejected", "SymlinkLoop"}
    <3> SUFFICES ASSUME NEW i \in DOMAIN roots
                 PROVE  answer(i).why \in {"none", "missing", "OutsideRoot", "SymlinkRejected", "SymlinkLoop"}
      OBVIOUS
    <3> DEFINE rel == RelativeUnderRoot(tree, roots[i], Lexical(roots, name))
    <3>1. rel.path \in Paths /\ rel.why \in {"none", "OutsideRoot"}
      BY <2>1, <2>3, RelativeIs
    <3>2. Admitted(tree, roots[i], rel.path).why \in {"none", "missing", "OutsideRoot", "SymlinkLoop", "SymlinkRejected"}
      <4> HIDE DEF rel
      <4> QED
        BY <2>1, <3>1, AdmittedIs
    <3> QED
      BY <3>1, <3>2 DEF ResolveUnderRoot
  <2>5. ResolveReadPath(tree, roots, name) =
           IF having = {} THEN Last(answers) ELSE answers[CHOOSE i \in having : \A j \in having : i <= j]
    BY <1>2 DEF ResolveReadPath, FirstOf
  <2>6. \E i \in DOMAIN roots : ResolveReadPath(tree, roots, name) = answer(i)
    <3>1. CASE having = {}
      <4>1. Len(answers) = Len(roots)
        <5>1. answers \in [1..Len(roots) -> {answer(i) : i \in DOMAIN roots}]
          BY <2>1
        <5>2. answers \in Seq({answer(i) : i \in DOMAIN roots}) /\ DOMAIN answers = 1..Len(roots)
          BY <2>1, <5>1, SeqDef
        <5> HIDE DEF answers
        <5>3. Len(answers) \in Nat /\ 1..Len(answers) = 1..Len(roots)
          BY <5>2, LenProperties
        <5> QED
          BY <2>1, <5>3
      <4> QED
        BY <2>2, <2>5, <3>1, <4>1 DEF Last
    <3>2. CASE having # {}
      <4>1. having \subseteq Nat /\ having \subseteq DOMAIN roots
        BY <2>1
      <4>2. \E i \in having : \A j \in having : i <= j
        <5> HIDE DEF having
        <5> QED
          BY <3>2, <4>1, LeastExists
      <4>3. (CHOOSE i \in having : \A j \in having : i <= j) \in DOMAIN roots
        BY <4>1, <4>2
      <4> QED
        BY <2>5, <3>2, <4>3
    <3> QED
      BY <3>1, <3>2
  <2> QED
    BY <2>3, <2>4, <2>6
<1> QED
  BY <1>1, <1>2

-----------------------------------------------------------------------------
\* While nothing changes, what was resolved is what one root of the scope answers, and every
\* root is what it was found to be.
PaInv ==
    /\ PaTypeOK
    /\ paStage = "idle" => ~paChanged
    /\ paStage \in {"resolved", "over"} /\ ~paChanged =>
          /\ paGot.why = "none" /\ Lexical(paRoots, paName) \in Paths
          /\ \A i \in DOMAIN paRoots : Real(paTree, paRoots[i]) \/ ~There(paTree, paRoots[i])
          /\ \E i \in DOMAIN paRoots : paGot = ResolveUnderRoot(paTree, paRoots[i], Lexical(paRoots, paName))
    /\ ReadStaysInside

\* A scope is made, and a name resolved.
LEMMA PaResolveKeeps ==
    ASSUME PaInv, NEW tree \in PaTrees, NEW roots \in PaRoots, NEW name \in PaNames \cup {Unnamed},
           PaResolve(tree, roots, name)
    PROVE  PaInv'
<1>1. IsTree(tree) /\ roots \in Seq(Paths)
  BY PathAssumption
<1> DEFINE scope == NewScope(tree, roots)
<1>2. /\ paTree' = tree /\ paName' = name /\ paRoots' = scope /\ paGot' = ResolveReadPath(tree, scope, name)
      /\ paStage' = (IF paGot'.why = "none" THEN "resolved" ELSE "refused")
      /\ paChanged' = paChanged /\ ~paChanged
  BY DEF PaResolve, PaInv
<1>3. /\ scope \in Seq(Paths)
      /\ \A i \in DOMAIN scope : Real(tree, scope[i]) \/ ~There(tree, scope[i])
  BY <1>1, ScopeIs
<1> HIDE DEF scope
<1> DEFINE got == ResolveReadPath(tree, scope, name)
<1>4. got.why \in {"none", "missing", "EmptyPath", "NoRoots", "OutsideRoot", "SymlinkRejected", "SymlinkLoop"}
  BY <1>1, <1>3, ResolvedIs
<1>5. got.why = "none" =>
         /\ Lexical(scope, name) \in Paths
         /\ \E i \in DOMAIN scope : got = ResolveUnderRoot(tree, scope[i], Lexical(scope, name))
  BY <1>1, <1>3, ResolvedIs
<1> HIDE DEF got
<1>6. paGot' = got
  BY <1>2 DEF got
<1>7. PaTypeOK'
  BY <1>2, <1>3, <1>4, <1>6 DEF PaTypeOK
<1>8. paStage' # "over" /\ paStage' # "idle" /\ (paStage' = "resolved" => got.why = "none")
  BY <1>2, <1>6
<1>9. ReadStaysInside'
  BY <1>8 DEF ReadStaysInside
<1> QED
  BY <1>2, <1>3, <1>5, <1>6, <1>7, <1>8, <1>9 DEF PaInv

\* The file is opened.
LEMMA PaReadKeeps ==
    ASSUME PaInv, PaRead
    PROVE  PaInv'
<1>1. /\ paStage = "resolved" /\ paStage' = "over" /\ paOpened' = Canonical(paTree, paGot.path)
      /\ UNCHANGED <<paTree, paRoots, paName, paGot, paChanged>>
  BY DEF PaRead
<1>2. PaTypeOK'
  BY <1>1 DEF PaInv, PaTypeOK
<1>3. ASSUME ~paChanged, paOpened'.why = "none"
      PROVE  /\ \E i \in DOMAIN paRoots : Within(paOpened'.path, paRoots[i])
             /\ paOpened' = paGot
             /\ \A i \in DOMAIN paRoots : Within(Lexical(paRoots, paName), paRoots[i]) =>
                    \/ paOpened'.path = Lexical(paRoots, paName)
                    \/ \E j \in DOMAIN paRoots \ {i} : Within(paOpened'.path, paRoots[j])
  <2> DEFINE lexical == Lexical(paRoots, paName)
  <2>1. /\ IsTree(paTree) /\ lexical \in Paths /\ paGot.why = "none"
        /\ \A i \in DOMAIN paRoots : paRoots[i] \in Paths /\ (Real(paTree, paRoots[i]) \/ ~There(paTree, paRoots[i]))
    <3>1. paTree \in PaTrees /\ paRoots \in Seq(Paths)
      BY DEF PaInv, PaTypeOK
    <3>2. IsTree(paTree) /\ \A i \in DOMAIN paRoots : paRoots[i] \in Paths
      BY <3>1, PathAssumption, LenProperties
    <3> QED
      BY <1>1, <1>3, <3>2 DEF PaInv
  <2>2. PICK k \in DOMAIN paRoots : paGot = ResolveUnderRoot(paTree, paRoots[k], lexical)
    BY <1>1, <1>3 DEF PaInv
  <2> HIDE DEF lexical
  <2> DEFINE root == paRoots[k]
             rel == RelativeUnderRoot(paTree, root, lexical)
  <2>3. root \in Paths /\ (Real(paTree, root) \/ ~There(paTree, root))
    BY <2>1
  <2>4. paGot = ResolveUnderRoot(paTree, root, lexical)
    BY <2>2
  <2> HIDE DEF root
  <2>5. rel.path \in Paths /\ (Within(lexical, root) => root \o rel.path = lexical)
    BY <2>1, <2>3, RelativeIs
  <2>6. paGot = Admitted(paTree, root, rel.path)
    BY <2>1, <2>4 DEF ResolveUnderRoot
  <2>7. There(paTree, paGot.path)
    BY <1>1, <1>3 DEF There
  <2> HIDE DEF rel
  <2>8. paGot = Here(root \o rel.path) /\ Real(paTree, root \o rel.path)
    BY <2>1, <2>3, <2>5, <2>6, <2>7, AdmittedIs
  <2>9. root \o rel.path \in Paths
    BY <2>3, <2>5, ConcatProperties DEF Paths
  <2>10. paOpened' = paGot /\ paOpened'.path = root \o rel.path
    <3>1. paGot.path = root \o rel.path
      BY <2>8 DEF Here
    <3>2. Canonical(paTree, root \o rel.path) = Here(root \o rel.path)
      BY <2>1, <2>8, <2>9, CanonicalIs
    <3> QED
      BY <1>1, <2>8, <3>1, <3>2
  <2>11. Within(paOpened'.path, root)
    BY <2>3, <2>5, <2>10, WithinIs DEF Paths
  <2>12. ASSUME NEW i \in DOMAIN paRoots, Within(lexical, paRoots[i])
         PROVE  paOpened'.path = lexical \/ \E j \in DOMAIN paRoots \ {i} : Within(paOpened'.path, paRoots[j])
    <3>1. CASE i = k
      BY <2>5, <2>10, <2>12, <3>1 DEF root
    <3>2. CASE i # k
      BY <2>11, <3>2 DEF root
    <3> QED
      BY <3>1, <3>2
  <2> QED
    BY <2>10, <2>11, <2>12 DEF root, lexical
<1>4. ReadStaysInside'
  BY <1>1, <1>3 DEF ReadStaysInside, Lexical
<1> QED
  BY <1>1, <1>2, <1>4 DEF PaInv

\* Somebody else changes the tree.
LEMMA TreeChangesKeeps ==
    ASSUME PaInv, NEW tree \in PaTrees, TreeChanges(tree)
    PROVE  PaInv'
<1>1. /\ paStage = "resolved" /\ paTree' = tree /\ paChanged' = TRUE
      /\ UNCHANGED <<paRoots, paName, paGot, paOpened, paStage>>
  BY DEF TreeChanges
<1>2. PaTypeOK'
  BY <1>1 DEF PaInv, PaTypeOK
<1>3. ReadStaysInside'
  BY <1>1 DEF ReadStaysInside
<1> QED
  BY <1>1, <1>2, <1>3 DEF PaInv

LEMMA PaInitKeeps ==
    ASSUME PaInit
    PROVE  PaInv
<1>1. paTree \in PaTrees
  BY PathAssumption DEF PaInit
<1>2. <<>> \in Seq(Paths)
  BY EmptySeq
<1>3. PaTypeOK
  BY <1>1, <1>2 DEF PaInit, PaTypeOK, Not
<1> QED
  BY <1>3 DEF PaInit, PaInv, ReadStaysInside

LEMMA PaNextKeeps ==
    ASSUME PaInv, [PaNext]_paVars
    PROVE  PaInv'
<1>1. CASE \E tree \in PaTrees, roots \in PaRoots, name \in PaNames \cup {Unnamed} : PaResolve(tree, roots, name)
  BY <1>1, PaResolveKeeps
<1>2. CASE PaRead
  BY <1>2, PaReadKeeps
<1>3. CASE \E tree \in PaTrees : TreeChanges(tree)
  BY <1>3, TreeChangesKeeps
<1>4. CASE UNCHANGED paVars
  <2>1. UNCHANGED <<paTree, paRoots, paName, paGot, paOpened, paStage, paChanged>>
    BY <1>4 DEF paVars
  <2>2. PaTypeOK'
    BY <2>1 DEF PaInv, PaTypeOK
  <2>3. ReadStaysInside'
    BY <2>1 DEF PaInv, ReadStaysInside
  <2> QED
    BY <2>1, <2>2, <2>3 DEF PaInv
<1> QED
  BY <1>1, <1>2, <1>3, <1>4 DEF PaNext

\* Whatever trees, roots and names there are: what a tool opens lies under a root of its
\* scope and is the path that was resolved, and a name below a root is not led elsewhere,
\* as long as nobody changes the tree in between (resolve_read_path).
THEOREM OpenedIsInside == PaSpec => []ReadStaysInside
<1>1. PaInit => PaInv
  BY PaInitKeeps
<1>2. PaInv /\ [PaNext]_paVars => PaInv'
  BY PaNextKeeps
<1>3. PaInv => ReadStaysInside
  BY DEF PaInv
<1> QED
  BY <1>1, <1>2, <1>3, PTL DEF PaSpec

-----------------------------------------------------------------------------
(* What the variables of each part are *)

\* A call of a chain.
LEMMA ChainTyped == ChSpec => []ChTypeOK
<1> DEFINE Results == {Idle, Running} \cup ChainResults
           Named == chResult \in Results
<1>1. ChInit => Named
  BY DEF ChInit
<1>2. ASSUME ChInv, Named, [ChNext]_chVars
      PROVE  Named'
  <2>1. ChInv' /\ chCall \in Calls
    BY <1>2, ChMoves DEF ChInv
  <2>2. Asked \subseteq 1..MaxChain
    <3>1. PICK n \in 0..MaxChain : chCall.clients \in [1..n -> ClientKinds]
      BY <2>1, ChainAssumption DEF Calls
    <3>2. Asked = 1..n
      BY <3>1 DEF Asked
    <3> QED
      BY <3>2, ChainAssumption
  <2>3. /\ \A p \in Asked : End("answer", p) \in Results
        /\ \A e \in Failed : End("error", e) \in Results
        /\ \A of \in SUBSET Asked : End("models", of) \in Results
        /\ \A b \in BOOLEAN : End("known", b) \in Results
        /\ Running \in Results /\ End("error", "Provider") \in Results /\ End("error", "Timeout") \in Results
    <3>1. \A p \in Asked : p \in 1..MaxChain
      BY <2>2
    <3>2. \A of \in SUBSET Asked : of \in SUBSET (1..MaxChain)
      BY <2>2
    <3>3. "Provider" \in Failed /\ "Timeout" \in Failed
      BY DEF Failed, ClientErrors
    <3> QED
      BY <3>1, <3>2, <3>3 DEF ChainResults
  <2> HIDE DEF Results
  <2>4. chLast' \in Failed
    BY <2>1 DEF ChInv
  <2>5. Exhausted \in Results
    <3>1. {p \in Asked : chHeard'[p] \notin Failed} \in SUBSET Asked
      OBVIOUS
    <3> QED
      BY <2>3, <2>4, <3>1 DEF Exhausted
  <2>6. ASSUME NEW p \in Asked, NEW outcome, Hear(p, outcome) PROVE Named'
    BY <2>3, <2>5, <2>6 DEF Hear, IsFinal
  <2>7. CASE \/ AskNext \/ AskAll \/ NobodyToAsk \/ OverallTimesOut \/ UNCHANGED chVars
             \/ \E call \in Calls : ChBegin(call)
    BY <1>2, <2>3, <2>5, <2>7 DEF AskNext, AskAll, NobodyToAsk, OverallTimesOut, ChBegin, chVars
  <2>8. CASE \/ \E p \in Asked, reply \in Replies : ProviderReplies(p, reply)
             \/ \E p \in Asked : ProviderTimesOut(p)
    BY <2>6, <2>8 DEF ProviderReplies, ProviderTimesOut
  <2> QED
    BY <1>2, <2>7, <2>8 DEF ChNext, ChStep
<1>3. ChInv /\ Named => ChTypeOK
  BY DEF ChInv, ChTypeOK
<1> HIDE DEF Named
<1> QED
  BY <1>1, <1>2, <1>3, ChStarts, ChMoves, PTL DEF ChSpec

\* A test of the providers.
LEMMA TestsTyped == PcSpec => []PcTypeOK
<1>1. PcInit => PcTypeOK
  <2> SUFFICES ASSUME PcInit PROVE PcTypeOK
    OBVIOUS
  <2>1. pcKeys \in PcEnvironments
    BY CommandsAssumption DEF PcInit
  <2>2. pcResult = <<>> /\ DOMAIN <<>> = {} /\ pcLeft = {} /\ pcExit = "idle"
    BY DEF PcInit
  <2> QED
    BY <2>1, <2>2 DEF PcTypeOK
<1>2. ASSUME PcTypeOK, [PcNext]_pcVars
      PROVE  PcTypeOK'
  <2>1. ASSUME NEW names \in PcRequests, NEW keys \in PcEnvironments, TestBegins(names, keys) PROVE PcTypeOK'
    <3>1. pcResult' = <<>> /\ DOMAIN <<>> = {} /\ pcKeys' \in PcEnvironments /\ pcExit' \in {"success", "none"}
      BY <2>1 DEF TestBegins
    <3> QED
      BY <3>1 DEF PcTypeOK
  <2>2. ASSUME NEW name \in pcLeft, NEW result \in {"ok", "skipped", "failed"}, TestOne(name, result) PROVE PcTypeOK'
    <3> DEFINE failed == \E p \in DOMAIN pcResult' : pcResult'[p] # "ok"
    <3>1. pcKeys' \in PcEnvironments /\ pcExit' \in {"none", "provider", "success"}
      <4>1. pcExit' = CASE pcLeft' # {} -> "none" [] pcLeft' = {} /\ failed -> "provider" [] OTHER -> "success"
        BY <2>2 DEF TestOne
      <4>2. pcKeys' = pcKeys
        BY <2>2 DEF TestOne
      <4> HIDE DEF failed
      <4> QED
        BY <1>2, <4>1, <4>2 DEF PcTypeOK
    <3> HIDE DEF failed
    <3>2. /\ DOMAIN pcResult' = DOMAIN pcResult \cup {name} /\ pcLeft' = pcLeft \ {name}
          /\ \A p \in DOMAIN pcResult' : pcResult'[p] = IF p = name THEN result ELSE pcResult[p]
      BY <2>2 DEF TestOne
    <3>3. \A p \in DOMAIN pcResult' : pcResult'[p] \in {"ok", "skipped", "failed"}
      BY <1>2, <2>2, <3>2 DEF PcTypeOK
    <3>4. pcLeft' \cap DOMAIN pcResult' = {}
      BY <1>2, <3>2 DEF PcTypeOK
    <3> QED
      BY <3>1, <3>3, <3>4 DEF PcTypeOK
  <2>3. CASE PcStep
    BY <2>2, <2>3 DEF PcStep, TestSkips, TestHears, TestTimesOut
  <2>4. CASE UNCHANGED pcVars
    BY <1>2, <2>4 DEF pcVars, PcTypeOK
  <2> QED
    BY <1>2, <2>1, <2>3, <2>4 DEF PcNext
<1> QED
  BY <1>1, <1>2, PTL DEF PcSpec

\* A run of nuclei.
LEMMA NucleiTyped == NuSpec => []NuTypeOK
<1> DEFINE Typed ==
      /\ nuChild \in {"none", "running", "success", "failure", "killed"}
      /\ nuKiller \in {"none", "armed", "killing", "fired", "dismissed"}
      /\ nuResult.why \in {"none", "ok", "InvalidInput", "ApprovalDenied", "Scan", "Timeout", "ProcessFailed"}
<1>1. NuInit => Typed
  BY DEF NuInit, NoAnswer
<1>2. ASSUME NuInv, Typed, [NuNext]_nuVars
      PROVE  Typed'
  <2>1. nuChild = "running" => nuJob \in NuJobs
    <3>1. ~NoNucleiJob.enabled
      BY DEF NoNucleiJob
    <3>2. nuJob = NoNucleiJob => SaidAtOnce(nuJob) = "ok"
      BY <3>1 DEF SaidAtOnce
    <3>3. nuChild = "running" => nuStage = "waiting"
      BY <1>2 DEF NuInv
    <3>4. nuStage = "waiting" => SaidAtOnce(nuJob) = "none"
      BY <1>2 DEF NuInv
    <3> QED
      BY <1>2, <3>2, <3>3, <3>4 DEF NuInv
  <2>2. CASE ChildExits
    BY <1>2, <2>1, <2>2, NucleiAssumption DEF ChildExits, IsNucleiJob
  <2>3. ASSUME NEW job \in NuJobs, NuBegin(job) PROVE Typed'
    <3>1. nuResult'.why = SaidAtOnce(job)
      BY <2>3 DEF NuBegin, NoAnswer
    <3>2. SaidAtOnce(job) \in {"none", "ok", "InvalidInput", "ApprovalDenied", "Scan"}
      BY DEF SaidAtOnce
    <3> QED
      BY <1>2, <2>3, <3>1, <3>2 DEF NuBegin
  <2>4. CASE ChildWrites \/ TimeIsOver \/ ForceKill \/ Dismissed \/ WaitReturns \/ UNCHANGED nuVars
    BY <1>2, <2>4 DEF ChildWrites, TimeIsOver, ForceKill, Dismissed, WaitReturns, nuVars
  <2>5. CASE NuEnd
    <3>1. Answer.why \in {"Timeout", "ok", "ProcessFailed"}
      BY DEF Answer, NoAnswer
    <3> QED
      BY <1>2, <2>5, <3>1 DEF NuEnd
  <2> QED
    BY <1>2, <2>2, <2>3, <2>4, <2>5 DEF NuNext, NuStep
<1>3. NuInv /\ Typed => NuTypeOK
  BY DEF NuInv, NuTypeOK
<1> HIDE DEF Typed
<1> QED
  BY <1>1, <1>2, <1>3, NuStarts, NuMoves, PTL DEF NuSpec

\* The rows, a run and a delete.
LEMMA StoreTyped == DbSpec => []DbTypeOK
<1>1. ASSUME DbInv PROVE DbTypeOK
  <2>1. \A row \in dbRows : row.key.table \in {"targets", "scans", "findings", "scan_scanner_checkpoints"}
    <3> SUFFICES ASSUME NEW row \in dbRows PROVE row.key.table \in {"targets", "scans", "findings", "scan_scanner_checkpoints"}
      OBVIOUS
    <3>1. IsTarget(row) \/ IsScan(row) \/ IsStoredFinding(row) \/ IsCheckpoint(row)
      BY <1>1 DEF DbInv, RowsInv, IsRow
    <3>2. \E t \in {"targets", "scans", "findings", "scan_scanner_checkpoints"} : \E id : row.key = RowKey(t, id)
      BY <3>1, WrittenRows DEF IsTarget, IsScan, IsStoredFinding, IsFindingOf, IsCheckpoint
    <3> QED
      BY <3>2, KeysDiffer
  <2>2. dbRun.scan \in DbScans \cup {""} /\ DOMAIN dbRun.held \subseteq DOMAIN DbFindings
    <3>1. NoScanRun.held = <<>> /\ DOMAIN NoScanRun.held = {} /\ NoScanRun.scan = ""
      BY DEF NoScanRun
    <3> QED
      BY <1>1, <3>1 DEF DbInv, RunInv
  <2>3. dbDelete.next \in 0..(Len(DeleteStatements) + 1)
    <3>1. NoDelete.next = 0
      BY DEF NoDelete
    <3>2. dbDelete.next \in 0..6
      <4>1. dbDelete = NoDelete \/ dbDelete \in [scan : DbScans, next : 0..6, raced : BOOLEAN]
        BY <1>1 DEF DbInv, DeleteInv
      <4> QED
        BY <3>1, <4>1
    <3> QED
      BY <3>2, Statements
  <2> QED
    BY <1>1, <2>1, <2>2, <2>3 DEF DbInv, RowsInv, Unique, DbTypeOK
<1> QED
  BY <1>1, DbStarts, DbMoves, PTL DEF DbSpec

\* A tool's path.
LEMMA PathsTyped == PaSpec => []PaTypeOK
<1>1. PaInv => PaTypeOK
  BY DEF PaInv
<1> QED
  BY <1>1, PaInitKeeps, PaNextKeeps, PTL DEF PaSpec

\* The files, and who read them last.
LEMMA FilesTyped == CfSpec => []CfTypeOK
<1> DEFINE Typed == cfLast.at \in Places /\ cfEdits \in 0..MaxEdits
<1>0. MaxEdits \in Nat
  BY SettingsAssumption
<1>1. CfInit => Typed
  BY <1>0 DEF CfInit, Nobody, Places
<1>2. ASSUME Typed, [CfNext]_cfVars
      PROVE  Typed'
  <2>1. Nobody.at \in Places
    BY DEF Nobody, Places
  <2>2. CASE WriteDefaults \/ (\E place \in Places : CopyDefaults(place))
             \/ \E place \in Places : \E into \in {Absent, Broken} : Spoil(place, into)
    BY <1>2, <2>1, <2>2 DEF WriteDefaults, CopyDefaults, Spoil
  <2>3. \A cli \in {"given", "local"} : ResolveConfigPath(cli) \in Places
    BY DEF ResolveConfigPath, LocalOrHome, Places
  <2>4. ASSUME NEW key, NEW value, NEW cli \in {"given", "local"}, ConfigSet(cli, key, value) PROVE Typed'
    <3>1. cfLast'.at = ResolveConfigPath(cli)
      BY <2>4 DEF ConfigSet
    <3>2. cfEdits < MaxEdits /\ cfEdits' = cfEdits + 1
      BY <2>4 DEF ConfigSet
    <3> QED
      BY <1>0, <1>2, <2>3, <3>1, <3>2
  <2>5. ASSUME NEW key, NEW value, NEW place \in Places, EditByHand(place, key, value) PROVE Typed'
    BY <1>0, <1>2, <2>1, <2>5 DEF EditByHand
  <2>6. ASSUME NEW command \in {"scan", "config", "validate", "policy", "providers"}, NEW cli \in {"given", "local"},
               Read(command, cli)
        PROVE  Typed'
    <3>1. cfLast'.at = PathFor(command, cli) /\ cfEdits' = cfEdits
      BY <2>6 DEF Read
    <3>2. PathFor(command, cli) \in Places
      BY <2>3 DEF PathFor, LocalOrHome, Places
    <3> QED
      BY <1>2, <3>1, <3>2
  <2>7. CASE UNCHANGED cfVars
    BY <1>2, <2>7 DEF cfVars
  <2> QED
    BY <1>2, <2>2, <2>4, <2>5, <2>6, <2>7 DEF CfNext
<1>3. CfInv /\ Typed => CfTypeOK
  <2> SUFFICES ASSUME CfInv, Typed PROVE CfTypeOK
    OBVIOUS
  <2>1. ASSUME NEW p \in Places, cfFiles[p].is = "document", NEW key \in DOMAIN cfFiles[p].doc
        PROVE  key \in TriedKeys \cup LookedAt
    <3>1. cfFiles[p] = TheDocument(cfWritten[p])
      BY <2>1, WhatIsThere DEF CfInv
    <3> QED
      BY <2>1, <3>1, WhatIsThere DEF CfInv
  <2> QED
    BY <2>1 DEF CfInv, CfTypeOK
<1> HIDE DEF Typed
<1>4. CfInit => CfInv
  <2> SUFFICES ASSUME CfInit PROVE CfInv
    OBVIOUS
  <2>1. \A p \in Places : cfFiles[p] = Absent /\ cfWritten[p] = <<>> /\ DOMAIN cfWritten[p] = {}
    <3>1. DOMAIN <<>> = {}
      OBVIOUS
    <3> QED
      BY <3>1 DEF CfInit
  <2> QED
    BY <2>1 DEF CfInit, CfInv, Nobody, Readers
<1> QED
  BY <1>1, <1>2, <1>3, <1>4, CfMoves, PTL DEF CfSpec

\* A run of vest scan, and the rows of those before it.
SoStatuses == {"running", "completed", "failed"}
SoRecords == [status : SoStatuses, stored : SUBSET SoFindings, frozen : Frozen]
Tellable == {frozen.target : frozen \in Frozen} \X KeysOf(SoFindings)
SoTyped ==
    /\ soRows \in Seq(SoRecords)
    /\ soArgs \in Commands /\ soConfig \in Configs /\ soErrors \subseteq {"Config", "Scan"} /\ soRan \in BOOLEAN
    /\ soFound \subseteq SoFindings /\ soExit \in ExitCodes \cup {"none"} /\ soToldOf \subseteq Tellable

\* The rows with that of a run written, and with one marked running.
Written(row, status, findings) == [soRows EXCEPT ![row].status = status, ![row].stored = findings]
Marked(row) == [soRows EXCEPT ![row].status = "running"]

\* A call is a command line and a configuration.
LEMMA CallsAreCalls == \A call \in SoCalls : call.args \in Commands /\ call.config \in Configs
BY OutcomeAssumption

\* A row that is written is one.
LEMMA RowsTyped ==
    ASSUME soRows \in Seq(SoRecords)
    PROVE  /\ Len(soRows) \in Nat /\ DOMAIN soRows = 1..Len(soRows)
           /\ \A i \in DOMAIN soRows : soRows[i] \in SoRecords /\ Stored(i) \subseteq SoFindings
           /\ \A i \in DOMAIN soRows : Marked(i) \in Seq(SoRecords)
           /\ \A i \in DOMAIN soRows : \A status \in SoStatuses : \A findings \in SUBSET SoFindings :
                  Written(i, status, findings) \in Seq(SoRecords)
           /\ \A row \in SoRecords : Append(soRows, row) \in Seq(SoRecords)
<1>1. Len(soRows) \in Nat /\ DOMAIN soRows = 1..Len(soRows)
  BY LenProperties
<1>2. \A i \in DOMAIN soRows : soRows[i] \in SoRecords
  BY <1>1, ElementOfSeq
<1>3. \A i \in DOMAIN soRows : Stored(i) \subseteq SoFindings
  BY <1>2 DEF Stored, SoRecords
<1>4. ASSUME NEW i \in DOMAIN soRows, NEW row \in SoRecords PROVE [soRows EXCEPT ![i] = row] \in Seq(SoRecords)
  BY <1>1, ExceptSeq
<1>5. ASSUME NEW i \in DOMAIN soRows PROVE Marked(i) \in Seq(SoRecords)
  <2>1. [soRows[i] EXCEPT !.status = "running"] \in SoRecords
    BY <1>2 DEF SoRecords, SoStatuses
  <2> QED
    BY <1>4, <2>1 DEF Marked
<1>7. ASSUME NEW i \in DOMAIN soRows, NEW status \in SoStatuses, NEW findings \in SUBSET SoFindings
      PROVE  Written(i, status, findings) \in Seq(SoRecords)
  <2> DEFINE row == [soRows[i] EXCEPT !.status = status, !.stored = findings]
  <2>1. row \in SoRecords
    BY <1>2 DEF SoRecords
  <2>2. Written(i, status, findings) = [soRows EXCEPT ![i] = row]
    BY DEF Written
  <2> QED
    BY <1>4, <2>1, <2>2
<1>6. \A row \in SoRecords : Append(soRows, row) \in Seq(SoRecords)
  BY AppendProperties
<1> QED
  BY <1>1, <1>2, <1>3, <1>5, <1>6, <1>7

\* A run that ends has an exit code, and tells of what its row may hold.
LEMMA OverTyped ==
    ASSUME SoTyped, NEW code \in ExitCodes, NEW stored \in SUBSET SoFindings,
           stored = {} \/ soRow \in DOMAIN soRows, Over(code, stored)
    PROVE  soExit' \in ExitCodes \cup {"none"} /\ soToldOf' \subseteq Tellable
<1>1. KeysOf(stored) \subseteq KeysOf(SoFindings)
  BY DEF KeysOf
<1>2. soRow \in DOMAIN soRows => TargetOf(soRow) \in {frozen.target : frozen \in Frozen}
  BY RowsTyped DEF SoTyped, SoRecords, TargetOf
<1>3. stored = {} => KeysOf(stored) = {}
  BY DEF KeysOf
<1>4. Known(soRow, stored) \subseteq Tellable
  BY <1>1, <1>2, <1>3 DEF Known, Tellable
<1> QED
  BY <1>4 DEF Over, SoTyped

\* Every step keeps the types.
LEMMA SoTypesMove ==
    ASSUME SoInv, SoTyped, [SoNext]_soVars
    PROVE  SoTyped'
<1>0. /\ Len(soRows) \in Nat /\ DOMAIN soRows = 1..Len(soRows)
      /\ \A i \in DOMAIN soRows : soRows[i] \in SoRecords /\ Stored(i) \subseteq SoFindings
      /\ \A i \in DOMAIN soRows : Marked(i) \in Seq(SoRecords)
      /\ \A i \in DOMAIN soRows : \A status \in SoStatuses : \A findings \in SUBSET SoFindings :
             Written(i, status, findings) \in Seq(SoRecords)
      /\ \A row \in SoRecords : Append(soRows, row) \in Seq(SoRecords)
  BY RowsTyped DEF SoTyped
<1>1. {"success", "internal", "input", "config", "denied", "scanner", "storage", "provider", "gate", "killed"} \subseteq ExitCodes
  BY DEF ExitCodes
<1>2. soStage \in AtWork => soRow \in DOMAIN soRows /\ Stored(soRow) \in SUBSET SoFindings
  BY <1>0 DEF SoInv
<1>3. {} \in SUBSET SoFindings /\ soFound \in SUBSET SoFindings
  BY DEF SoTyped
<1>4. ASSUME NEW args \in Commands, NEW config \in Configs, SoBegin(args, config) PROVE SoTyped'
  <2> DEFINE refusal == FirstRefusal(Checks(args, config))
  <2>1. refusal # "accepted" => CliExitCode(refusal) \in ExitCodes
    BY <1>1, RefusalsAreEarly, CodesOfErrors
  <2>2. soExit' \in ExitCodes \cup {"none"}
    <3>1. soExit' = CASE refusal # "accepted" -> CliExitCode(refusal)
                      [] refusal = "accepted" /\ args.dry -> "success" [] OTHER -> "none"
      BY <1>4 DEF SoBegin
    <3> HIDE DEF refusal
    <3> QED
      BY <1>1, <2>1, <3>1
  <2> QED
    BY <1>4, <2>2 DEF SoBegin, SoTyped
<1>5. ASSUME NEW args \in Commands, NEW config \in Configs, NEW i \in {0} \cup DOMAIN soRows, SoResume(args, config, i)
      PROVE  SoTyped'
  <2> DEFINE rows == {soRows[j] : j \in DOMAIN soRows \cap {i}}
             refusal == FirstRefusal(ResumeChecks(args, config, rows))
  <2>1. refusal \in {"accepted", "InvalidInput", "Config"} /\ (refusal = "accepted" => rows # {})
    BY RefusalsAreEarly
  <2>2. soArgs' = args /\ soConfig' = config /\ soErrors' = {} /\ soToldOf' = soToldOf
    BY <1>5 DEF SoResume
  <2>3. ASSUME NEW error \in {"InvalidInput", "Config", "Storage"}, ResumeRefused(error) PROVE SoTyped'
    <3>1. CliExitCode(error) \in ExitCodes
      BY <1>1, CodesOfErrors
    <3> QED
      BY <2>2, <2>3, <3>1 DEF ResumeRefused, SoTyped
  <2>4. ASSUME i \in DOMAIN soRows, RowTakenUp(args, i) PROVE SoTyped'
    <3>1. soRows' \in Seq(SoRecords) /\ soFound' \subseteq SoFindings /\ soRan' \in BOOLEAN
      BY <1>0, <2>4 DEF RowTakenUp, Marked
    <3>2. soExit' \in {"input", "success", "none"}
      BY <2>4, CodesOfErrors DEF RowTakenUp
    <3> QED
      BY <1>1, <2>2, <3>1, <3>2 DEF SoTyped
  <2>5. refusal = "accepted" => i \in DOMAIN soRows
    BY <2>1
  <2> HIDE DEF refusal
  <2>6. \/ refusal # "accepted" /\ ResumeRefused(refusal)
        \/ ResumeRefused("Storage")
        \/ refusal = "accepted" /\ RowTakenUp(args, i)
    BY <1>5 DEF SoResume, refusal
  <2> QED
    BY <2>1, <2>3, <2>4, <2>5, <2>6
<1>6. CASE SoStart
  <2>1. soRows' \in Seq(SoRecords)
    <3>1. [status |-> "running", stored |-> {}, frozen |-> FrozenOf(soArgs, soConfig)] \in SoRecords
      BY DEF SoRecords, SoStatuses, SoTyped, Frozen
    <3> QED
      BY <1>0, <1>6, <3>1 DEF SoStart, SoTyped
  <2>2. soExit' \in ExitCodes \cup {"none"} /\ soToldOf' \subseteq Tellable
    <3>1. CASE OverWithoutRow("Storage")
      BY <1>1, <1>3, <3>1, CodesOfErrors, OverTyped DEF OverWithoutRow, SoTyped
    <3>2. CASE ~OverWithoutRow("Storage")
      BY <1>6, <3>2 DEF SoStart, SoTyped
    <3> QED
      BY <3>1, <3>2
  <2> QED
    BY <1>6, <2>1, <2>2 DEF SoStart, SoTyped
<1>7. CASE SoEffects
  <2>1. soExit' \in ExitCodes \cup {"none"} /\ soToldOf' \subseteq Tellable
    <3>1. CASE EffectsValid(soArgs)
      BY <1>7, <3>1 DEF SoEffects, SoTyped
    <3>2. CASE ~EffectsValid(soArgs)
      BY <1>1, <1>2, <1>7, <3>2, OverTyped DEF SoEffects, SoTyped, AtWork
    <3> QED
      BY <3>1, <3>2
  <2> QED
    BY <1>7, <2>1 DEF SoEffects, SoTyped
<1>8. ASSUME NEW s, NEW findings \in SUBSET SoFindings, ScannerFinds(s, findings) PROVE SoTyped'
  <2>1. CASE /\ soFound' = soFound \cup findings /\ SetRow("running", soFound')
             /\ UNCHANGED <<soStage, soExit, soToldOf>>
    <3>1. soFound' \subseteq SoFindings
      BY <1>3, <2>1
    <3>2. "running" \in SoStatuses /\ soStage \in AtWork
      BY <1>8 DEF SoStatuses, ScannerFinds, AtWork
    <3>3. soRows' \in Seq(SoRecords)
      <4>1. soRows' = Written(soRow, "running", soFound')
        BY <2>1 DEF SetRow, Written
      <4>2. soFound' \in SUBSET SoFindings
        BY <3>1
      <4> QED
        BY <1>0, <1>2, <3>2, <4>1, <4>2
    <3> QED
      BY <1>8, <2>1, <3>1, <3>3 DEF ScannerFinds, SoTyped
  <2>2. CASE Over("storage", Stored(soRow)) /\ UNCHANGED <<soRows, soLeft, soFound>>
    <3>1. soExit' \in ExitCodes \cup {"none"} /\ soToldOf' \subseteq Tellable
      BY <1>1, <1>2, <1>8, <2>2, OverTyped DEF ScannerFinds, SoTyped, AtWork
    <3> QED
      BY <1>8, <2>2, <3>1 DEF ScannerFinds, SoTyped
  <2> QED
    BY <1>8, <2>1, <2>2 DEF ScannerFinds
<1>9. ASSUME NEW s, NEW error, ScannerFails(s, error) PROVE SoTyped'
  BY <1>9 DEF ScannerFails, SoTyped, ScannerError
<1>10. CASE ScannersEnd
  <2>1. soExit' \in ExitCodes \cup {"none"} /\ soToldOf' \subseteq Tellable
    <3>1. CliExitCode(ScannerFailure(soErrors)) \in ExitCodes
      BY <1>1, CodesOfErrors
    <3>2. CASE ~soRan /\ soErrors # {}
      BY <1>2, <1>10, <3>1, <3>2, OverTyped DEF ScannersEnd, SoTyped, AtWork
    <3>3. CASE ~(~soRan /\ soErrors # {})
      BY <1>10, <3>3 DEF ScannersEnd, SoTyped
    <3> QED
      BY <3>2, <3>3
  <2> QED
    BY <1>10, <2>1 DEF ScannersEnd, SoTyped
<1>11. ASSUME NEW findings \in SUBSET SoFindings, AgentEnds(findings) PROVE SoTyped'
  BY <1>11 DEF AgentEnds, SoTyped
<1>12. ASSUME NEW error, AgentFails(error) PROVE SoTyped'
  BY <1>12 DEF AgentFails, SoTyped
<1>13. CASE Report
  <2>1. soExit' \in ExitCodes \cup {"none"} /\ soToldOf' \subseteq Tellable
    <3>1. ASSUME NEW code \in {"config", "internal"}, Over(code, Stored(soRow))
          PROVE  soExit' \in ExitCodes \cup {"none"} /\ soToldOf' \subseteq Tellable
      BY <1>1, <1>2, <1>13, <3>1, OverTyped DEF Report, SoTyped, AtWork
    <3> QED
      BY <1>13, <3>1 DEF Report, SoTyped
  <2> QED
    BY <1>13, <2>1 DEF Report, SoTyped
<1>14. CASE Finalize
  <2>1. CASE SetRow(IF Degraded THEN "failed" ELSE "completed", soFound) /\ UNCHANGED <<soExit, soToldOf>>
    <3>1. (IF Degraded THEN "failed" ELSE "completed") \in SoStatuses /\ soStage \in AtWork
      BY <1>14 DEF SoStatuses, Finalize, AtWork
    <3>2. soRows' \in Seq(SoRecords)
      <4>1. soRows' = Written(soRow, IF Degraded THEN "failed" ELSE "completed", soFound)
        BY <2>1 DEF SetRow, Written
      <4> QED
        BY <1>0, <1>2, <1>3, <3>1, <4>1
    <3> QED
      BY <1>14, <2>1, <3>2 DEF Finalize, SoTyped
  <2>2. CASE Over("storage", Stored(soRow)) /\ UNCHANGED soRows
    <3>1. soExit' \in ExitCodes \cup {"none"} /\ soToldOf' \subseteq Tellable
      BY <1>1, <1>2, <1>14, <2>2, OverTyped DEF Finalize, SoTyped, AtWork
    <3> QED
      BY <1>14, <2>2, <3>1 DEF Finalize, SoTyped
  <2> QED
    BY <1>14, <2>1, <2>2 DEF Finalize
<1>15. CASE Gates
  <2>1. PICK code \in ExitCodes : Over(code, soFound)
    <3> DEFINE code == CASE soErrors # {} -> CliExitCode(ScannerFailure(soErrors))
                         [] soErrors = {} /\ soSoft # "none" -> CliExitCode(soSoft)
                         [] ~Degraded /\ (SeverityGate \/ NewGate) -> "gate" [] OTHER -> "success"
    <3>1. code \in ExitCodes
      <4>1. CliExitCode(ScannerFailure(soErrors)) \in ExitCodes
        BY <1>1, CodesOfErrors
      <4>2. soSoft # "none" => CliExitCode(soSoft) \in ExitCodes
        BY <1>1, CodesOfErrors DEF SoInv
      <4> QED
        BY <1>1, <4>1, <4>2
    <3> QED
      BY <1>1, <1>15, <3>1 DEF Gates
  <2>2. soExit' \in ExitCodes \cup {"none"} /\ soToldOf' \subseteq Tellable
    BY <1>2, <1>3, <1>15, <2>1, OverTyped DEF Gates, AtWork
  <2> QED
    BY <1>15, <2>2 DEF Gates, SoTyped
<1>16. CASE Killed
  <2>1. /\ (IF soRow = 0 THEN {} ELSE Stored(soRow)) \in SUBSET SoFindings
        /\ soRow = 0 \/ soRow \in DOMAIN soRows
    BY <1>0 DEF SoInv
  <2>2. soExit' \in ExitCodes \cup {"none"} /\ soToldOf' \subseteq Tellable
    BY <1>1, <1>16, <2>1, OverTyped DEF Killed, SoTyped
  <2> QED
    BY <1>16, <2>2 DEF Killed, SoTyped
<1>17. CASE UNCHANGED soVars
  BY <1>17 DEF soVars, SoTyped
<1> QED
  BY <1>4, <1>5, <1>6, <1>7, <1>8, <1>9, <1>10, <1>11, <1>12, <1>13, <1>14, <1>15, <1>16, <1>17, CallsAreCalls DEF SoNext, SoStep

LEMMA RunsTyped == SoSpec => []SoTypeOK
<1>1. SoInit => SoTyped
  <2> SUFFICES ASSUME SoInit PROVE SoTyped
    OBVIOUS
  <2>1. soArgs \in Commands /\ soConfig \in Configs
    BY OutcomeAssumption DEF SoInit
  <2>2. soRows = <<>> /\ <<>> \in Seq(SoRecords)
    BY DEF SoInit
  <2> QED
    BY <2>1, <2>2 DEF SoInit, SoTyped, ExitCodes
<1>2. SoInv /\ SoTyped => SoTypeOK
  <2> SUFFICES ASSUME SoInv, SoTyped PROVE SoTypeOK
    OBVIOUS
  <2>1. \A i \in DOMAIN soRows : soRows[i] \in SoRecords
    BY RowsTyped DEF SoTyped
  <2>2. soStage \in SoStages
    BY DEF SoInv, AtWork, SoStages
  <2> QED
    BY <2>1, <2>2 DEF SoInv, SoTyped, SoTypeOK, SoRecords, SoStatuses, Tellable
<1> QED
  BY <1>1, <1>2, SoStarts, SoMoves, SoTypesMove, PTL DEF SoSpec

\* The validator's batch.
LEMMA BatchTyped == VlSpec => []VlTypeOK
<1>1. VlInv => VlTypeOK
  <2> SUFFICES ASSUME VlInv PROVE VlTypeOK
    OBVIOUS
  <2>1. ASSUME NEW i \in DOMAIN vlNow PROVE vlNow[i] = Gone \/ IsFinding(vlNow[i][1])
    <3>1. CASE \E f \in Finding : vlNow[i] = <<f>>
      <4>1. PICK f \in Finding : vlNow[i] = <<f>>
        BY <3>1
      <4>2. vlNow[i][1] = f
        BY <4>1
      <4> QED
        BY <4>2 DEF IsFinding
    <3> QED
      BY <3>1 DEF VlInv
  <2>2. DOMAIN vlHeard = DOMAIN vlNow
    BY DEF VlInv
  <2> QED
    BY <2>1, <2>2 DEF VlInv, VlTypeOK
<1> QED
  BY <1>1, VlStarts, VlMoves, PTL DEF VlSpec

\* An exchange.
LEMMA ExchangesTyped == ExSpec => []ExTypeOK
<1> DEFINE GotWhole == exGot.how \in {"none", "body", "Scan", "Timeout"}
<1>1. ExInit => GotWhole
  BY DEF ExInit, Got
<1>2. ASSUME GotWhole, [ExNext]_exVars PROVE GotWhole'
  <2>1. ASSUME NEW job \in ExJobs, ExBegin(job) PROVE GotWhole'
    BY <2>1 DEF ExBegin, Got
  <2>2. CASE HopRefused
    BY <2>2 DEF HopRefused, ExFails, Got
  <2>3. CASE RequestFails
    BY <2>3 DEF RequestFails, ExFails, Got
  <2>4. ASSUME NEW addrs, HopGoesOut(addrs) PROVE GotWhole'
    BY <1>2, <2>4 DEF HopGoesOut
  <2>5. ASSUME NEW addrs, AddressesRefused(addrs) PROVE GotWhole'
    BY <2>5 DEF AddressesRefused, ExFails, Got
  <2>6. ASSUME NEW url \in ExUrls, RedirectRefused(url) PROVE GotWhole'
    BY <2>6 DEF RedirectRefused, ExFails, Got
  <2>7. ASSUME NEW url \in ExUrls, NEW keeps \in BOOLEAN, RedirectFollowed(url, keeps) PROVE GotWhole'
    BY <1>2, <2>7 DEF RedirectFollowed
  <2>8. ASSUME NEW size \in ExSizes, BodyArrives(size) PROVE GotWhole'
    BY <2>8 DEF BodyArrives, Taken, Got
  <2>9. CASE UNCHANGED exVars
    BY <1>2, <2>9 DEF exVars
  <2> QED
    BY <1>2, <2>1, <2>2, <2>3, <2>4, <2>5, <2>6, <2>7, <2>8, <2>9 DEF ExNext, ExStep
<1>3. ExInv /\ GotWhole => ExTypeOK
  <2> SUFFICES ASSUME ExInv, GotWhole PROVE ExTypeOK
    OBVIOUS
  <2>1. IsUrl(exAt)
    BY JobsAreJobs DEF ExInv
  <2>2. \A i \in DOMAIN exSent : exSent[i].addrs \subseteq Addresses
    <3>1. \A i \in DOMAIN exSent : exSent[i] \in SentRequest
      BY LenProperties DEF ExInv
    <3> QED
      BY <3>1 DEF SentRequest
  <2> QED
    BY <2>1, <2>2 DEF ExInv, ExTypeOK
<1> HIDE DEF GotWhole
<1> QED
  BY <1>1, <1>2, <1>3, ExchangesGoOn, PTL DEF ExSpec

\* The tools' session and what has entered the context.
LEMMA CallsTyped == AtSpec => []AtTypeOK
<1>1. AtInit => AtTypeOK
  BY ToolsAssumption DEF AtInit, AtTypeOK
<1>2. AtTypeOK /\ [AtNext]_atVars => AtTypeOK'
  <2> SUFFICES ASSUME AtTypeOK, [AtNext]_atVars PROVE AtTypeOK'
    OBVIOUS
  <2>1. ASSUME NEW session \in AtSessions, OpenSession(session) PROVE AtTypeOK'
    BY <2>1 DEF OpenSession, AtTypeOK
  <2>2. ASSUME NEW tool \in DOMAIN Registry, NEW argument, NEW chars, CallTool(tool, argument, chars) PROVE AtTypeOK'
    <3> DEFINE entry == ExecuteAuthorised(tool, argument, chars)
    <3>1. /\ atContext' = atContext \cup {entry} /\ atSession' = atSession
          /\ atCalls < AtMaxCalls /\ atCalls' = atCalls + 1
      BY <2>2 DEF CallTool
    <3>2. entry.tool = tool /\ entry.holds \in {"error", "stub", "content"} /\ entry.of \in Sources \cup {"names"}
      BY DEF ExecuteAuthorised, FilterForModel, Entry, Quotes, SourceOf, Sources
    <3> HIDE DEF entry
    <3>3. atCalls' \in 0..AtMaxCalls
      BY <3>1, ToolsAssumption DEF AtTypeOK
    <3> QED
      BY <3>1, <3>2, <3>3 DEF AtTypeOK
  <2>3. CASE UNCHANGED atVars
    BY <2>3 DEF atVars, AtTypeOK
  <2> QED
    BY <2>1, <2>2, <2>3 DEF AtNext
<1> QED
  BY <1>1, <1>2, PTL DEF AtSpec

\* A scan of data at rest: findings are of items that were looked at.
LEMMA LocalTyped == LcSpec => []LcTypeOK
<1> DEFINE Seen == \A pair \in lcFound : pair[1] \in DOMAIN lcSeen
           Errors == {"none", "Config", "InvalidInput", "Unsupported", "UnsupportedFormat", "Provider", "Internal", "Io"}
           Typed == Seen /\ lcError \in Errors
<1>1. LcInit => Typed
  BY DEF LcInit
<1>2. ASSUME LcInv, Typed, [LcNext]_lcVars PROVE Typed'
  <2>1. ASSUME NEW job \in LcJobs, LcBegin(job) PROVE Typed'
    <3>1. Refusal(job) \in Errors
      BY DEF Refusal
    <3> QED
      BY <1>2, <2>1, <3>1 DEF LcBegin
  <2>2. ASSUME NEW seen, LookAt(seen) PROVE Typed'
    <3>1. /\ DOMAIN lcSeen = 1..Len(lcSeen) /\ Len(lcSeen) \in Nat
          /\ lcSeen \in Seq(SUBSET AllVisible)
      BY <1>2, LenProperties DEF LcInv
    <3>2. DOMAIN Append(lcSeen, seen) = 1..(Len(lcSeen) + 1)
      BY <3>1
    <3>3. /\ lcFound' = lcFound \cup ({Len(lcSeen) + 1} \X FindingsOf(lcJob, Item, seen))
          /\ lcSeen' = Append(lcSeen, seen) /\ lcError' = lcError
      BY <2>2 DEF LookAt, Looked
    <3>4. \A pair \in {Len(lcSeen) + 1} \X FindingsOf(lcJob, Item, seen) : pair[1] = Len(lcSeen) + 1
      OBVIOUS
    <3> QED
      BY <1>2, <3>1, <3>2, <3>3, <3>4
  <2>3. ASSUME NEW error \in Errors, Fail(error) PROVE Typed'
    BY <2>3 DEF Fail
  <2>4. CASE LookAtItem
    BY <2>2, <2>4 DEF LookAtItem
  <2>5. CASE Unreadable
    BY <2>2, <2>5 DEF Unreadable
  <2>6. CASE ItemPanics \/ FormatUnknown \/ ItemGone
    BY <2>3, <2>6 DEF ItemPanics, FormatUnknown, ItemGone
  <2>7. CASE LcEnd
    BY <1>2, <2>7 DEF LcEnd
  <2>8. ASSUME NEW told, PageAnswers(told) PROVE Typed'
    BY <2>2, <2>8 DEF PageAnswers
  <2>9. CASE UNCHANGED lcVars
    BY <1>2, <2>9 DEF lcVars
  <2> QED
    BY <1>2, <2>1, <2>4, <2>5, <2>6, <2>7, <2>8, <2>9 DEF LcNext, LcStep
<1>3. LcInv /\ Typed => LcTypeOK
  BY DEF LcInv, LcTypeOK
<1> HIDE DEF Typed
<1> QED
  BY <1>1, <1>2, <1>3, LcStarts, LcMoves, PTL DEF LcSpec

\* What the validator keeps are findings.
LEMMA KeptTyped ==
    ASSUME NEW found \in Seq(Finding)
    PROVE  FlattenSeq([i \in DOMAIN found |-> KeepHeuristic(found[i], FALSE)]) \in Seq(Finding)
<1> DEFINE parts == [i \in DOMAIN found |-> KeepHeuristic(found[i], FALSE)]
<1>1. DOMAIN found = 1..Len(found) /\ Len(found) \in Nat /\ \A i \in 1..Len(found) : found[i] \in Finding
  BY LenProperties
<1>2. ASSUME NEW g \in Finding PROVE KeepHeuristic(g, FALSE) \in Seq(Finding)
  <2>1. HeuristicFinding(g) \in Finding /\ KeepHeuristic(g, FALSE) \in {Gone, <<HeuristicFinding(g)>>}
    BY HeuristicKeepsFindings
  <2>2. <<HeuristicFinding(g)>> \in Seq(Finding) /\ Gone \in Seq(Finding)
    BY <2>1 DEF Gone
  <2> QED
    BY <2>1, <2>2
<1>3. parts \in Seq(Seq(Finding))
  <2>1. parts \in [1..Len(found) -> Seq(Finding)]
    BY <1>1, <1>2
  <2> HIDE DEF parts
  <2> QED
    BY <1>1, <2>1, IsASeq
<1>4. FlattenSeq(parts) \in Seq(Finding)
  <2> HIDE DEF parts
  <2> QED
    BY <1>3, FlattenKeeps
<1> QED
  BY <1>4

AgTyped ==
    /\ agRun \in Runs \cup {NoRun}
    /\ \A t \in DOMAIN agTasks : agTasks[t] \in {"queued", "running", "done", "lost"}
    /\ DOMAIN agSaid = DOMAIN agTasks
    /\ agFound \in Seq(Finding) /\ agResult \in Seq(Finding)

\* Tasks, reports and results stay what they are; what is merged and checked are findings.
LEMMA AgTypesMove == AgInv /\ AgInv' /\ AgTyped /\ [AgNext]_agVars => AgTyped'
<1> SUFFICES ASSUME AgInv, AgInv', AgTyped, [AgNext]_agVars PROVE AgTyped'
  OBVIOUS
<1>0. \A n \in Nat : DOMAIN Queue(n) = 1..n /\ \A t \in 1..n : Queue(n)[t] = "queued"
  BY DEF Queue
<1>1. ASSUME NEW run \in Runs, AgBegin(run) PROVE AgTyped'
  <2>1. agRun' \in Runs /\ agFound' = agFound /\ agResult' = agResult /\ DOMAIN agSaid' = DOMAIN agTasks'
    BY <1>1 DEF AgBegin
  <2>2. run.mode \in Modes
    BY DEF Runs
  <2>3. agTasks' \in {Queue(1), Queue(Phases), Queue(SwarmTasks), <<>>}
    <3>1. CASE run.mode = "tool_use"
      BY <1>1, <3>1 DEF AgBegin
    <3>2. CASE run.mode = "pipeline"
      BY <1>1, <3>2 DEF AgBegin
    <3>3. CASE run.mode = "swarm"
      BY <1>1, <3>3 DEF AgBegin
    <3>4. CASE run.mode = "hierarchical"
      BY <1>1, <3>4 DEF AgBegin
    <3> QED
      BY <2>2, <3>1, <3>2, <3>3, <3>4 DEF Modes
  <2>4. \A t \in DOMAIN agTasks' : agTasks'[t] = "queued"
    <3>1. DOMAIN <<>> = {}
      OBVIOUS
    <3> QED
      BY <1>0, <2>3, <3>1, AgentAssumption
  <2> QED
    BY <2>1, <2>4 DEF AgTyped
<1>2. ASSUME NEW n \in 0..MaxSubtasks, PlanAnswered(n) PROVE AgTyped'
  <2>1. n \in Nat
    BY AgentAssumption
  <2>2. agTasks' = Queue(n) /\ DOMAIN agSaid' = 1..n /\ UNCHANGED <<agRun, agFound, agResult>>
    BY <1>2 DEF PlanAnswered
  <2> QED
    BY <1>0, <2>1, <2>2 DEF AgTyped
<1>3. CASE PlanFails \/ MergePanics \/ AllEnded
  BY <1>3 DEF PlanFails, MergePanics, AllEnded, AgTyped
<1>4. ASSUME NEW t \in DOMAIN agTasks, TaskStarts(t) \/ TaskPanics(t) PROVE AgTyped'
  BY <1>4 DEF TaskStarts, TaskPanics, AgTyped
<1>5. ASSUME NEW t \in DOMAIN agTasks, NEW report \in Reports \cup {<<>>}, TaskReports(t, report) PROVE AgTyped'
  <2>1. report \in Seq(Finding)
    BY AgentAssumption, EmptySeq
  <2>2. agFound' \in Seq(Finding)
    <3>1. agFound' = agFound \o report /\ agFound \in Seq(Finding)
      BY <1>5 DEF TaskReports, AgTyped
    <3> QED
      BY <2>1, <3>1, ConcatRange
  <2>3. /\ agSaid' = [agSaid EXCEPT ![t] = report] /\ agTasks' = [agTasks EXCEPT ![t] = "done"]
        /\ UNCHANGED <<agRun, agResult>>
    BY <1>5 DEF TaskReports
  <2> QED
    BY <2>2, <2>3 DEF AgTyped
<1>6. CASE Merge
  <2>1. agFound' \in Seq(Finding)
    BY <1>6 DEF Merge, AgInv, ScannedMerged
  <2> QED
    BY <1>6, <2>1 DEF Merge, AgTyped
<1>7. CASE Check
  <2>1. agResult' \in Seq(Finding)
    BY <1>7, KeptTyped DEF Check, AgTyped
  <2> QED
    BY <1>7, <2>1 DEF Check, AgTyped
<1>8. CASE UNCHANGED agVars
  BY <1>8 DEF agVars, AgTyped
<1> QED
  BY <1>1, <1>2, <1>3, <1>4, <1>5, <1>6, <1>7, <1>8 DEF AgNext, AgStep

LEMMA PhaseTyped == AgSpec => []AgTypeOK
<1>1. AgInit => AgTyped
  <2>1. <<>> \in Seq(Finding) /\ DOMAIN <<>> = {}
    BY EmptySeq
  <2> QED
    BY <2>1 DEF AgInit, AgTyped
<1>2. AgInv /\ AgTyped => AgTypeOK
  <2> SUFFICES ASSUME AgInv, AgTyped PROVE AgTypeOK
    OBVIOUS
  <2>1. \A found \in Seq(Finding) : \A i \in DOMAIN found : found[i] \in Finding
    BY LenProperties
  <2>2. (\A i \in DOMAIN agFound : IsFinding(agFound[i])) /\ (\A i \in DOMAIN agResult : IsFinding(agResult[i]))
    BY <2>1 DEF AgTyped, IsFinding
  <2> QED
    BY <2>2 DEF AgInv, AgTyped, AgTypeOK
<1> QED
  BY <1>1, <1>2, AgStarts, AgKeeps, AgTypesMove, PTL DEF AgSpec

\* A payload of the attempt that is under way is one of those its kind has.
AtOwnPayload == AtPayload /\ wpPayload > 1 => wpPayload <= Payloads[Todo[wpAttempt].kind]
WpTyped ==
    /\ wpScan.holes \subseteq UNION WpHoles /\ wpScan.pages \in WpSites \cup {<<>>} /\ wpScan.budget \in Nat
    /\ wpPage \in 0..(Len(wpScan.pages) + 1) /\ wpCheck \in 0..6
    /\ wpAttempt \in Nat /\ wpPayload \in 0..9 /\ wpCount \in 0..wpScan.budget
    /\ IsFiniteSet(wpFailed) /\ Cardinality(wpFailed) <= WpMaxFailures
    /\ wpStage = "idle" => wpCount = 0
    /\ AtOwnPayload

\* What an attempt tries is of a kind that has payloads.
LEMMA KindsHavePayloads ==
    ASSUME WpInv, AtPayload, wpAttempt \in Nat
    PROVE  Payloads[Todo[wpAttempt].kind] \in 1..9
<1>1. ScanKnown /\ PlaceKnown
  BY DEF WpInv, AtPayload, Looking
<1>2. wpCheck \in 1..6 /\ wpPage \in DOMAIN wpScan.pages /\ wpAttempt \in Nat \ {0}
  BY <1>1, ChecksDiffer, LenProperties DEF PlaceKnown, ScanKnown, AtPayload, Looking, LastCheck
<1>3. Todo = TodoOf(wpPage, wpCheck)
  BY DEF Todo, TodoOf, Page, CheckName
<1>4. TodoOf(wpPage, wpCheck) \in Seq(AttemptsOf(KindsOf(ProbeChecks[wpCheck])))
  BY <1>1, <1>2, SlotsKnown
<1> HIDE DEF Todo
<1>5. wpAttempt \in 1..Len(Todo) /\ Todo \in Seq(AttemptsOf(KindsOf(ProbeChecks[wpCheck])))
  BY <1>2, <1>3, <1>4, LenProperties DEF AtPayload
<1>6. Todo[wpAttempt] \in AttemptsOf(KindsOf(ProbeChecks[wpCheck]))
  BY <1>5, LenProperties
<1>7. Todo[wpAttempt].kind \in KindsOf(ProbeChecks[wpCheck])
  BY <1>6 DEF AttemptsOf
<1>8. \A k \in 1..6 : KindsOf(ProbeChecks[k]) \subseteq {"exposure", "xssForm", "xssUrl", "sqli", "ssrf", "traversalForm",
                                                        "traversalUrl", "command"}
  <2>1. /\ ProbeChecks[1] = "exposure" /\ ProbeChecks[2] = "xss" /\ ProbeChecks[3] = "sqli"
        /\ ProbeChecks[4] = "ssrf" /\ ProbeChecks[5] = "traversal" /\ ProbeChecks[6] = "command"
    BY DEF ProbeChecks
  <2>2. \A k \in 1..6 : k \in {1, 2, 3, 4, 5, 6}
    OBVIOUS
  <2> QED
    BY <2>1, <2>2 DEF KindsOf
<1>9. Payloads[Todo[wpAttempt].kind] \in {1, 3, 4, 5, 9}
  BY <1>2, <1>7, <1>8 DEF Payloads
<1> QED
  BY <1>9

\* A probe goes forward.
LEMMA ForwardTyped ==
    ASSUME WpInv, WpTyped, AtPayload, NEW over, Forward(over), UNCHANGED <<wpScan, wpStage, wpPage, wpCheck>>,
           wpCount' \in 0..wpScan.budget, IsFiniteSet(wpFailed'), Cardinality(wpFailed') <= WpMaxFailures
    PROVE  WpTyped'
<1>1. Payloads[Todo[wpAttempt].kind] \in 1..9
  BY KindsHavePayloads DEF WpTyped
<1>2. wpStage' # "idle"
  BY DEF AtPayload, Looking
<1>3. CASE wpAttempt' = wpAttempt + 1 /\ wpPayload' = 1
  <2>1. AtOwnPayload'
    BY <1>3 DEF AtOwnPayload
  <2> QED
    BY <1>2, <1>3, <2>1 DEF WpTyped
<1>4. CASE wpPayload # Payloads[Todo[wpAttempt].kind] /\ wpPayload' = wpPayload + 1 /\ wpAttempt' = wpAttempt
  <2>1. Todo' = Todo
    BY DEF Todo, Page, CheckName
  <2> DEFINE kind == Todo[wpAttempt].kind
  <2>2. kind' = kind
    BY <1>4, <2>1
  <2>0. PICK most \in 1..9 : Payloads[kind] = most
    BY <1>1
  <2>3. wpPayload <= most /\ wpPayload # most /\ wpPayload \in 0..9
    BY <1>4, <2>0 DEF WpTyped, AtOwnPayload
  <2>4. wpPayload' <= Payloads[kind] /\ wpPayload' \in 0..9
    <3> HIDE DEF kind
    <3> QED
      BY <1>4, <2>0, <2>3
  <2>5. AtOwnPayload'
    BY <2>2, <2>4 DEF AtOwnPayload
  <2> QED
    BY <1>2, <1>4, <2>4, <2>5 DEF WpTyped
<1> QED
  BY <1>3, <1>4 DEF Forward

LEMMA WpTypesMove == WpWhole /\ WpTyped /\ [WpNext]_wpVars => WpTyped'
<1> SUFFICES ASSUME WpWhole, WpTyped, [WpNext]_wpVars PROVE WpTyped'
  OBVIOUS
<1>0. /\ WpInv /\ IsFiniteSet(wpFailed) /\ Cardinality(wpFailed) <= WpMaxFailures /\ Len(wpScan.pages) \in Nat
      /\ wpScan.budget \in Nat /\ wpCount \in 0..wpScan.budget
  <2>1. Len(wpScan.pages) \in Nat
    <3>1. \A site \in WpSites : Len(site) \in Nat
      BY ProbeAssumption, LenProperties
    <3>2. Len(<<>>) \in Nat
      OBVIOUS
    <3> QED
      BY <3>1, <3>2 DEF WpTyped
  <2> QED
    BY <2>1 DEF WpTyped, WpWhole
<1>1. ASSUME NEW site \in WpSites, NEW holes \in WpHoles, NEW budget \in WpBudgets, NEW consent \in BOOLEAN,
             NEW inspect \in BOOLEAN,
             WpBegin([pages |-> site, holes |-> holes, consent |-> consent, budget |-> budget, inspect |-> inspect])
      PROVE  WpTyped'
  <2>1. /\ wpScan' = [pages |-> site, holes |-> holes, consent |-> consent, budget |-> budget, inspect |-> inspect]
        /\ wpPage' = 1 /\ wpCheck' = 0 /\ wpStage' = "pages" /\ wpStage = "idle"
        /\ UNCHANGED <<wpAttempt, wpPayload, wpCount, wpFailed>>
    BY <1>1 DEF WpBegin
  <2>2. wpScan'.pages = site /\ wpScan'.holes = holes /\ wpScan'.budget = budget
    BY <2>1
  <2>3. Len(site) \in Nat /\ budget \in Nat /\ holes \subseteq UNION WpHoles
    BY ProbeAssumption, LenProperties
  <2>4. AtOwnPayload'
    BY <2>1 DEF AtOwnPayload, AtPayload
  <2> QED
    BY <2>1, <2>2, <2>3, <2>4 DEF WpTyped
<1>2. CASE PassiveChecks
  <2>1. /\ wpPage <= Len(wpScan.pages) /\ UNCHANGED <<wpScan, wpStage, wpFailed>> /\ wpStage = "pages"
        /\ \/ wpCheck' = 1 /\ wpAttempt' = 1 /\ wpPayload' = 1 /\ wpCount' = 0 /\ wpPage' = wpPage
           \/ wpPage' = wpPage + 1 /\ wpCheck' = 0 /\ wpAttempt' = wpAttempt /\ wpPayload' = wpPayload /\ wpCount' = wpCount
    BY <1>2 DEF PassiveChecks, OnToCheck, Looking
  <2>2. AtOwnPayload'
    BY <2>1 DEF AtOwnPayload, AtPayload
  <2>3. wpPage' \in 0..(Len(wpScan.pages) + 1) /\ wpCount' \in 0..wpScan.budget
    BY <1>0, <2>1 DEF WpTyped
  <2>4. wpCheck' \in 0..6
    BY <2>1
  <2>5. wpAttempt' \in Nat /\ wpPayload' \in 0..9
    <3>1. wpAttempt \in Nat /\ wpPayload \in 0..9
      BY DEF WpTyped
    <3> QED
      BY <2>1, <3>1
  <2> QED
    BY <1>0, <2>1, <2>2, <2>3, <2>4, <2>5 DEF WpTyped
<1>3. CASE NextCheck
  <2>1. LastCheck \in {1, 6}
    BY ChecksDiffer DEF LastCheck
  <2>2. /\ wpPage <= Len(wpScan.pages) /\ UNCHANGED <<wpScan, wpStage, wpFailed>> /\ wpStage = "pages"
        /\ \/ wpCheck < LastCheck /\ wpCheck' = wpCheck + 1 /\ wpAttempt' = 1 /\ wpPayload' = 1 /\ wpCount' = 0 /\ wpPage' = wpPage
           \/ wpPage' = wpPage + 1 /\ wpCheck' = 0 /\ wpAttempt' = wpAttempt /\ wpPayload' = wpPayload /\ wpCount' = wpCount
    BY <1>3 DEF NextCheck, OnToCheck, Looking
  <2>3. AtOwnPayload'
    BY <2>2 DEF AtOwnPayload, AtPayload
  <2>4. wpCheck' \in 0..6
    BY <2>1, <2>2 DEF WpTyped
  <2>5. wpPage' \in 0..(Len(wpScan.pages) + 1) /\ wpCount' \in 0..wpScan.budget
    BY <1>0, <2>2 DEF WpTyped
  <2>6. wpAttempt' \in Nat /\ wpPayload' \in 0..9
    BY <2>2 DEF WpTyped
  <2> QED
    BY <1>0, <2>2, <2>3, <2>4, <2>5, <2>6 DEF WpTyped
<1>4. ASSUME NEW hops \in {1, 2}, Probe(hops) PROVE WpTyped'
  <2>1. /\ AtPayload /\ wpCount' = wpCount + hops /\ wpCount + hops <= wpScan.budget
        /\ Forward(Shows(Todo[wpAttempt]) /\ Todo[wpAttempt].kind \notin GoesOn)
        /\ UNCHANGED <<wpScan, wpStage, wpPage, wpCheck, wpFailed>>
    BY <1>4 DEF Probe
  <2>2. wpCount' \in 0..wpScan.budget
    BY <1>0, <2>1
  <2> QED
    BY <1>0, <2>1, <2>2, ForwardTyped
<1>5. CASE ProbeFails
  <2> DEFINE failed == <<wpPage, CheckName, wpAttempt, wpPayload>>
  <2>1. /\ AtPayload /\ wpCount' = wpCount + 1 /\ wpCount < wpScan.budget /\ Cardinality(wpFailed) < WpMaxFailures
        /\ Forward(FALSE) /\ UNCHANGED <<wpScan, wpStage, wpPage, wpCheck>> /\ wpFailed' = wpFailed \cup {failed}
    BY <1>5 DEF ProbeFails
  <2> HIDE DEF failed
  <2>2. wpCount' \in 0..wpScan.budget
    BY <1>0, <2>1
  <2>3. IsFiniteSet(wpFailed') /\ Cardinality(wpFailed') <= WpMaxFailures
    <3>1. /\ IsFiniteSet(wpFailed \cup {failed}) /\ Cardinality(wpFailed) \in Nat
          /\ Cardinality(wpFailed \cup {failed}) \in {Cardinality(wpFailed), Cardinality(wpFailed) + 1}
      BY <1>0, FS_AddElement, FS_CardinalityType
    <3> QED
      BY <2>1, <3>1, ProbeAssumption
  <2> QED
    BY <1>0, <2>1, <2>2, <2>3, ForwardTyped
<1>6. CASE ProbeRefused
  BY <1>0, <1>6, ForwardTyped DEF ProbeRefused
<1>7. CASE ProbeCutShort
  <2>1. wpCount' \in 0..wpScan.budget
    BY <1>0, <1>7 DEF ProbeCutShort
  <2> QED
    BY <1>0, <1>7, <2>1, ForwardTyped DEF ProbeCutShort
<1>8. CASE WpReport
  <2>1. AtOwnPayload'
    BY <1>8 DEF WpReport, AtOwnPayload, AtPayload, Looking
  <2> QED
    BY <1>8, <2>1 DEF WpReport, WpTyped
<1>9. CASE UNCHANGED wpVars
  <2>1. AtPayload' = AtPayload /\ Todo' = Todo
    BY <1>9 DEF wpVars, AtPayload, Looking, Todo, Page, CheckName
  <2>2. AtOwnPayload'
    BY <1>9, <2>1 DEF wpVars, WpTyped, AtOwnPayload
  <2> QED
    BY <1>9, <2>2 DEF wpVars, WpTyped
<1> QED
  BY <1>1, <1>2, <1>3, <1>4, <1>5, <1>6, <1>7, <1>8, <1>9 DEF WpNext, WpStep

LEMMA ProbesTyped == WpSpec => []WpTypeOK
<1>1. WpInit => WpTyped
  <2> SUFFICES ASSUME WpInit PROVE WpTyped
    OBVIOUS
  <2>1. /\ wpScan.pages = <<>> /\ wpScan.holes = {} /\ wpScan.budget = 0 /\ wpPage = 0 /\ wpCheck = 0 /\ wpAttempt = 0
        /\ wpPayload = 0 /\ wpCount = 0 /\ wpFailed = {}
    BY DEF WpInit, NoScan
  <2>2. Len(wpScan.pages) = 0 /\ IsFiniteSet(wpFailed) /\ Cardinality(wpFailed) = 0
    BY <2>1, FS_EmptySet
  <2>3. AtOwnPayload
    BY <2>1 DEF AtOwnPayload
  <2> QED
    BY <2>1, <2>2, <2>3, ProbeAssumption DEF WpTyped
<1>2. WpWhole /\ WpTyped => WpTypeOK
  BY ChecksDiffer DEF WpWhole, WpInv, WpTyped, WpTypeOK
<1> QED
  BY <1>1, <1>2, ProbesGoOn, WpTypesMove, PTL DEF WpSpec

-----------------------------------------------------------------------------
(* The parts side by side *)

\* Whoever moves, a part makes a step of its own or stands still.
LEMMA PartsMove ==
    ASSUME [PartsNext]_partsVars
    PROVE  /\ part' = part
           /\ [ChNext]_chVars /\ [PcNext]_pcVars /\ [VlNext]_vlVars /\ [SoNext]_soVars /\ [CfNext]_cfVars /\ [PsNext]_psVars
           /\ [LcNext]_lcVars /\ [NuNext]_nuVars /\ [ExNext]_exVars /\ [AtNext]_atVars /\ [DbStep]_dbVars
           /\ [AgNext]_agVars /\ [WpNext]_wpVars /\ [PaNext]_paVars
<1>1. CASE Chain
  BY <1>1 DEF Chain
<1>2. CASE Providers
  BY <1>2 DEF Providers
<1>3. CASE Validator
  BY <1>3 DEF Validator
<1>4. CASE ScanRuns
  BY <1>4 DEF ScanRuns
<1>5. CASE Configuring
  BY <1>5 DEF Configuring
<1>6. CASE Searching
  BY <1>6 DEF Searching
<1>7. CASE Scanning
  BY <1>7 DEF Scanning
<1>8. CASE NucleiRuns
  BY <1>8 DEF NucleiRuns
<1>9. CASE Exchanging
  BY <1>9 DEF Exchanging
<1>10. CASE Calling
  BY <1>10 DEF Calling
<1>11. CASE Storing
  BY <1>11 DEF Storing
<1>12. CASE Agents
  BY <1>12 DEF Agents
<1>13. CASE Probing
  BY <1>13 DEF Probing
<1>14. CASE Resolving
  BY <1>14 DEF Resolving
<1>15. CASE UNCHANGED partsVars
  BY <1>15 DEF partsVars
<1> QED
  BY <1>1, <1>2, <1>3, <1>4, <1>5, <1>6, <1>7, <1>8, <1>9, <1>10, <1>11, <1>12, <1>13, <1>14, <1>15 DEF PartsNext

\* The parts side by side are each of them.
LEMMA PartsAreParts ==
    PartsSpec => /\ [](part \in Parts)
                 /\ ChSpec /\ PcSpec /\ VlSpec /\ SoSpec /\ CfSpec /\ PsSpec
                 /\ LcSpec /\ NuSpec /\ ExSpec /\ AtSpec /\ DbSpec
                 /\ AgSpec /\ WpSpec /\ PaSpec
<1>1. PartsInit => /\ part \in Parts
                   /\ ChInit /\ PcInit /\ VlInit /\ SoInit /\ CfInit /\ PsInit
                   /\ LcInit /\ NuInit /\ ExInit /\ AtInit /\ DbInit
                   /\ AgInit /\ WpInit /\ PaInit
  BY DEF PartsInit
<1>2. [PartsNext]_partsVars =>
          /\ part' = part
          /\ [ChNext]_chVars /\ [PcNext]_pcVars /\ [VlNext]_vlVars /\ [SoNext]_soVars /\ [CfNext]_cfVars /\ [PsNext]_psVars
          /\ [LcNext]_lcVars /\ [NuNext]_nuVars /\ [ExNext]_exVars /\ [AtNext]_atVars /\ [DbStep]_dbVars
          /\ [AgNext]_agVars /\ [WpNext]_wpVars /\ [PaNext]_paVars
  BY PartsMove
<1>3. part \in Parts /\ part' = part => (part \in Parts)'
  OBVIOUS
<1> QED
  BY <1>1, <1>2, <1>3, PTL DEF PartsSpec, ChSpec, PcSpec, VlSpec, SoSpec, CfSpec, PsSpec, LcSpec, NuSpec, ExSpec, AtSpec, DbSpec,
     AgSpec, WpSpec, PaSpec

\* Whichever part is at work, its variables keep their types, for every value of the
\* constants.
THEOREM PartsTypeCorrect == PartsSpec => []PartsTypeOK
<1> DEFINE Typed == /\ ChTypeOK /\ PcTypeOK /\ AgTypeOK /\ VlTypeOK /\ SoTypeOK /\ CfTypeOK /\ WpTypeOK
                    /\ PsTypeOK /\ LcTypeOK /\ NuTypeOK /\ PaTypeOK /\ ExTypeOK /\ AtTypeOK /\ DbTypeOK
<1>1. part \in Parts /\ Typed => PartsTypeOK
  BY Zenon DEF Parts, PartsTypeOK
<1>2. PartsSpec => []Typed
  BY PartsAreParts, ChainTyped, TestsTyped, PhaseTyped, BatchTyped, RunsTyped, FilesTyped, ProbesTyped,
     PatternTypeCorrect, LocalTyped, NucleiTyped, PathsTyped, ExchangesTyped, CallsTyped, StoreTyped, PTL
<1> HIDE DEF Typed
<1> QED
  BY <1>1, <1>2, PartsAreParts, PTL

\* An answer of the providers' chain, or of nuclei, is whole in every behaviour of the
\* parts (fallback.rs, vest-tools/src/nuclei.rs).
THEOREM OutsideAnswersWhole == PartsSpec => []OutsideAnswers
<1>1. AnswerOrExhausted /\ NucleiAnswerIsWhole => OutsideAnswers
  BY DEF OutsideAnswers
<1> QED
  BY <1>1, PartsAreParts, AnsweredOrExhausted, AnswerWhole, PTL

\* Scans of data at rest find the same however they look (pattern search of memory.rs,
\* scan_path_sync).
THEOREM DataFindsAreThere == PartsSpec => []DataFindsAgree
<1>1. FastAgrees /\ ItemsAreIndependent => DataFindsAgree
  BY DEF DataFindsAgree
<1> QED
  BY <1>1, PartsAreParts, FastFindsAll, ItemsIndependent, PTL

\* What an agent's tools reach is in scope in every behaviour of the parts: the files they
\* open and the hosts they call (fs_scope.rs, the scoped client).
THEOREM ScopesKeep == PartsSpec => []ScopesHold
<1>1. ReadStaysInside /\ EveryHopChecked => ScopesHold
  BY DEF ScopesHold
<1> QED
  BY <1>1, PartsAreParts, OpenedIsInside, HopsChecked, PTL

\* What is proved of a part holds of the parts together: what the agents' tools let out,
\* what the validator keeps, what the agents' phase keeps, what the probes report, what a
\* run of `vest scan` tells, what readers of the configuration get, what the database keeps,
\* and what reports tell of it.
THEOREM PartsKeep ==
    PartsSpec => /\ [](NothingLeavesUnasked /\ EveryHopChecked /\ FindingsSurvive)
                 /\ [](VotesDecide /\ ScannerFindingsStay /\ VulnerableReported)
                 /\ [](ExitCodesTell /\ NewFindingsNoticed /\ NoSilentDefaults)
                 /\ NothingIsLost /\ ReportsTell
<1> QED
  BY PartsAreParts, NothingLeaves, HopsChecked, WorthSurvives, VotesCounted, ScannersHeard, HolesReported,
     ExitCodesAreRight, NoneSlipsIn, WrittenIsRead, StoreKeeps, ReportsAreTrue, PTL
===============================================================================
