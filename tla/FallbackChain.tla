---------------------------- MODULE FallbackChain ----------------------------
(***************************************************************************)
(* The chain of LLM providers (vest-providers/src/fallback.rs): one call,  *)
(* the strategy that says whom to ask next, and the timeouts on the way.   *)
(* Providers are numbered in the order of the chain.  A call that is given *)
(* up is dropped: what its server still answers reaches nobody.            *)
(***************************************************************************)
EXTENDS ProviderClients

CONSTANT MaxChain       \* the longest chain that is looked at
ASSUME ChainAssumption == MaxChain \in Nat

Strategies == {"NextOnFailure", "NextOnRateLimit", "TryAllParallel"}

\* What the chain can hear of a provider: its client's outcome, or its own
\* timeout, or nothing ("unasked", "asked", and "dropped" when given up).
Heard == Outcomes \cup {"Timeout"}
Failed == ClientErrors \cup {"Timeout"}

VARIABLES
    chCall,     \* what the chain was built with and is asked for
    chHeard,    \* provider -> what was heard of it
    chLast,     \* the last failure heard (last_error)
    chResult    \* Idle, Running, or how the call ended

chVars == <<chCall, chHeard, chLast, chResult>>

Calls == [op : ClientOps, strategy : Strategies, clients : UNION {[1..n -> ClientKinds] : n \in 0..MaxChain},
          limit : BOOLEAN, overall : BOOLEAN]
NoCall == [op |-> "chat", strategy |-> "NextOnFailure", clients |-> <<>>,
           limit |-> FALSE, overall |-> FALSE]

Asked == DOMAIN chCall.clients
Chatting == chCall.op \in {"chat", "stream"}
Parallel == Chatting /\ chCall.strategy = "TryAllParallel"

\* How a call may end: with one provider's answer, with an error, or (listing
\* and checking models) with what the providers said together.
End(kind, value) == [is |-> kind, of |-> value]
ChainResults ==
    {End("answer", p) : p \in 1..MaxChain} \cup {End("error", e) : e \in Failed}
    \cup {End("models", of) : of \in SUBSET (1..MaxChain)} \cup {End("known", b) : b \in BOOLEAN}
Idle == End("idle", "")
Running == End("running", "")

ChTypeOK ==
    /\ chCall \in Calls
    /\ chHeard \in [Asked -> Heard \cup {"unasked", "asked", "dropped"}]
    /\ chLast \in Failed
    /\ chResult \in {Idle, Running} \cup ChainResults

ChInit ==
    /\ chCall = NoCall
    /\ chHeard = [p \in {} |-> "unasked"]
    /\ chLast = "Provider"
    /\ chResult = Idle

-----------------------------------------------------------------------------
\* Somebody calls chat, chat_stream, list_models, check_model or embed.
ChBegin(call) ==
    /\ chResult = Idle
    /\ chCall' = call
    /\ chHeard' = [p \in DOMAIN call.clients |-> "unasked"]
    /\ chResult' = Running
    /\ UNCHANGED chLast

\* One after the other: the next provider is asked once the one before it has
\* been heard.
AskNext ==
    /\ chResult = Running /\ ~Parallel
    /\ \A p \in Asked : chHeard[p] # "asked"
    /\ \E p \in Asked :
         /\ chHeard[p] = "unasked"
         /\ \A q \in 1..(p - 1) : chHeard[q] # "unasked"
         /\ chHeard' = [chHeard EXCEPT ![p] = "asked"]
    /\ UNCHANGED <<chCall, chLast, chResult>>

\* All at once; with none, an error.
AskAll ==
    /\ chResult = Running /\ Parallel
    /\ \A p \in Asked : chHeard[p] = "unasked"
    /\ chHeard' = [p \in Asked |-> "asked"]
    /\ chResult' = IF Asked = {} THEN End("error", "Provider") ELSE Running
    /\ UNCHANGED <<chCall, chLast>>

\* A failure after which the strategy does not ask the next provider.
IsFinal(outcome) ==
    /\ outcome \in Failed
    /\ Chatting /\ chCall.strategy = "NextOnRateLimit"
    /\ outcome \notin {"RateLimited", "Timeout"}

\* Whether what p said ends the call: an answer does, unless models are being
\* collected or looked for, where only a yes does.
IsAnswer(outcome) ==
    CASE chCall.op = "models" -> FALSE
      [] chCall.op = "check"  -> outcome = "text"
      [] OTHER                -> outcome \notin Failed

\* What is reported when everybody has been heard in vain.  The errors of a
\* plain chat and of a fan-out are put together into one of their own.
Exhausted ==
    CASE chCall.op = "models" -> End("models", {p \in Asked : chHeard'[p] \notin Failed})
      [] chCall.op = "check"  -> End("known", FALSE)
      [] Parallel             -> End("error", "Provider")
      [] chCall.op = "chat" /\ chCall.strategy = "NextOnFailure" -> End("error", "Provider")
      [] OTHER                -> End("error", chLast')

\* p is heard: the loop returns, goes on, or has come to its end.
Hear(p, outcome) ==
    /\ chResult = Running
    /\ chHeard[p] = "asked"
    /\ chHeard' = [q \in Asked |->
                     CASE q = p                                        -> outcome
                       [] q # p /\ IsAnswer(outcome) /\ chHeard[q] = "asked" -> "dropped"
                       [] OTHER                                        -> chHeard[q]]
    /\ chLast' = IF outcome \in Failed THEN outcome ELSE chLast
    /\ chResult' =
         CASE IsAnswer(outcome) /\ chCall.op = "check" -> End("known", TRUE)
           [] IsAnswer(outcome) /\ chCall.op # "check" -> End("answer", p)
           [] IsFinal(outcome)                         -> End("error", outcome)
           [] OTHER -> IF \E q \in Asked : chHeard'[q] \in {"unasked", "asked"}
                       THEN Running ELSE Exhausted
    /\ UNCHANGED chCall

\* The server answers, or the client's own timeout passes.
ProviderReplies(p, reply) == Hear(p, Outcome(chCall.clients[p], chCall.op, reply))

\* The chain's timeout for one provider; embedding and models have none.
ProviderTimesOut(p) == chCall.limit /\ Chatting /\ Hear(p, "Timeout")

\* The timeout of the whole fan-out.
OverallTimesOut ==
    /\ chResult = Running
    /\ Parallel /\ chCall.overall
    /\ \E p \in Asked : chHeard[p] = "asked"
    /\ chHeard' = [p \in Asked |-> IF chHeard[p] = "asked" THEN "dropped" ELSE chHeard[p]]
    /\ chResult' = End("error", "Timeout")
    /\ UNCHANGED <<chCall, chLast>>

\* A chain without providers has nobody to ask.
NobodyToAsk ==
    /\ chResult = Running /\ ~Parallel
    /\ Asked = {}
    /\ chHeard' = chHeard /\ chLast' = chLast
    /\ chResult' = Exhausted
    /\ UNCHANGED chCall

ChStep ==
    \/ AskNext \/ AskAll \/ NobodyToAsk
    \/ \E p \in Asked, reply \in Replies : ProviderReplies(p, reply)
    \/ \E p \in Asked : ProviderTimesOut(p)
    \/ OverallTimesOut

ChNext == (\E call \in Calls : ChBegin(call)) \/ ChStep

ChFairness == WF_chVars(ChStep)
ChSpec == ChInit /\ [][ChNext]_chVars /\ ChFairness

-----------------------------------------------------------------------------
(***************************************************************************)
(* What a caller of the chain relies on.                                   *)
(***************************************************************************)
Answered(p) == chHeard[p] \in {"text", "empty"}

\* The answer that is returned was given in time, and by the first provider of
\* the chain that had one (in a fan-out: everyone else had failed or was given
\* up).  An error means that nobody's answer was thrown away, and that everybody
\* was asked, unless the strategy stops at the last failure heard or the whole
\* fan-out ran out of time.
AnswerOrExhausted ==
    Chatting \/ chCall.op = "embed" =>
      /\ chResult.is = "answer" =>
           /\ Answered(chResult.of)
           /\ \A q \in Asked \ {chResult.of} :
                IF Parallel THEN chHeard[q] \in Failed \cup {"dropped"}
                ELSE IF q < chResult.of THEN chHeard[q] \in Failed
                ELSE chHeard[q] = "unasked"
      /\ chResult.is = "error" =>
           /\ \A p \in Asked : ~Answered(p)
           /\ \/ \A p \in Asked : chHeard[p] \in Failed
              \/ chCall.strategy = "NextOnRateLimit" /\ chResult.of = "Provider"
              \/ Parallel /\ chCall.overall /\ chResult.of = "Timeout"

\* Whatever the servers do, a call that has begun ends.
ChainBegun == chResult = Running
ChainOver == chResult.is \in {"answer", "error", "models", "known"}
=============================================================================
