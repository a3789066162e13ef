------------------------- MODULE ToolApprovalProofs -------------------------
(***************************************************************************)
(* Theorems about ToolApproval, for any number of agents, calls, scopes    *)
(* and iterations:                                                         *)
(*   - TypeCorrect;                                                        *)
(*   - ConsentFirst: no handler runs out of scope or without consent;      *)
(*   - OnceMeansOnce and YesHeard: with one agent, a yes allows one run    *)
(*     and is not forgotten (TLC refutes the former for two agents).       *)
(***************************************************************************)
EXTENDS ToolApproval, TLAPS

\* Two calls with one key are one call.
LEMMA KeyIsExact ==
    ASSUME NEW c \in Calls, NEW d \in Calls, Key(c) = Key(d)
    PROVE  c = d
  <1>1. c.tool = d.tool
    BY DEF Key
  <1>2. c.path = d.path /\ c.url = d.url /\ c.method = d.method
    BY DEF Key
  <1>3. /\ c = [tool |-> c.tool, path |-> c.path, url |-> c.url, method |-> c.method]
        /\ d = [tool |-> d.tool, path |-> d.path, url |-> d.url, method |-> d.method]
    BY CallsAssumption
  <1> QED  BY <1>1, <1>2, <1>3

\* A call somebody has to agree to is not one the policy lets pass by itself.
LEMMA ConsentIsSensitive ==
    ASSUME NEW c \in Calls, NeedsConsent(c)
    PROVE  /\ EffectOf(c) \in Sensitive
           /\ EffectOf(c) \notin Harmless
  BY DEF NeedsConsent, EffectOf, Sensitive, Harmless, Networking

-----------------------------------------------------------------------------
(* Types *)

AgentSet == [pc : Steps, call : Calls \cup {NoCall},
             asked : BOOLEAN, left : 0 .. MaxIterations]

LockSet == [readers : SUBSET Agents, writer : Agents \cup {NoAgent},
            queue : Seq(Agents)]

\* Every way the record of an agent changes keeps its type.
LEMMA GoesKeepsType ==
    ASSUME NEW a \in Agents, NEW pc \in Steps, agent \in [Agents -> AgentSet],
           Goes(a, pc)
    PROVE  /\ agent' \in [Agents -> AgentSet]
           /\ agent'[a].pc = pc /\ agent'[a].call = agent[a].call
           /\ agent'[a].asked = agent[a].asked
           /\ \A b \in Agents : b # a => agent'[b] = agent[b]
  BY DEF Goes, AgentSet

LEMMA LoopsKeepsType ==
    ASSUME NEW a \in Agents, agent \in [Agents -> AgentSet], Loops(a)
    PROVE  /\ agent' \in [Agents -> AgentSet]
           /\ agent'[a].pc = "chat" /\ ~agent'[a].asked
           /\ agent'[a].call = NoCall
           /\ \A b \in Agents : b # a => agent'[b] = agent[b]
  BY DEF Loops, AgentSet, Steps

LEMMA TypeInit == ASSUME Init PROVE TypeOK
  <1>1. /\ flags \in CommandLines /\ grants \subseteq Effects
        /\ tokens \subseteq {Key(c) : c \in Calls}
    BY FlagsAssumption DEF Init, Flags, Pregranted, Effects, Sensitive
  <1>2. lock \in [readers : SUBSET Agents, writer : Agents \cup {NoAgent},
                  queue : Seq(Agents)]
    BY DEF Init, FreeLock
  <1>3. /\ bucket \in 0 .. Burst
        /\ agent \in [Agents -> [pc : Steps, call : Calls \cup {NoCall},
                                 asked : BOOLEAN, left : 0 .. MaxIterations]]
        /\ yes \in [Calls -> Nat] /\ ran \in [Calls -> Nat]
    BY LimitsAssumption DEF Init, Steps
  <1> QED  BY <1>1, <1>2, <1>3 DEF TypeOK

\* What an agent is about while it works on a call.
Busy(a) == agent[a].pc \notin {"chat", "done"}
CallInv == \A a \in Agents : Busy(a) => agent[a].call \in Calls /\ InScope(agent[a].call)

TypeInv == TypeOK /\ CallInv

LEMMA TypeStep == ASSUME TypeInv, [Next]_vars PROVE TypeInv'
  <1> USE DEF TypeInv
  <1> SUFFICES ASSUME Next PROVE TypeInv'
    BY DEF vars, TypeOK, CallInv, Busy
  <1>0. agent \in [Agents -> AgentSet]
    BY DEF TypeOK, AgentSet
  <1>1. ASSUME NEW a \in Agents, NEW c \in Calls, AskTool(a, c) PROVE TypeInv'
    <2>1. /\ agent' \in [Agents -> AgentSet]
          /\ CallInv'
      BY <1>0, <1>1, LimitsAssumption DEF AskTool, AgentSet, Steps, CallInv, Busy
    <2> QED  BY <1>1, <2>1 DEF AskTool, TypeOK, AgentSet
  <1>2. ASSUME NEW a \in Agents, Talk(a) PROVE TypeInv'
    <2>1. /\ agent' \in [Agents -> AgentSet]
          /\ CallInv'
      BY <1>0, <1>2, LimitsAssumption DEF Talk, AgentSet, Steps, CallInv, Busy
    <2> QED  BY <1>2, <2>1 DEF Talk, TypeOK, AgentSet
  <1>3. ASSUME NEW a \in Agents, Finish(a) PROVE TypeInv'
    <2>1. agent' \in [Agents -> AgentSet] /\ CallInv'
      BY <1>0, <1>3, GoesKeepsType DEF Finish, Steps, CallInv, Busy
    <2> QED  BY <1>3, <2>1 DEF Finish, TypeOK, AgentSet
  <1>4. ASSUME NEW a \in Agents, StartLooking(a) PROVE TypeInv'
    <2>1. agent' \in [Agents -> AgentSet] /\ CallInv'
      BY <1>0, <1>4, GoesKeepsType DEF StartLooking, Steps, CallInv, Busy
    <2>2. lock' \in LockSet
      <3>1. lock \in LockSet
        BY DEF TypeOK, LockSet
      <3> QED  BY <1>4, <3>1 DEF StartLooking, LockSet
    <2> QED  BY <1>4, <2>1, <2>2 DEF StartLooking, TypeOK, AgentSet, LockSet
  <1>5. ASSUME NEW a \in Agents, EndLooking(a) PROVE TypeInv'
    <2>1. agent' \in [Agents -> AgentSet] /\ CallInv'
      BY <1>0, <1>5, GoesKeepsType DEF EndLooking, Steps, CallInv, Busy
    <2> QED  BY <1>5, <2>1 DEF EndLooking, TypeOK, AgentSet
  <1>6. ASSUME NEW a \in Agents, StartSpending(a) PROVE TypeInv'
    <2>1. agent' \in [Agents -> AgentSet] /\ CallInv'
      BY <1>0, <1>6, GoesKeepsType DEF StartSpending, Steps, CallInv, Busy
    <2> QED  BY <1>6, <2>1 DEF StartSpending, TypeOK, AgentSet
  <1>7. ASSUME NEW a \in Agents, EndSpending(a) PROVE TypeInv'
    <2>1. agent' \in [Agents -> AgentSet] /\ CallInv'
      BY <1>0, <1>7, GoesKeepsType DEF EndSpending, Steps, CallInv, Busy
    <2> QED  BY <1>7, <2>1 DEF EndSpending, TypeOK, AgentSet
  <1>8. ASSUME NEW a \in Agents, Judge(a) PROVE TypeInv'
    <2>1. agent' \in [Agents -> AgentSet] /\ CallInv'
      BY <1>0, <1>8, GoesKeepsType, LoopsKeepsType DEF Judge, Steps, CallInv, Busy
    <2> QED  BY <1>8, <2>1 DEF Judge, TypeOK, AgentSet
  <1>9. ASSUME NEW a \in Agents, StartGranting(a) PROVE TypeInv'
    <2>1. agent' \in [Agents -> AgentSet] /\ CallInv'
      BY <1>0, <1>9, GoesKeepsType DEF StartGranting, Steps, CallInv, Busy
    <2>2. Tail(lock.queue) \in Seq(Agents)
      BY <1>9 DEF StartGranting, TypeOK
    <2> QED  BY <1>9, <2>1, <2>2 DEF StartGranting, TypeOK, AgentSet
  <1>10. ASSUME NEW a \in Agents, EndGranting(a) PROVE TypeInv'
    <2>1. agent' \in [Agents -> AgentSet] /\ CallInv'
      BY <1>0, <1>10, GoesKeepsType DEF EndGranting, Steps, CallInv, Busy
    <2>2. agent[a].call \in Calls
      BY <1>10 DEF EndGranting, CallInv, Busy
    <2> QED  BY <1>10, <2>1, <2>2 DEF EndGranting, TypeOK, AgentSet
  <1>11. ASSUME NEW a \in Agents, Limit(a) PROVE TypeInv'
    <2>1. agent' \in [Agents -> AgentSet] /\ CallInv'
      BY <1>0, <1>11, GoesKeepsType, LoopsKeepsType DEF Limit, Steps, CallInv, Busy
    <2>2. bucket' \in 0 .. Burst
      BY <1>11, LimitsAssumption DEF Limit, TypeOK
    <2> QED  BY <1>11, <2>1, <2>2 DEF Limit, TypeOK, AgentSet
  <1>12. ASSUME NEW a \in Agents, Run(a) PROVE TypeInv'
    <2>1. agent' \in [Agents -> AgentSet] /\ CallInv'
      BY <1>0, <1>12, LoopsKeepsType DEF Run, CallInv, Busy
    <2>2. ran' \in [Calls -> Nat]
      <3>1. agent[a].call \in Calls
        BY <1>12 DEF Run, CallInv, Busy
      <3>2. ran \in [Calls -> Nat] /\ ran[agent[a].call] + 1 \in Nat
        BY <3>1 DEF TypeOK
      <3> QED  BY <1>12, <3>2 DEF Run
    <2> QED  BY <1>12, <2>1, <2>2 DEF Run, TypeOK, AgentSet
  <1>13. ASSUME NEW a \in Agents, NEW allow \in BOOLEAN, Answer(a, allow)
         PROVE  TypeInv'
    <2>1. agent' \in [Agents -> AgentSet] /\ CallInv'
      <3>1. CASE allow
        <4> DEFINE r == [agent[a] EXCEPT !.pc = "queue", !.asked = TRUE]
        <4>1. r \in AgentSet /\ r.call = agent[a].call
          BY <1>0 DEF AgentSet, Steps
        <4>2. agent' = [agent EXCEPT ![a] = r]
          BY <1>0, <1>13, <3>1 DEF Answer, AgentSet
        <4>3. agent[a].call \in Calls /\ InScope(agent[a].call)
          BY <1>13 DEF Answer, CallInv, Busy
        <4> HIDE DEF r
        <4> QED  BY <1>0, <4>1, <4>2, <4>3 DEF CallInv, Busy
      <3>2. CASE ~allow
        BY <1>0, <1>13, <3>2, LoopsKeepsType DEF Answer, CallInv, Busy
      <3> QED  BY <3>1, <3>2
    <2>2. lock' \in LockSet
      <3>1. lock \in LockSet /\ Append(lock.queue, a) \in Seq(Agents)
        BY DEF TypeOK, LockSet
      <3> QED  BY <1>13, <3>1 DEF Answer, LockSet
    <2>3. yes' \in [Calls -> Nat]
      BY <1>13 DEF Answer, TypeOK, CallInv, Busy
    <2> QED  BY <1>13, <2>1, <2>2, <2>3 DEF Answer, TypeOK, AgentSet, LockSet
  <1>14. CASE Refill
    BY <1>14, LimitsAssumption DEF Refill, TypeOK, CallInv, Busy
  <1>15. ASSUME NEW e \in grants, GrantExpires(e) PROVE TypeInv'
    BY <1>15 DEF GrantExpires, TypeOK, CallInv, Busy
  <1>16. ASSUME NEW k \in tokens, TokenExpires(k) PROVE TypeInv'
    BY <1>16 DEF TokenExpires, TypeOK, CallInv, Busy
  <1>17. ASSUME NEW a \in Agents, ShowPrompt(a) PROVE TypeInv'
    <2>1. agent' \in [Agents -> AgentSet] /\ CallInv'
      BY <1>0, <1>17, GoesKeepsType DEF ShowPrompt, Steps, CallInv, Busy
    <2> QED  BY <1>17, <2>1 DEF ShowPrompt, TypeOK, AgentSet
  <1> QED
    BY <1>1, <1>2, <1>3, <1>4, <1>5, <1>6, <1>7, <1>8, <1>9, <1>10, <1>11,
       <1>12, <1>13, <1>14, <1>15, <1>16, <1>17 DEF Next, Works

\* Every variable holds a value of its kind in every reachable state.
THEOREM TypeCorrect == Spec => []TypeOK
  <1>1. Init => TypeInv
    BY TypeInit DEF TypeInv, CallInv, Busy, Init
  <1>2. TypeInv /\ [Next]_vars => TypeInv'
    BY TypeStep
  <1>3. TypeInv => TypeOK
    BY DEF TypeInv
  <1> QED  BY <1>1, <1>2, <1>3, PTL DEF Spec

-----------------------------------------------------------------------------
(* Consent comes first *)

\* What lets a call run: a flag, its effect, or an answer of the operator.
Allowed(c) == EffectOf(c) \in Pregranted(flags) \cup Harmless \/ yes[c] > 0

\* A grant comes from a flag; a token, from an answer about this call.
GrantsInv == grants \subseteq Pregranted(flags)
TokensInv == \A c \in Calls : Key(c) \in tokens => yes[c] > 0
AnsweredInv == \A a \in Agents :
    agent[a].pc \in {"queue", "granting"} => yes[agent[a].call] > 0
\* An agent past the judgement has a call that may run; what ran, could.
AllowedInv == \A a \in Agents :
    agent[a].pc \in {"spend", "spending", "limit", "run"}
        => Allowed(agent[a].call)
RanInv == \A c \in Calls : ran[c] > 0 => InScope(c) /\ Allowed(c)

ConsentInv == /\ TypeInv
              /\ GrantsInv /\ TokensInv /\ AnsweredInv /\ AllowedInv /\ RanInv

LEMMA ConsentInit == ASSUME Init PROVE ConsentInv
  <1>1. TypeInv
    BY TypeInit DEF TypeInv, CallInv, Busy, Init
  <1> QED
    BY <1>1 DEF Init, ConsentInv, GrantsInv, TokensInv, AnsweredInv, AllowedInv, RanInv

\* Answers are never taken back, so what is allowed stays allowed.
LEMMA AllowedStays ==
    ASSUME TypeInv, NEW c \in Calls, Allowed(c), flags' = flags,
           yes' \in [Calls -> Nat], yes'[c] >= yes[c]
    PROVE  Allowed(c)'
  BY DEF Allowed, TypeInv, TypeOK

\* A step that leaves the operator and the handlers out of it.
LEMMA ConsentFrame ==
    ASSUME ConsentInv, TypeInv', UNCHANGED <<flags, yes, ran>>,
           grants' \subseteq grants, tokens' \subseteq tokens,
           NEW a \in Agents,
           \A b \in Agents : b # a => agent'[b] = agent[b],
           agent'[a].pc \in {"queue", "granting"} => yes[agent'[a].call] > 0,
           agent'[a].pc \in {"spend", "spending", "limit", "run"}
               => Allowed(agent'[a].call)
    PROVE  ConsentInv'
  <1> USE DEF ConsentInv
  <1>1. GrantsInv' /\ TokensInv'
    BY DEF GrantsInv, TokensInv
  <1>2. AnsweredInv'
    BY DEF AnsweredInv
  <1>3. AllowedInv'
    BY DEF AllowedInv, Allowed
  <1>4. RanInv'
    BY DEF RanInv, Allowed
  <1> QED  BY <1>1, <1>2, <1>3, <1>4

LEMMA ConsentStep == ASSUME ConsentInv, [Next]_vars PROVE ConsentInv'
  <1> USE DEF ConsentInv
  <1>0. TypeInv' /\ agent \in [Agents -> AgentSet]
    BY TypeStep DEF TypeInv, TypeOK, AgentSet
  <1> SUFFICES ASSUME Next PROVE ConsentInv'
    BY <1>0 DEF vars, TypeInv, TypeOK, CallInv, Busy, GrantsInv, TokensInv,
       AnsweredInv, AllowedInv, Allowed, RanInv
  <1>1. ASSUME NEW a \in Agents, NEW c \in Calls, AskTool(a, c) PROVE ConsentInv'
    <2>1. /\ \A b \in Agents : b # a => agent'[b] = agent[b]
          /\ agent'[a].pc \in {"look", "chat"}
      BY <1>0, <1>1 DEF AskTool, AgentSet
    <2> QED  BY <1>0, <1>1, <2>1, ConsentFrame DEF AskTool
  <1>2. ASSUME NEW a \in Agents, Talk(a) PROVE ConsentInv'
    <2>1. /\ \A b \in Agents : b # a => agent'[b] = agent[b]
          /\ agent'[a].pc = "chat"
      BY <1>0, <1>2 DEF Talk, AgentSet
    <2> QED  BY <1>0, <1>2, <2>1, ConsentFrame DEF Talk
  <1>3. ASSUME NEW a \in Agents, Finish(a) PROVE ConsentInv'
    BY <1>0, <1>3, GoesKeepsType, ConsentFrame DEF Finish, Steps
  <1>4. ASSUME NEW a \in Agents, StartLooking(a) PROVE ConsentInv'
    BY <1>0, <1>4, GoesKeepsType, ConsentFrame DEF StartLooking, Steps
  <1>5. ASSUME NEW a \in Agents, EndLooking(a) PROVE ConsentInv'
    <2>1. agent[a].call \in Calls
      BY <1>5 DEF EndLooking, TypeInv, CallInv, Busy
    <2>2. Key(agent[a].call) \in tokens => Allowed(agent[a].call)
      BY <2>1 DEF TokensInv, Allowed
    <2> QED  BY <1>0, <1>5, <2>2, GoesKeepsType, ConsentFrame DEF EndLooking, Steps
  <1>6. ASSUME NEW a \in Agents, StartSpending(a) PROVE ConsentInv'
    <2>1. Allowed(agent[a].call)
      BY <1>6 DEF StartSpending, AllowedInv
    <2> QED  BY <1>0, <1>6, <2>1, GoesKeepsType, ConsentFrame DEF StartSpending, Steps
  <1>7. ASSUME NEW a \in Agents, EndSpending(a) PROVE ConsentInv'
    <2>1. Allowed(agent[a].call)
      BY <1>7 DEF EndSpending, AllowedInv
    <2> QED  BY <1>0, <1>7, <2>1, GoesKeepsType, ConsentFrame DEF EndSpending, Steps
  <1>8. ASSUME NEW a \in Agents, Judge(a) PROVE ConsentInv'
    <2>1. EffectOf(agent[a].call) \in grants \cup Harmless => Allowed(agent[a].call)
      BY DEF GrantsInv, Allowed
    <2> QED
      BY <1>0, <1>8, <2>1, GoesKeepsType, LoopsKeepsType, ConsentFrame DEF Judge, Steps
  <1>9. ASSUME NEW a \in Agents, StartGranting(a) PROVE ConsentInv'
    <2>1. yes[agent[a].call] > 0
      BY <1>9 DEF StartGranting, AnsweredInv
    <2> QED  BY <1>0, <1>9, <2>1, GoesKeepsType, ConsentFrame DEF StartGranting, Steps
  <1>10. ASSUME NEW a \in Agents, EndGranting(a) PROVE ConsentInv'
    <2>1. agent[a].call \in Calls /\ yes[agent[a].call] > 0
      BY <1>10 DEF EndGranting, AnsweredInv, TypeInv, CallInv, Busy
    <2>2. /\ agent'[a].pc = "look"
          /\ \A b \in Agents : b # a => agent'[b] = agent[b]
      BY <1>0, <1>10, GoesKeepsType DEF EndGranting, Steps
    <2>3. TokensInv'
      <3> SUFFICES ASSUME NEW c \in Calls, Key(c) \in tokens' PROVE yes[c] > 0
        BY <1>10 DEF TokensInv, EndGranting
      <3>1. CASE Key(c) \in tokens
        BY <3>1 DEF TokensInv
      <3>2. CASE Key(c) = Key(agent[a].call)
        BY <2>1, <3>2, KeyIsExact
      <3> QED  BY <1>10, <3>1, <3>2 DEF EndGranting
    <2>4. GrantsInv' /\ AnsweredInv' /\ AllowedInv' /\ RanInv'
      BY <1>10, <2>2 DEF EndGranting, GrantsInv, AnsweredInv, AllowedInv, Allowed, RanInv
    <2> QED  BY <1>0, <2>3, <2>4
  <1>11. ASSUME NEW a \in Agents, Limit(a) PROVE ConsentInv'
    <2>1. Allowed(agent[a].call)
      BY <1>11 DEF Limit, AllowedInv
    <2> QED
      BY <1>0, <1>11, <2>1, GoesKeepsType, LoopsKeepsType, ConsentFrame DEF Limit, Steps
  <1>12. ASSUME NEW a \in Agents, Run(a) PROVE ConsentInv'
    <2>1. /\ agent[a].call \in Calls /\ InScope(agent[a].call)
          /\ Allowed(agent[a].call)
      BY <1>12 DEF Run, AllowedInv, TypeInv, CallInv, Busy
    <2>2. /\ agent'[a].pc = "chat"
          /\ \A b \in Agents : b # a => agent'[b] = agent[b]
      BY <1>0, <1>12, LoopsKeepsType DEF Run
    <2>3. \A c \in Calls : ran'[c] = ran[c] \/ c = agent[a].call
      BY <1>12 DEF Run, TypeInv, TypeOK
    <2>4. RanInv'
      BY <1>12, <2>1, <2>3 DEF Run, RanInv, Allowed
    <2> QED
      BY <1>0, <1>12, <2>2, <2>4 DEF Run, GrantsInv, TokensInv, AnsweredInv,
         AllowedInv, Allowed
  <1>13. ASSUME NEW a \in Agents, NEW allow \in BOOLEAN, Answer(a, allow)
         PROVE  ConsentInv'
    <2>1. CASE ~allow
      BY <1>0, <1>13, <2>1, LoopsKeepsType, ConsentFrame DEF Answer
    <2>2. CASE allow
      <3> DEFINE c == agent[a].call
      <3>1. c \in Calls
        BY <1>13 DEF Answer, TypeInv, CallInv, Busy
      <3>2. /\ agent'[a].pc = "queue" /\ agent'[a].call = c
            /\ \A b \in Agents : b # a => agent'[b] = agent[b]
        BY <1>0, <1>13, <2>2 DEF Answer, AgentSet
      <3>3. yes \in [Calls -> Nat] /\ yes' = [yes EXCEPT ![c] = @ + 1]
        BY <1>13, <2>2 DEF Answer, TypeInv, TypeOK
      <3> HIDE DEF c
      <3>4. yes'[c] > 0 /\ \A d \in Calls : yes'[d] >= yes[d]
        BY <3>1, <3>3
      <3>5. flags' = flags /\ grants' = grants /\ tokens' = tokens /\ ran' = ran
        BY <1>13 DEF Answer
      <3>6. \A d \in Calls : Allowed(d) => Allowed(d)'
        BY <1>0, <3>4, <3>5, AllowedStays DEF TypeInv, TypeOK
      <3>7. \A d \in Calls : yes[d] > 0 => yes'[d] > 0
        BY <3>3, <3>4
      <3>8. \A b \in Agents : Busy(b) => agent[b].call \in Calls
        BY DEF TypeInv, CallInv
      <3>9. AllowedInv'
        <4> SUFFICES ASSUME NEW b \in Agents,
                            agent'[b].pc \in {"spend", "spending", "limit", "run"}
                     PROVE  Allowed(agent[b].call)'
          BY DEF AllowedInv
        <4>1. b # a /\ agent'[b] = agent[b]
          BY <3>2
        <4>2. agent[b].call \in Calls /\ Allowed(agent[b].call)
          BY <3>8, <4>1 DEF AllowedInv, Busy
        <4>3. PICK d \in Calls : d = agent[b].call
          BY <4>2
        <4>4. Allowed(d)'
          BY <3>6, <4>2, <4>3
        <4> QED  BY <4>1, <4>3, <4>4 DEF Allowed
      <3>10. GrantsInv' /\ TokensInv'
        BY <3>5, <3>7 DEF GrantsInv, TokensInv
      <3>11. AnsweredInv'
        BY <3>2, <3>4, <3>7, <3>8 DEF AnsweredInv, Busy
      <3>12. RanInv'
        BY <3>5, <3>6 DEF RanInv
      <3> QED  BY <1>0, <3>9, <3>10, <3>11, <3>12
    <2> QED  BY <2>1, <2>2
  <1>14. CASE Refill
    BY <1>0, <1>14 DEF Refill, GrantsInv, TokensInv, AnsweredInv, AllowedInv,
       Allowed, RanInv
  <1>15. ASSUME NEW e \in grants, GrantExpires(e) PROVE ConsentInv'
    BY <1>0, <1>15 DEF GrantExpires, GrantsInv, TokensInv, AnsweredInv,
       AllowedInv, Allowed, RanInv
  <1>16. ASSUME NEW k \in tokens, TokenExpires(k) PROVE ConsentInv'
    BY <1>0, <1>16 DEF TokenExpires, GrantsInv, TokensInv, AnsweredInv,
       AllowedInv, Allowed, RanInv
  <1>17. ASSUME NEW a \in Agents, ShowPrompt(a) PROVE ConsentInv'
    BY <1>0, <1>17, GoesKeepsType, ConsentFrame DEF ShowPrompt, Steps
  <1> QED
    BY <1>1, <1>2, <1>3, <1>4, <1>5, <1>6, <1>7, <1>8, <1>9, <1>10, <1>11,
       <1>12, <1>13, <1>14, <1>15, <1>16, <1>17 DEF Next, Works

\* What a flag or an effect lets run, in the words of the property.
LEMMA AllowedIsConsent ==
    ASSUME NEW c \in Calls, InScope(c), Allowed(c)
    PROVE  /\ Declared(c) \in OnFiles => c.path \in Paths
           /\ Declared(c) \in Networking => c.url \in Urls
           /\ Declared(c) # "Unknown"
           /\ NeedsConsent(c) => \/ yes[c] > 0
                                 \/ Declared(c) \in Pregranted(flags)
                                 \/ /\ c.method \in StateChanging
                                    /\ "StateChangingNetworkRequest"
                                           \in Pregranted(flags)
  <1>1. EffectOf(c) = Declared(c) \/
        /\ c.method \in StateChanging
        /\ Declared(c) \in {"PassiveNetworkRequest", "NetworkMetadataRead"}
        /\ EffectOf(c) = "StateChangingNetworkRequest"
    BY DEF EffectOf
  <1>2. /\ Declared(c) \in OnFiles => c.path \in Paths
        /\ Declared(c) \in Networking => c.url \in Urls
        /\ Declared(c) # "Unknown"
    BY <1>1 DEF InScope, OnFiles, Networking
  <1>3. NeedsConsent(c) => EffectOf(c) \in Pregranted(flags) \/ yes[c] > 0
    BY ConsentIsSensitive DEF Allowed
  <1> QED  BY <1>1, <1>2, <1>3

\* Nothing runs out of scope, nor a sensitive call without a yes or a flag,
\* however many agents share the policy engine and however they interleave.
THEOREM ConsentFirst == Spec => []OnlyAuthorisedRuns
  <1>1. Init => ConsentInv
    BY ConsentInit
  <1>2. ConsentInv /\ [Next]_vars => ConsentInv'
    BY ConsentStep
  <1>3. ConsentInv => OnlyAuthorisedRuns
    BY AllowedIsConsent DEF ConsentInv, RanInv, OnlyAuthorisedRuns
  <1> QED  BY <1>1, <1>2, <1>3, PTL DEF Spec

-----------------------------------------------------------------------------
(* One agent: the tool-use pattern *)

OneAgent == \A a, b \in Agents : a = b

\* A call that runs only on an answer of the operator.
OnAnswer(c) == NeedsConsent(c) /\ EffectOf(c) \notin Pregranted(flags)

\* The lock is held by the agent, where its program counter says so.
LockInv == \A a \in Agents :
    /\ lock.readers = {b \in {a} : agent[a].pc = "looking"}
    /\ agent[a].pc \in {"spending", "granting"} => lock.writer = a
    /\ agent[a].pc \notin {"spending", "granting"} => lock.writer = NoAgent
    /\ agent[a].pc = "queue" => lock.queue = <<a>>
    /\ agent[a].pc # "queue" => lock.queue = <<>>

\* A token is for the call the operator was just asked about; it is there
\* when the agent looks for it, and gone once it is spent.
TokenInv == \A a \in Agents :
    /\ agent[a].asked /\ agent[a].pc \in {"look", "looking"}
           => Key(agent[a].call) \in tokens
    /\ \A k \in tokens :
           /\ agent[a].asked
           /\ agent[a].pc \in {"look", "looking", "spend", "spending"}
           /\ k = Key(agent[a].call)
    /\ agent[a].asked =>
           agent[a].pc \in {"queue", "granting", "look", "looking", "spend",
                            "spending", "limit", "run"}
    /\ agent[a].pc \in {"queue", "granting", "spend", "spending"} => agent[a].asked

\* What ran is paid for, and so is what the operator was asked about.
PaidInv == \A c \in Calls : OnAnswer(c) =>
    /\ ran[c] <= yes[c]
    /\ \A a \in Agents : agent[a].call = c =>
           /\ agent[a].asked => ran[c] < yes[c]
           /\ agent[a].pc \in {"limit", "run"} => agent[a].asked

SingleInv == ConsentInv /\ LockInv /\ TokenInv /\ PaidInv

LEMMA SingleInit == ASSUME OneAgent, Init PROVE SingleInv
  <1>1. ConsentInv
    BY ConsentInit
  <1>2. NoAgent \notin Agents
    BY AgentsAssumption
  <1> QED
    BY <1>1, <1>2 DEF Init, FreeLock, SingleInv, LockInv, TokenInv, PaidInv

LEMMA SingleStep == ASSUME OneAgent, SingleInv, [Next]_vars PROVE SingleInv'
  <1> USE DEF SingleInv
  <1>0. /\ ConsentInv' /\ TypeInv /\ agent \in [Agents -> AgentSet]
        /\ yes \in [Calls -> Nat] /\ ran \in [Calls -> Nat]
        /\ NoCall \notin Calls
    BY ConsentStep, CallsAssumption DEF ConsentInv, TypeInv, TypeOK, AgentSet
  <1> SUFFICES ASSUME Next PROVE LockInv' /\ TokenInv' /\ PaidInv'
    BY <1>0 DEF vars, LockInv, TokenInv, PaidInv, OnAnswer
  <1>a. ASSUME NEW a \in Agents PROVE \A b \in Agents : b = a
    BY DEF OneAgent
  <1>1. ASSUME NEW a \in Agents, NEW c \in Calls, AskTool(a, c)
        PROVE  LockInv' /\ TokenInv' /\ PaidInv'
    <2>1. /\ agent[a].pc = "chat" /\ agent'[a].asked = agent[a].asked
          /\ agent'[a].pc \in {"look", "chat"}
      BY <1>0, <1>1 DEF AskTool, AgentSet
    <2>2. ~agent[a].asked /\ tokens = {}
      BY <2>1 DEF TokenInv
    <2> QED
      BY <1>1, <1>a, <2>1, <2>2 DEF AskTool, LockInv, TokenInv, PaidInv, OnAnswer
  <1>2. ASSUME NEW a \in Agents, Talk(a) PROVE LockInv' /\ TokenInv' /\ PaidInv'
    <2>1. /\ agent'[a].pc = agent[a].pc /\ agent'[a].asked = agent[a].asked
          /\ agent'[a].call = agent[a].call
      BY <1>0, <1>2 DEF Talk, AgentSet
    <2> QED
      BY <1>2, <1>a, <2>1 DEF Talk, LockInv, TokenInv, PaidInv, OnAnswer
  <1>3. ASSUME NEW a \in Agents, Finish(a) PROVE LockInv' /\ TokenInv' /\ PaidInv'
    <2>1. /\ agent[a].pc = "chat" /\ agent'[a].pc = "done"
          /\ agent'[a].asked = agent[a].asked /\ agent'[a].call = agent[a].call
      BY <1>0, <1>3, GoesKeepsType DEF Finish, Steps
    <2> QED
      BY <1>3, <1>a, <2>1 DEF Finish, LockInv, TokenInv, PaidInv, OnAnswer
  <1>4. ASSUME NEW a \in Agents, StartLooking(a) PROVE LockInv' /\ TokenInv' /\ PaidInv'
    <2>1. agent[a].pc = "look" /\ Readable /\ lock.readers = {}
      BY <1>4 DEF StartLooking, LockInv, Readable
    <2>2. /\ agent'[a].pc = "looking"
          /\ agent'[a].asked = agent[a].asked /\ agent'[a].call = agent[a].call
      BY <1>0, <1>4, <2>1, GoesKeepsType DEF StartLooking, Steps
    <2>3. lock' = [lock EXCEPT !.readers = {a}]
      BY <1>4, <2>1 DEF StartLooking
    <2>4. LockInv'
      BY <1>0, <1>a, <2>1, <2>2, <2>3 DEF LockInv, TypeInv, TypeOK
    <2> QED
      BY <1>4, <1>a, <2>1, <2>2, <2>4 DEF StartLooking, TokenInv, PaidInv, OnAnswer
  <1>5. ASSUME NEW a \in Agents, EndLooking(a) PROVE LockInv' /\ TokenInv' /\ PaidInv'
    <2>1. agent[a].pc = "looking" /\ lock.readers = {a} /\ agent[a].call \in Calls
      BY <1>0, <1>5 DEF EndLooking, LockInv, TypeInv, CallInv, Busy
    <2>2. /\ agent'[a].asked = agent[a].asked /\ agent'[a].call = agent[a].call
          /\ \/ agent'[a].pc = "spend" /\ agent[a].asked
             \/ agent'[a].pc = "judge" /\ ~agent[a].asked /\ tokens = {}
      BY <1>0, <1>5, <2>1, GoesKeepsType DEF EndLooking, Steps, TokenInv
    <2>3. lock' = [lock EXCEPT !.readers = {}]
      BY <1>5, <2>1 DEF EndLooking
    <2>4. LockInv'
      BY <1>0, <1>a, <2>1, <2>2, <2>3 DEF LockInv, TypeInv, TypeOK
    <2> QED
      BY <1>5, <1>a, <2>1, <2>2, <2>4 DEF EndLooking, TokenInv, PaidInv, OnAnswer
  <1>6. ASSUME NEW a \in Agents, StartSpending(a) PROVE LockInv' /\ TokenInv' /\ PaidInv'
    <2>1. agent[a].pc = "spend" /\ Writable
      BY <1>6 DEF StartSpending, LockInv, Writable, Readable
    <2>2. /\ agent'[a].pc = "spending" /\ lock' = [lock EXCEPT !.writer = a]
          /\ agent'[a].asked = agent[a].asked /\ agent'[a].call = agent[a].call
      BY <1>0, <1>6, <2>1, GoesKeepsType DEF StartSpending, Steps
    <2>3. LockInv'
      BY <1>0, <1>a, <2>1, <2>2 DEF LockInv, TypeInv, TypeOK
    <2> QED
      BY <1>6, <1>a, <2>1, <2>2, <2>3 DEF StartSpending, TokenInv, PaidInv, OnAnswer
  <1>7. ASSUME NEW a \in Agents, EndSpending(a) PROVE LockInv' /\ TokenInv' /\ PaidInv'
    <2>1. agent[a].pc = "spending" /\ agent[a].asked
      BY <1>7 DEF EndSpending, TokenInv
    <2>2. /\ agent'[a].pc = "limit" /\ lock' = [lock EXCEPT !.writer = NoAgent]
          /\ agent'[a].asked = agent[a].asked /\ agent'[a].call = agent[a].call
      BY <1>0, <1>7, <2>1, GoesKeepsType DEF EndSpending, Steps
    <2>3. LockInv'
      BY <1>0, <1>a, <2>1, <2>2 DEF LockInv, TypeInv, TypeOK
    <2>4. tokens' = {}
      BY <1>7 DEF EndSpending, TokenInv
    <2> QED
      BY <1>7, <1>a, <2>1, <2>2, <2>3, <2>4 DEF EndSpending, TokenInv, PaidInv, OnAnswer
  <1>8. ASSUME NEW a \in Agents, Judge(a) PROVE LockInv' /\ TokenInv' /\ PaidInv'
    <2>1. /\ agent[a].pc = "judge" /\ ~agent[a].asked /\ tokens = {}
          /\ agent[a].call \in Calls
      BY <1>0, <1>8 DEF Judge, TokenInv, TypeInv, CallInv, Busy
    <2>2. EffectOf(agent[a].call) \in grants \cup Harmless => ~OnAnswer(agent[a].call)
      BY <2>1, ConsentIsSensitive DEF OnAnswer, ConsentInv, GrantsInv
    <2>3. \/ /\ agent'[a].pc = "limit" /\ ~OnAnswer(agent[a].call)
             /\ agent'[a].asked = agent[a].asked /\ agent'[a].call = agent[a].call
          \/ /\ agent'[a].pc = "ask"
             /\ agent'[a].asked = agent[a].asked /\ agent'[a].call = agent[a].call
          \/ /\ agent'[a].pc = "chat" /\ ~agent'[a].asked
      BY <1>0, <1>8, <2>1, <2>2, GoesKeepsType, LoopsKeepsType DEF Judge, Steps
    <2>4. LockInv'
      BY <1>8, <1>a, <2>1, <2>3 DEF Judge, LockInv
    <2>5. TokenInv'
      BY <1>8, <1>a, <2>1, <2>3 DEF Judge, TokenInv
    <2>6. PaidInv'
      BY <1>8, <1>a, <2>1, <2>3 DEF Judge, PaidInv, OnAnswer
    <2> QED  BY <2>4, <2>5, <2>6
  <1>9. ASSUME NEW a \in Agents, StartGranting(a) PROVE LockInv' /\ TokenInv' /\ PaidInv'
    <2>1. agent[a].pc = "queue" /\ lock.queue = <<a>> /\ agent[a].asked
      BY <1>9 DEF StartGranting, LockInv, TokenInv
    <2>2. /\ agent'[a].pc = "granting"
          /\ agent'[a].asked = agent[a].asked /\ agent'[a].call = agent[a].call
      BY <1>0, <1>9, <2>1, GoesKeepsType DEF StartGranting, Steps
    <2>3. /\ lock'.readers = {} /\ lock'.writer = a /\ lock'.queue = <<>>
      BY <1>0, <1>9, <2>1 DEF StartGranting, TypeInv, TypeOK
    <2>4. LockInv'
      BY <1>a, <2>2, <2>3 DEF LockInv
    <2>5. /\ tokens' = {} /\ tokens = {}
          /\ flags' = flags /\ yes' = yes /\ ran' = ran
      BY <1>9, <2>1 DEF StartGranting, TokenInv
    <2>6. TokenInv'
      BY <1>a, <2>1, <2>2, <2>5 DEF TokenInv
    <2>7. PaidInv'
      BY <1>a, <2>1, <2>2, <2>5 DEF PaidInv, OnAnswer
    <2> QED  BY <2>4, <2>6, <2>7
  <1>10. ASSUME NEW a \in Agents, EndGranting(a) PROVE LockInv' /\ TokenInv' /\ PaidInv'
    <2>1. agent[a].pc = "granting" /\ agent[a].asked /\ tokens = {}
      BY <1>10 DEF EndGranting, TokenInv
    <2>2. /\ agent'[a].pc = "look" /\ lock' = [lock EXCEPT !.writer = NoAgent]
          /\ agent'[a].asked = agent[a].asked /\ agent'[a].call = agent[a].call
      BY <1>0, <1>10, <2>1, GoesKeepsType DEF EndGranting, Steps
    <2>3. LockInv'
      BY <1>0, <1>a, <2>1, <2>2 DEF LockInv, TypeInv, TypeOK
    <2>4. tokens' = {Key(agent[a].call)}
      BY <1>10, <2>1 DEF EndGranting
    <2>5. TokenInv'
      BY <1>a, <2>1, <2>2, <2>4 DEF TokenInv
    <2> QED
      BY <1>10, <1>a, <2>1, <2>2, <2>3, <2>5 DEF EndGranting, PaidInv, OnAnswer
  <1>11. ASSUME NEW a \in Agents, Limit(a) PROVE LockInv' /\ TokenInv' /\ PaidInv'
    <2>1. agent[a].pc = "limit" /\ tokens = {}
      BY <1>11 DEF Limit, TokenInv
    <2>2. \/ /\ agent'[a].pc = "run"
             /\ agent'[a].asked = agent[a].asked /\ agent'[a].call = agent[a].call
          \/ /\ agent'[a].pc = "chat" /\ ~agent'[a].asked
      BY <1>0, <1>11, GoesKeepsType, LoopsKeepsType DEF Limit, Steps
    <2>3. LockInv'
      BY <1>11, <1>a, <2>1, <2>2 DEF Limit, LockInv
    <2>4. TokenInv'
      BY <1>11, <1>a, <2>1, <2>2 DEF Limit, TokenInv
    <2>5. PaidInv'
      BY <1>11, <1>a, <2>1, <2>2 DEF Limit, PaidInv, OnAnswer
    <2> QED  BY <2>3, <2>4, <2>5
  <1>12. ASSUME NEW a \in Agents, Run(a) PROVE LockInv' /\ TokenInv' /\ PaidInv'
    <2>1. agent[a].pc = "run" /\ tokens = {} /\ agent[a].call \in Calls
      BY <1>0, <1>12 DEF Run, TokenInv, TypeInv, CallInv, Busy
    <2>2. agent'[a].pc = "chat" /\ ~agent'[a].asked
      BY <1>0, <1>12, LoopsKeepsType DEF Run
    <2>3. LockInv' /\ TokenInv'
      BY <1>12, <1>a, <2>1, <2>2 DEF Run, LockInv, TokenInv
    <2>4. PaidInv'
      <3> SUFFICES ASSUME NEW c \in Calls, OnAnswer(c) PROVE ran'[c] <= yes[c]
        BY <1>12, <1>a, <2>2 DEF Run, PaidInv, OnAnswer
      <3>1. CASE c = agent[a].call
        <4>1. ran[c] < yes[c]
          BY <2>1, <3>1 DEF PaidInv
        <4>2. ran'[c] = ran[c] + 1
          BY <1>0, <1>12, <3>1 DEF Run
        <4> QED  BY <1>0, <4>1, <4>2
      <3>2. CASE c # agent[a].call
        BY <1>0, <1>12, <3>2 DEF Run, PaidInv
      <3> QED  BY <3>1, <3>2
    <2> QED  BY <2>3, <2>4
  <1>13. ASSUME NEW a \in Agents, NEW allow \in BOOLEAN, Answer(a, allow)
         PROVE  LockInv' /\ TokenInv' /\ PaidInv'
    <2>1. /\ agent[a].pc = "prompt" /\ tokens = {} /\ ~agent[a].asked
          /\ agent[a].call \in Calls /\ lock.queue = <<>> /\ tokens' = {}
          /\ lock.writer = NoAgent /\ lock.readers = {}
      BY <1>0, <1>13 DEF Answer, TokenInv, TypeInv, CallInv, Busy, LockInv
    <2>2. CASE ~allow
      <3>1. agent'[a].pc = "chat" /\ ~agent'[a].asked
        BY <1>0, <1>13, <2>2, LoopsKeepsType DEF Answer
      <3>2. LockInv' /\ TokenInv'
        BY <1>13, <1>a, <2>1, <2>2, <3>1 DEF Answer, LockInv, TokenInv
      <3>3. PaidInv'
        BY <1>13, <1>a, <2>1, <2>2, <3>1 DEF Answer, PaidInv, OnAnswer
      <3> QED  BY <3>2, <3>3
    <2>3. CASE allow
      <3>1. /\ agent'[a].pc = "queue" /\ agent'[a].asked
            /\ agent'[a].call = agent[a].call
        BY <1>0, <1>13, <2>3 DEF Answer, AgentSet
      <3>2. /\ lock'.readers = {} /\ lock'.writer = NoAgent /\ lock'.queue = <<a>>
        <4>1. lock' = [lock EXCEPT !.queue = Append(lock.queue, a)]
          BY <1>13, <2>3 DEF Answer
        <4>2. Append(lock.queue, a) = <<a>>
          BY <2>1
        <4>3. lock \in LockSet
          BY <1>0 DEF TypeInv, TypeOK, LockSet
        <4>4. lock' = [lock EXCEPT !.queue = <<a>>]
          BY <4>1, <4>2
        <4> QED  BY <2>1, <4>3, <4>4 DEF LockSet
      <3>3. LockInv' /\ TokenInv'
        BY <1>a, <2>1, <3>1, <3>2 DEF LockInv, TokenInv
      <3>4. /\ yes'[agent[a].call] = yes[agent[a].call] + 1
            /\ \A c \in Calls : c # agent[a].call => yes'[c] = yes[c]
            /\ ran' = ran /\ flags' = flags
        BY <1>0, <1>13, <2>1, <2>3 DEF Answer
      <3>5. PaidInv'
        <4> SUFFICES ASSUME NEW c \in Calls, OnAnswer(c)
                     PROVE  /\ ran[c] <= yes'[c]
                            /\ c = agent[a].call => ran[c] < yes'[c]
          BY <1>a, <3>1, <3>4 DEF PaidInv, OnAnswer
        <4>1. ran[c] <= yes[c] /\ ran[c] \in Nat /\ yes[c] \in Nat
          BY <1>0 DEF PaidInv
        <4> QED  BY <3>4, <4>1
      <3> QED  BY <3>3, <3>5
    <2> QED  BY <2>2, <2>3
  <1>14. CASE Refill
    BY <1>14 DEF Refill, LockInv, TokenInv, PaidInv, OnAnswer
  <1>15. ASSUME NEW e \in grants, GrantExpires(e) PROVE LockInv' /\ TokenInv' /\ PaidInv'
    BY <1>15 DEF GrantExpires, LockInv, TokenInv, PaidInv, OnAnswer
  <1>16. ASSUME NEW k \in tokens, TokenExpires(k) PROVE LockInv' /\ TokenInv' /\ PaidInv'
    <2>1. \A a \in Agents : agent[a].pc \notin {"look", "looking"}
      BY <1>16 DEF TokenExpires, TokenInv
    <2> QED  BY <1>16, <2>1 DEF TokenExpires, LockInv, TokenInv, PaidInv, OnAnswer
  <1>17. ASSUME NEW a \in Agents, ShowPrompt(a) PROVE LockInv' /\ TokenInv' /\ PaidInv'
    <2>1. /\ agent[a].pc = "ask" /\ agent'[a].pc = "prompt"
          /\ agent'[a].asked = agent[a].asked /\ agent'[a].call = agent[a].call
      BY <1>0, <1>17, GoesKeepsType DEF ShowPrompt, Steps
    <2> QED
      BY <1>17, <1>a, <2>1 DEF ShowPrompt, LockInv, TokenInv, PaidInv, OnAnswer
  <1> QED
    BY <1>1, <1>2, <1>3, <1>4, <1>5, <1>6, <1>7, <1>8, <1>9, <1>10, <1>11,
       <1>12, <1>13, <1>14, <1>15, <1>16, <1>17 DEF Next, Works

\* One agent: a call that needs an answer runs at most once for every yes.
THEOREM OnceMeansOnce ==
    ASSUME OneAgent
    PROVE  Spec => []OneYesOneRun
  <1>1. Init => SingleInv
    BY SingleInit
  <1>2. SingleInv /\ [Next]_vars => SingleInv'
    BY SingleStep
  <1>3. SingleInv => OneYesOneRun
    BY DEF SingleInv, PaidInv, OnAnswer, OneYesOneRun
  <1> QED  BY <1>1, <1>2, <1>3, PTL DEF Spec

\* One agent: a call the operator has allowed is not rejected by the policy.
THEOREM YesHeard ==
    ASSUME OneAgent
    PROVE  Spec => YesIsHeard
  <1>1. Init => SingleInv
    BY SingleInit
  <1>2. SingleInv /\ [Next]_vars => SingleInv'
    BY SingleStep
  <1>3. SingleInv => \A a \in Agents : agent[a].asked => agent[a].pc # "judge"
    BY DEF SingleInv, TokenInv
  <1>4. SingleInv /\ [Next]_vars =>
            [\A a \in Agents : agent[a].pc = "judge" /\ agent[a].asked
                 => agent'[a].pc = "limit"]_vars
    BY <1>3
  <1> QED  BY <1>1, <1>2, <1>4, PTL DEF Spec, YesIsHeard
=============================================================================
