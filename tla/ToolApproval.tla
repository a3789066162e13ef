---------------------------- MODULE ToolApproval ----------------------------
(***************************************************************************)
(* How the tool calls of AI agents are approved.                           *)
(*                                                                         *)
(* The agents of one scan (ToolUseRunner; a swarm spawns one tokio task    *)
(* for each) share one SafetyChecker: its PolicyEngine, whose one-shot     *)
(* tokens sit behind a tokio RwLock, and its token-bucket rate limiter.    *)
(* An agent asks its model for the next tool call, has the policy judge    *)
(* it, asks the operator when the policy says so, and runs it.  An action  *)
(* is what an agent does without letting another one see it half done: up  *)
(* to the next point where it takes or leaves the lock or waits.           *)
(*                                                                         *)
(* The lock is tokio's: `try_read` and `try_write` give up at once, also   *)
(* when a writer is queued, and `write` waits its turn first come, first   *)
(* served.  The effect grants have a lock of their own that nobody writes  *)
(* once the agents run, so reading them never fails.                       *)
(*                                                                         *)
(* There is one terminal.  A question holds the locks of stderr and stdin  *)
(* from before it is shown until its line is read; other questions wait    *)
(* for stderr, and so does whatever an agent logs meanwhile.               *)
(***************************************************************************)
EXTENDS Integers, Sequences, FiniteSets

CONSTANTS
    Agents,         \* the tool-use runners of a scan
    NoAgent,        \* who holds a free write lock
    Registry,       \* Registry[t]: the declared effect of registered tool t
    Calls,          \* tool calls a model may ask for, registered or not
    NoCall,         \* an agent without one
    Paths,          \* the paths in the filesystem scope of the session
    Urls,           \* the URLs in its network scope
    CommandLines,   \* the approval flags `vest scan` may be started with
    MaxIterations,  \* iterations of one agent
    RateLimited,    \* whether the rate limiter is on
    Burst           \* the size of its bucket

Networking == {"NetworkMetadataRead", "PassiveNetworkRequest",
               "ActiveNetworkProbe", "StateChangingNetworkRequest"}
OnFiles == {"LocalMetadataRead", "LocalFileContentRead", "LocalWrite"}
\* Effects an operator or a flag must approve, and those nobody need to.
Sensitive == {"LocalWrite", "LocalFileContentRead",
              "StateChangingNetworkRequest", "ActiveNetworkProbe",
              "ProcessMemoryRead", "CommandExecution", "CredentialAccess"}
Harmless == {"PureComputation", "LocalMetadataRead", "NetworkMetadataRead",
             "PassiveNetworkRequest", "ProcessMetadataRead"}
Effects == Sensitive \cup Harmless

\* HttpMethodKind: an unknown method counts as state-changing.
Methods == {"none", "GET", "HEAD", "OPTIONS",
            "POST", "PUT", "PATCH", "DELETE", "other"}
StateChanging == {"POST", "PUT", "PATCH", "DELETE", "other"}

Flags == [noApproval : BOOLEAN, terminal : BOOLEAN, writes : BOOLEAN,
          exploits : BOOLEAN, effects : SUBSET Effects]

ASSUME AgentsAssumption == NoAgent \notin Agents
ASSUME RegistryAssumption == Registry \in [DOMAIN Registry -> Effects]
ASSUME CallsAssumption ==
    /\ \A c \in Calls : /\ DOMAIN c = {"tool", "path", "url", "method"}
                        /\ c = [tool |-> c.tool, path |-> c.path,
                                url |-> c.url, method |-> c.method]
                        /\ c.method \in Methods
    /\ NoCall \notin Calls
\* clap: --no-approval conflicts with every approve flag.
ASSUME FlagsAssumption ==
    /\ CommandLines \subseteq Flags
    /\ \A f \in CommandLines :
           f.noApproval => ~f.writes /\ ~f.exploits /\ f.effects = {}
ASSUME LimitsAssumption ==
    /\ MaxIterations \in Nat
    /\ Burst \in Nat
    /\ RateLimited \in BOOLEAN

VARIABLES
    flags,      \* the flags of this invocation
    grants,     \* effects approved for the session and not expired
    tokens,     \* keys of the one-shot tokens in the policy engine
    lock,       \* the lock around `tokens`
    bucket,     \* the requests the rate limiter lets through
    agent,      \* agent[a]: what runner a is doing
    yes,        \* history: yes[c], times the operator allowed call c
    ran         \* history: ran[c], times the handler of call c was run

vars == <<flags, grants, tokens, lock, bucket, agent, yes, ran>>

-----------------------------------------------------------------------------
(* What the policy knows of a call *)

\* The registry's word; a tool that is not registered has effect Unknown.
Declared(c) ==
    IF c.tool \in DOMAIN Registry THEN Registry[c.tool] ELSE "Unknown"

\* Seeded bug: the method of the request is ignored.
EffectOf_Declared(c) == Declared(c)

\* A request that changes state is never passive, whatever the tool declares.
EffectOf(c) ==
    IF /\ c.method \in StateChanging
       /\ Declared(c) \in {"PassiveNetworkRequest", "NetworkMetadataRead"}
    THEN "StateChangingNetworkRequest"
    ELSE Declared(c)

\* Seeded bug: a token covers every argument of its tool.
Key_ToolOnly(c) == [tool |-> c.tool, effect |-> EffectOf(c), digest |-> <<>>]

\* ApprovalToken::cache_key and what `matches` compares.  The digest is of
\* all arguments; the target is one of them.  The session is always the same.
Key(c) == [tool |-> c.tool, effect |-> EffectOf(c),
           digest |-> <<c.path, c.url, c.method>>]

\* The checks every call must pass before an approval is looked for.  A
\* missing path or URL is in no scope.
InScope(c) ==
    /\ EffectOf(c) # "Unknown"
    /\ EffectOf(c) \in OnFiles => c.path \in Paths
    /\ EffectOf(c) \in Networking => c.url \in Urls

\* The effects the flags approve in advance.
Pregranted(f) ==
    UNION {{e \in {"LocalWrite"} : f.writes},
           {e \in {"ActiveNetworkProbe", "StateChangingNetworkRequest",
                   "CommandExecution"} : f.exploits},
           f.effects}

\* Whether the operator can be asked at all.
Interactive(f) == f.terminal /\ ~f.noApproval

-----------------------------------------------------------------------------
(* The lock *)

\* What try_read and try_write find.
Readable == lock.writer = NoAgent /\ lock.queue = <<>>
Writable == Readable /\ lock.readers = {}

FreeLock == [readers |-> {}, writer |-> NoAgent, queue |-> <<>>]

-----------------------------------------------------------------------------
(* The agents *)

Steps == {"chat", "look", "looking", "spend", "spending", "judge", "ask",
          "prompt", "queue", "granting", "limit", "run", "done"}

\* Nobody holds stderr and stdin.
TerminalFree == \A a \in Agents : agent[a].pc # "prompt"

Goes(a, pc) == agent' = [agent EXCEPT ![a].pc = pc]

\* Back to the top of the loop, after a rejection or a result.
Loops(a) == agent' = [agent EXCEPT ![a].pc = "chat", ![a].call = NoCall,
                                   ![a].asked = FALSE]

Init ==
    /\ flags \in CommandLines
    /\ grants = Pregranted(flags)
    /\ tokens = {}
    /\ lock = FreeLock
    /\ bucket = Burst
    /\ agent = [a \in Agents |-> [pc |-> "chat", call |-> NoCall,
                                  asked |-> FALSE, left |-> MaxIterations]]
    /\ yes = [c \in Calls |-> 0]
    /\ ran = [c \in Calls |-> 0]

\* The model asks for a tool.  A call outside the scopes is rejected at once.
AskTool(a, c) ==
    /\ agent[a].pc = "chat"
    /\ agent[a].left > 0
    /\ \/ /\ InScope(c)
          /\ agent' = [agent EXCEPT ![a].pc = "look", ![a].call = c,
                                    ![a].left = @ - 1]
       \/ /\ ~InScope(c)
          /\ agent' = [agent EXCEPT ![a].left = @ - 1]
    /\ UNCHANGED <<flags, grants, tokens, lock, bucket, yes, ran>>

\* The model says something else, or the provider fails.
Talk(a) ==
    /\ agent[a].pc = "chat"
    /\ agent[a].left > 0
    /\ agent' = [agent EXCEPT ![a].left = @ - 1]
    /\ UNCHANGED <<flags, grants, tokens, lock, bucket, yes, ran>>

\* The model is done, or the iterations are.
Finish(a) ==
    /\ agent[a].pc = "chat"
    /\ Goes(a, "done")
    /\ UNCHANGED <<flags, grants, tokens, lock, bucket, yes, ran>>

-----------------------------------------------------------------------------
(* PolicyEngine::evaluate, past the scopes *)

\* find_matching_token: without the lock no token is found.
StartLooking(a) ==
    /\ agent[a].pc = "look"
    /\ \/ /\ Readable
          /\ lock' = [lock EXCEPT !.readers = @ \cup {a}]
          /\ Goes(a, "looking")
       \/ /\ ~Readable
          /\ Goes(a, "judge")
          /\ UNCHANGED lock
    /\ UNCHANGED <<flags, grants, tokens, bucket, yes, ran>>

\* The token is cloned and the lock released, the token still in place.
EndLooking(a) ==
    /\ agent[a].pc = "looking"
    /\ lock' = [lock EXCEPT !.readers = @ \ {a}]
    /\ \/ /\ Key(agent[a].call) \in tokens
          /\ Goes(a, "spend")
       \/ /\ Key(agent[a].call) \notin tokens
          /\ Goes(a, "judge")
    /\ UNCHANGED <<flags, grants, tokens, bucket, yes, ran>>

\* The one-shot token is taken out if the lock is free; the call is allowed
\* either way.
StartSpending(a) ==
    /\ agent[a].pc = "spend"
    /\ \/ /\ Writable
          /\ lock' = [lock EXCEPT !.writer = a]
          /\ Goes(a, "spending")
       \/ /\ ~Writable
          /\ Goes(a, "limit")
          /\ UNCHANGED lock
    /\ UNCHANGED <<flags, grants, tokens, bucket, yes, ran>>

\* Seeded bug: the token is left in place.
EndSpending_Keeps(a) ==
    /\ agent[a].pc = "spending"
    /\ lock' = [lock EXCEPT !.writer = NoAgent]
    /\ Goes(a, "limit")
    /\ UNCHANGED <<flags, grants, tokens, bucket, yes, ran>>

EndSpending(a) ==
    /\ agent[a].pc = "spending"
    /\ tokens' = tokens \ {Key(agent[a].call)}
    /\ lock' = [lock EXCEPT !.writer = NoAgent]
    /\ Goes(a, "limit")
    /\ UNCHANGED <<flags, grants, bucket, yes, ran>>

\* No token: a session grant, a harmless effect, the operator, or nothing.
\* The runner asks the operator once per call.
Judge(a) ==
    LET e == EffectOf(agent[a].call)
    IN  /\ agent[a].pc = "judge"
        /\ \/ /\ e \in grants \cup Harmless
              /\ Goes(a, "limit")
           \/ /\ e \notin grants \cup Harmless
              /\ Interactive(flags) /\ ~agent[a].asked
              /\ Goes(a, "ask")
           \/ /\ e \notin grants \cup Harmless
              /\ ~Interactive(flags) \/ agent[a].asked
              /\ Loops(a)
        /\ UNCHANGED <<flags, grants, tokens, lock, bucket, yes, ran>>

-----------------------------------------------------------------------------
(* Asking the operator *)

\* The question is shown once stderr is free, and keeps it until it is answered.
\* The policy is not locked.
ShowPrompt(a) ==
    /\ agent[a].pc = "ask"
    /\ TerminalFree
    /\ Goes(a, "prompt")
    /\ UNCHANGED <<flags, grants, tokens, lock, bucket, yes, ran>>

\* `Allow once? [y/N]`.  A yes is granted with `write().await`: the agent joins
\* the queue for the lock.
Answer(a, allow) ==
    /\ agent[a].pc = "prompt"
    /\ \/ /\ allow
          /\ yes' = [yes EXCEPT ![agent[a].call] = @ + 1]
          /\ agent' = [agent EXCEPT ![a].pc = "queue", ![a].asked = TRUE]
          /\ lock' = [lock EXCEPT !.queue = Append(@, a)]
       \/ /\ ~allow
          /\ Loops(a)
          /\ UNCHANGED <<yes, lock>>
    /\ UNCHANGED <<flags, grants, tokens, bucket, ran>>

StartGranting(a) ==
    /\ agent[a].pc = "queue"
    /\ lock.queue # <<>> /\ Head(lock.queue) = a
    /\ lock.readers = {} /\ lock.writer = NoAgent
    /\ lock' = [lock EXCEPT !.writer = a, !.queue = Tail(@)]
    /\ Goes(a, "granting")
    /\ UNCHANGED <<flags, grants, tokens, bucket, yes, ran>>

\* Seeded bugs: the lock is kept; the token is not stored.
EndGranting_Holds(a) ==
    /\ agent[a].pc = "granting"
    /\ tokens' = tokens \cup {Key(agent[a].call)}
    /\ Goes(a, "look")
    /\ UNCHANGED <<flags, grants, lock, bucket, yes, ran>>
EndGranting_Forgets(a) ==
    /\ agent[a].pc = "granting"
    /\ lock' = [lock EXCEPT !.writer = NoAgent]
    /\ Goes(a, "look")
    /\ UNCHANGED <<flags, grants, tokens, bucket, yes, ran>>

\* The token is stored, and the call evaluated once more.
EndGranting(a) ==
    /\ agent[a].pc = "granting"
    /\ tokens' = tokens \cup {Key(agent[a].call)}
    /\ lock' = [lock EXCEPT !.writer = NoAgent]
    /\ Goes(a, "look")
    /\ UNCHANGED <<flags, grants, bucket, yes, ran>>

-----------------------------------------------------------------------------
(* Running the call *)

\* Seeded bug: the last token is not needed.
Limit_OffByOne(a) ==
    /\ agent[a].pc = "limit"
    /\ bucket' = bucket - 1
    /\ Goes(a, "run")
    /\ UNCHANGED <<flags, grants, tokens, lock, yes, ran>>

\* The rate limiter is asked after the approval, which is lost if it refuses.
Limit(a) ==
    /\ agent[a].pc = "limit"
    /\ \/ /\ RateLimited /\ bucket > 0
          /\ bucket' = bucket - 1
          /\ Goes(a, "run")
       \/ /\ RateLimited /\ bucket = 0
          /\ Loops(a)
          /\ UNCHANGED bucket
       \/ /\ ~RateLimited
          /\ Goes(a, "run")
          /\ UNCHANGED bucket
    /\ UNCHANGED <<flags, grants, tokens, lock, yes, ran>>

\* execute_authorised: the capability was minted for this very call, so its
\* checks pass; whether the handler succeeds only changes what the model reads.
Run(a) ==
    /\ agent[a].pc = "run"
    /\ ran' = [ran EXCEPT ![agent[a].call] = @ + 1]
    /\ Loops(a)
    /\ UNCHANGED <<flags, grants, tokens, lock, bucket, yes>>

-----------------------------------------------------------------------------
(* Time *)

Refill ==
    /\ RateLimited /\ bucket < Burst
    /\ bucket' = bucket + 1
    /\ UNCHANGED <<flags, grants, tokens, lock, agent, yes, ran>>

\* After five minutes (default_ttl).
GrantExpires(e) ==
    /\ e \in grants
    /\ grants' = grants \ {e}
    /\ UNCHANGED <<flags, tokens, lock, bucket, agent, yes, ran>>

\* Never between the grant and the evaluation that follows it at once.
TokenExpires(k) ==
    /\ k \in tokens
    /\ \A a \in Agents : agent[a].asked /\ agent[a].pc \in {"look", "looking"}
           => Key(agent[a].call) # k
    /\ tokens' = tokens \ {k}
    /\ UNCHANGED <<flags, grants, lock, bucket, agent, yes, ran>>

-----------------------------------------------------------------------------

\* What an agent does without the operator.
Works(a) ==
    \/ \E c \in Calls : AskTool(a, c)
    \/ Talk(a) \/ Finish(a)
    \/ StartLooking(a) \/ EndLooking(a)
    \/ StartSpending(a) \/ EndSpending(a)
    \/ Judge(a) \/ ShowPrompt(a)
    \/ StartGranting(a) \/ EndGranting(a)
    \/ Limit(a) \/ Run(a)

Next ==
    \/ \E a \in Agents : Works(a) \/ \E allow \in BOOLEAN : Answer(a, allow)
    \/ Refill
    \/ \E e \in grants : GrantExpires(e)
    \/ \E k \in tokens : TokenExpires(k)

\* tokio polls every task that can go on; its lock is fair; every request to
\* a provider times out.  Nothing says that an operator answers, and while a
\* question is shown nobody is promised to go on: an agent that logs waits for
\* stderr, and the question itself holds a thread of the runtime.
Spec ==
    /\ Init /\ [][Next]_vars
    /\ \A a \in Agents : WF_vars(TerminalFree /\ Works(a))

-----------------------------------------------------------------------------
(* Properties *)

\* Every variable holds a value of its kind.
TypeOK ==
    /\ flags \in CommandLines
    /\ grants \subseteq Effects
    /\ tokens \subseteq {Key(c) : c \in Calls}
    /\ lock \in [readers : SUBSET Agents, writer : Agents \cup {NoAgent},
                 queue : Seq(Agents)]
    /\ bucket \in 0 .. Burst
    /\ agent \in [Agents -> [pc : Steps, call : Calls \cup {NoCall},
                             asked : BOOLEAN, left : 0 .. MaxIterations]]
    /\ yes \in [Calls -> Nat]
    /\ ran \in [Calls -> Nat]

\* A tool call the operator has to agree to: it reads contents or memory,
\* writes, runs a command, or sends a request that may change the target.
NeedsConsent(c) ==
    \/ Declared(c) \in Sensitive
    \/ Declared(c) \in Networking /\ c.method \in StateChanging

\* No handler runs outside the scopes of the session, nor without consent:
\* the operator said yes to this very call, or a flag covers its effect
\* (docs/agent-tool-policy.md; evaluate, authorise and the tool-use loop).
OnlyAuthorisedRuns ==
    \A c \in Calls : ran[c] > 0 =>
        /\ Declared(c) \in OnFiles => c.path \in Paths
        /\ Declared(c) \in Networking => c.url \in Urls
        /\ Declared(c) # "Unknown"
        /\ NeedsConsent(c) => \/ yes[c] > 0
                              \/ Declared(c) \in Pregranted(flags)
                              \/ /\ c.method \in StateChanging
                                 /\ "StateChangingNetworkRequest"
                                        \in Pregranted(flags)

\* `Allow once` allows once: a call that no flag covers runs at most as often
\* as the operator said yes to it.
OneYesOneRun ==
    \A c \in Calls :
        NeedsConsent(c) /\ EffectOf(c) \notin Pregranted(flags)
            => ran[c] <= yes[c]

\* A yes is heard: an agent whose call was just allowed is never told that
\* the policy rejects it (the second evaluation of the tool-use loop finds
\* the token the first answer stored).
YesIsHeard ==
    [][\A a \in Agents :
           agent[a].pc = "judge" /\ agent[a].asked => agent'[a].pc = "limit"]_vars

\* The operator is all the agents wait for: unless some question is never
\* answered, every agent ends, whichever of them queue for the policy, find its
\* lock taken, or wait for the terminal of one another.
OnlyTheOperatorIsWaitedFor ==
    (\A a \in Agents : []<>(agent[a].pc # "prompt"))
        => \A a \in Agents : <>[](agent[a].pc = "done")
=============================================================================
