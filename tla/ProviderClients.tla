--------------------------- MODULE ProviderClients ---------------------------
(***************************************************************************)
(* The HTTP clients of the LLM providers: what a client makes of the way   *)
(* its server answers, and what it sends of a conversation.  Anthropic     *)
(* and Google have a client each; OpenAI, DeepSeek, Groq, Ollama and       *)
(* OpenRouter share the one of the OpenAI format ("openai").               *)
(***************************************************************************)
EXTENDS Naturals, Sequences

ClientKinds == {"openai", "anthropic", "google"}

\* What a client can be asked for.
ClientOps == {"chat", "stream", "models", "check", "embed"}

(***************************************************************************)
(* How a server answers: with what was asked for; with a well-formed       *)
(* document whose list is empty; with a document of another form; with     *)
(* status 429, or with another status that is not a success (a redirect    *)
(* is one: the client follows none); or not at all until the HTTP timeout  *)
(* of the client, which is also what becomes of a broken connection.       *)
(***************************************************************************)
Replies == {"answer", "nothing", "garbled", "busy", "refused", "broken"}

\* The errors of VestError a call can end with ("Timeout" is not among those
\* of a client: reqwest's own timeout is reported as a failed request).
ClientErrors == {"RateLimited", "Provider"}
Outcomes == {"text", "empty"} \cup ClientErrors

\* What the three share: a status that is no success is an error, and 429 has
\* an error of its own.
Failure(reply) == IF reply = "busy" THEN "RateLimited" ELSE "Provider"

(***************************************************************************)
(* One operator per client.  An OpenAI-style chat without choices is an    *)
(* empty answer, not an error; its stream reads the body line by line and  *)
(* skips what it cannot parse.  Listing Google's models has no case for    *)
(* 429, and an empty list becomes the default model.  For "check", "text"  *)
(* is yes and "empty" no; Anthropic and Google compare with their default  *)
(* model and ask nobody, so "answer" stands for the name being that one.   *)
(***************************************************************************)
OpenAiOutcome(op, reply) ==
    CASE reply = "answer"                        -> "text"
      [] reply = "nothing" /\ op = "embed"       -> "Provider"
      [] reply = "nothing" /\ op # "embed"       -> "empty"
      [] reply = "garbled" /\ op = "stream"      -> "empty"
      [] OTHER                                   -> Failure(reply)

AnthropicOutcome(op, reply) ==
    CASE op = "models"  -> "text"
      [] op = "check"   -> IF reply = "answer" THEN "text" ELSE "empty"
      [] op = "embed"   -> "Provider"                   \* not supported
      [] reply = "answer"  -> "text"
      [] reply = "nothing" -> "empty"
      [] OTHER             -> Failure(reply)

GoogleOutcome(op, reply) ==
    CASE op = "check"                                     -> AnthropicOutcome(op, reply)
      [] op = "embed"                                   -> "Provider"
      [] op = "models" /\ reply \in {"answer", "nothing"} -> "text"
      [] op = "models"                                  -> "Provider"
      [] reply = "answer"                               -> "text"
      [] reply = "nothing"                              -> "Provider"
      [] OTHER                                          -> Failure(reply)

Outcome(kind, op, reply) ==
    CASE kind = "openai"    -> OpenAiOutcome(op, reply)
      [] kind = "anthropic" -> AnthropicOutcome(op, reply)
      [] kind = "google"    -> GoogleOutcome(op, reply)

-----------------------------------------------------------------------------
(***************************************************************************)
(* A conversation is a sequence of roles; what is sent is a record of the  *)
(* turns and of whether the system prompt is with them.  Google puts the   *)
(* prompt into the first turn, and only when that is the user's.           *)
(***************************************************************************)
Turns(messages) == SelectSeq(messages, LAMBDA role : role # "system")
HasSystem(messages) == \E i \in DOMAIN messages : messages[i] = "system"

OpenAiRequest(messages) == [turns |-> Turns(messages), prompted |-> HasSystem(messages)]

AnthropicRequest(messages) ==
    [turns |-> [i \in DOMAIN Turns(messages) |->
                    IF Turns(messages)[i] = "assistant" THEN "assistant" ELSE "user"],
     prompted |-> HasSystem(messages)]

GoogleRequest(messages) ==
    LET turns == Turns(messages)
    IN  [turns |-> [i \in DOMAIN turns |-> IF turns[i] = "assistant" THEN "model" ELSE "user"],
         prompted |-> HasSystem(messages) /\ turns # <<>> /\ turns[1] = "user"]

Request(kind, messages) ==
    CASE kind = "openai"    -> OpenAiRequest(messages)
      [] kind = "anthropic" -> AnthropicRequest(messages)
      [] kind = "google"    -> GoogleRequest(messages)
=============================================================================
