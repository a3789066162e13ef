--------------------------- MODULE MCToolApproval ---------------------------
(* Small instances of ToolApproval for TLC: tools that read a file, send a  *)
(* request and probe a host, called with arguments in and out of scope.     *)
EXTENDS ToolApproval, TLC

CONSTANTS read, http, probe, shell, in, also, out, none

MCRegistry == (read :> "LocalFileContentRead") @@ (http :> "PassiveNetworkRequest")
              @@ (probe :> "ActiveNetworkProbe")

FileCall(path) ==
    [tool |-> read, path |-> path, url |-> none, method |-> "none"]
HttpCall(tool, url, method) ==
    [tool |-> tool, path |-> none, url |-> url, method |-> method]

\* Every way a call may be judged: in, out of and without a scope, passive
\* and state-changing, with an effect a flag may cover, and unregistered.
MCCalls == {FileCall(in), FileCall(out),
            HttpCall(http, in, "none"), HttpCall(http, in, "POST"),
            HttpCall(http, out, "GET"),
            HttpCall(probe, in, "none"), HttpCall(shell, in, "none")}
\* Two calls of one tool that both need an answer.
MCSharedCalls == {FileCall(in), FileCall(also)}
\* Two calls that need an answer, and one that does not.
MCAskedCalls == {FileCall(in), HttpCall(http, in, "POST"),
                 HttpCall(http, in, "none")}

Started(noApproval, terminal, exploits, effects) ==
    [noApproval |-> noApproval, terminal |-> terminal, writes |-> FALSE,
     exploits |-> exploits, effects |-> effects]

\* A terminal, with and without an approval; a CI job with and without.
MCCommandLines == {Started(FALSE, TRUE, FALSE, {}),
                   Started(FALSE, TRUE, TRUE, {}),
                   Started(TRUE, TRUE, FALSE, {}),
                   Started(FALSE, FALSE, FALSE, {"LocalFileContentRead"})}
MCTerminal == {Started(FALSE, TRUE, FALSE, {})}

MCScope == {in, also}
=============================================================================
