SPECIFICATION Spec
CONSTANTS
    read = read
    http = http
    probe = probe
    shell = shell
    in = in
    also = also
    out = out
    none = none
    Agents = {a1, a2}
    NoAgent = NoAgent
    Registry <- MCRegistry
    Calls <- MCSharedCalls
    NoCall = NoCall
    Paths <- MCScope
    Urls <- MCScope
    CommandLines <- MCTerminal
    MaxIterations = 2
    RateLimited = TRUE
    Burst = 1
INVARIANTS
    OnlyAuthorisedRuns
PROPERTIES
    OnlyTheOperatorIsWaitedFor
CHECK_DEADLOCK FALSE
