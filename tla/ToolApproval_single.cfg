SPECIFICATION Spec
CONSTANTS
    read = read
    http = http
    probe = probe
    shell = shell
    in = in
    also = also
    out = out
    none = none
    Agents = {a1}
    NoAgent = NoAgent
    Registry <- MCRegistry
    Calls <- MCCalls
    NoCall = NoCall
    Paths <- MCScope
    Urls <- MCScope
    CommandLines <- MCCommandLines
    MaxIterations = 3
    RateLimited = TRUE
    Burst = 1
INVARIANTS
    TypeOK
    OneYesOneRun
    OnlyAuthorisedRuns
PROPERTIES
    YesIsHeard
CHECK_DEADLOCK FALSE
