SPECIFICATION FairSpec
CONSTANTS
    web = web
    files = files
    leak = leak
    xss = xss
    model = model
    Procs = {p1}
    Scans = {a}
    NoScan = NoScan
    Scanners <- MCScanners
    Lists <- MCLists
    Keys <- MCKeys
    Results <- MCResults
    AgentKeys <- MCAgentKeys
    Providers <- MCProviders
    Runs = {1, 2, 3, 4, 5, 6, 7, 8}
    Overlap <- MCNoOverlap
    Failing <- MCAllFailing
    MaxFaults = 3
INVARIANTS
    TypeOK
    NoFindingLost
    FinishedRowMatches
PROPERTIES
    CompletedIsFinal
    ImplementsRecord
    InterruptedScanEnds
CHECK_DEADLOCK FALSE
