SPECIFICATION Spec
CONSTANTS
    web = web
    files = files
    leak = leak
    xss = xss
    model = model
    Procs = {p1, p2}
    Scans = {a}
    NoScan = NoScan
    Scanners <- MCScanners
    Lists <- MCLists
    Keys <- MCKeys
    Results <- MCStableResults
    AgentKeys <- MCAgentKeys
    Providers <- MCNoProvider
    Runs = {1, 2, 3, 4, 5}
    Overlap <- MCOverlapResume
    Failing <- MCProcessFailing
    MaxFaults = 1
INVARIANTS
    NoFindingLost
PROPERTIES
    CompletedIsCovered
CHECK_DEADLOCK FALSE
