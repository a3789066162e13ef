SPECIFICATION Spec
CONSTANTS
    web = web
    files = files
    leak = leak
    xss = xss
    model = model
    Procs = {p1, p2}
    Scans = {a, b}
    NoScan = NoScan
    Scanners <- MCScanners
    Lists <- MCLists
    Keys <- MCKeys
    Results <- MCStableResults
    AgentKeys <- MCAgentKeys
    Providers <- MCNoProvider
    Runs = {1, 2, 3, 4, 5}
    Overlap <- MCOverlapDelete
    Failing <- MCProcessFailing
    MaxFaults = 1
INVARIANTS
    NoOrphans
CHECK_DEADLOCK FALSE
