SPECIFICATION Spec
CONSTANTS
    web = web
    files = files
    leak = leak
    xss = xss
    model = model
    Procs = {p1}
    Scans = {a}
    NoScan = NoScan
    Scanners <- MCScanners
    Lists <- MCLists
    Keys <- MCKeys
    Results <- MCResults
    AgentKeys <- MCAgentKeys
    Providers <- MCNoProvider
    Runs = {1, 2, 3, 4}
    Overlap <- MCNoOverlap
    Failing <- MCAllFailing
    MaxFaults = 1
PROPERTIES
    DryRunChangesNothing
CHECK_DEADLOCK FALSE
