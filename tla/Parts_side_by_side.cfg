\* One behaviour is one of one part; see MCParts.
SPECIFICATION PartsSpec
CONSTANTS
    MaxChain = 2
    PcEnvironments <- MCEnvironments
    PcRequests <- MCRequests
    Titles <- MCTitles
    TitleClass <- MCTitleClass
    SwarmTasks = 3
    Phases = 2
    MaxSubtasks = 2
    Permits = 2
    Reports <- MCReports
    ScannerFindings <- MCScanned
    KeyOf <- MCKeyOf
    Wide = {"t3"}
    Batches <- MCBatches
    SaidConfidence = {9}
    MaxRounds = 3
    CliFeatures = {}
    Commands <- MCCommands
    Configs <- MCConfigs
    SoCalls <- MCSoCalls
    SoFindings <- MCSoFindings
    MaxScans = 2
    LookedAt <- MCLookedAt
    TriedKeys <- MCTried
    TriedValues = {"zero", "more", "blank"}
    MaxEdits = 2
    WpSites <- MCSites
    WpHoles <- MCHoles
    WpRedirecting = {"/login"}
    WpUrlLike = {"url"}
    WpFileLike = {"file"}
    WpBudgets = {6, 40}
    WpMaxFailures = 1
    PsDatas <- MCDatas
    PsPatterns <- MCPatterns
    LcJobs <- MCLocalJobs
    NuJobs <- MCNuJobs
    PaTrees <- MCTrees
    PaRoots <- MCRoots
    PaNames <- MCNames
    SystemLinks = 4
    MAX_SYMLINK_ITERATIONS = 6
    ExJobs <- MCExJobs
    ExUrls <- MCExUrls
    ExSizes = {0, 3, 4}
    AtSessions <- MCSessions
    AtFeatures = {"browser"}
    AtMaxCalls = 2
    DbScans = {"s1", "s2"}
    DbAgents = {"s2"}
    DbFindings <- MCDbFindings
    DbCorruptible = {"f1"}
    DbQuestions <- MCDbQuestions
INVARIANTS
    PartsTypeOK
    OutsideAnswers
    VotesDecide
    ScannerFindingsStay
    FindingsSurvive
    ExitCodesTell
    NewFindingsNoticed
    NoSilentDefaults
    VulnerableReported
    DataFindsAgree
    ScopesHold
    NothingLeavesUnasked
PROPERTIES
    NothingIsLost
    ReportsTell
    EveryPartEnds
CHECK_DEADLOCK FALSE
