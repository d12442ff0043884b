SPECIFICATION MCSpec
CONSTANTS
    pA = pA
    pB = pB
    pC = pC
    tA = tA
    tB = tB
    tC = tC
    here = here
    there = there
    onePid = onePid
    otherPid = otherPid
    thirdPid = thirdPid
    NoToken = NoToken
    Tasks = {tA, tB, tC}
    Processes = {pA, pB, pC}
    Hosts = {here, there}
    Pids = {onePid, otherPid, thirdPid}
    ProcessOf <- OneTaskEach
    HostOf <- OneHost
    PidOf <- DistinctPids
    FirstRunning = {pA, pB, pC}
    Faults = {}
    MaxFaults = 0
    MaxCrashes = 1
    MaxClaims = 1
    Orders <- MCOrders
    PoolSize = 2
    MaxCost = 5
    BaseSpend = {0, 5}
    DocCost = 2
    EnrichCost = 1
    FlatCost = 2
    LiteCost = 1
    Settings <- MCSettings
    Scrapers = {tA, tB}
    Adaptive = {"playwright"}
    Stealth = {"patchright"}
    Pilot = 2
    Pages = 4
    Threshold = 2
    MaxSame = 2
    Answers <- MCAnswers
    Scopes <- MCScopes
    MinKept = 1
    Commands <- MCCommands
    MaxFailures = 2
    Threads = 2
    Scenarios = {"deaths", "pid reused", "two tasks", "claims again", "strategy",
        "batch", "scraping", "report"}
INVARIANTS
    ExclusiveUntilOvertaken
    StrategySound
    ScrapingSound
    ReportSound
PROPERTIES
    LeaseSound
    BatchSound
CHECK_DEADLOCK FALSE
