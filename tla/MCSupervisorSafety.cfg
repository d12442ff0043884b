SPECIFICATION MCSpec
CONSTANTS
    j1 = j1
    j2 = j2
    JobIds = {j1, j2}
    Owners = {o1}
    MaxProgress = 0
    NoJob = NoJob
    Corrupt = Corrupt
    WorkStages = {"writing"}
    CrashCodes <- Crashes
    MayGarble = TRUE
    Threaded = TRUE
    EventBound = 2
    Surfaces = {"mcp"}
    SaveOutcomes = {TRUE, FALSE}
    CleanupOutcomes = {TRUE, FALSE}
    Scenarios = {"failures", "bad worker", "two jobs"}
INVARIANTS
    WorkersAccounted
    OutcomeTruthful
    ReportsHonest
PROPERTIES
    OutcomeIsFinal
CONSTRAINT TwoInARow
CHECK_DEADLOCK FALSE
