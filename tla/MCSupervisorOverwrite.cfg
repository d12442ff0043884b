SPECIFICATION FairSpec
CONSTANTS
    j1 = j1
    o1 = o1
    NoJob = NoJob
    Corrupt = Corrupt
    JobIds <- OneJob
    Owners <- MCOwners
    MaxProgress = 0
    WorkStages = {}
    CrashCodes <- NoCrash
    MayGarble = FALSE
    Threaded = FALSE
    EventBound = 2
    Surfaces = {"a2a"}
    SaveOutcomes = {TRUE}
    CleanupOutcomes = {TRUE}
CHECK_DEADLOCK FALSE
PROPERTY OutcomeIsFinal
