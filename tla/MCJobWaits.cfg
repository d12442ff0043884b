SPECIFICATION MCSpec
CONSTANTS
    JobIds = {j1}
    Owners = {o1}
    NoJob = NoJob
    Corrupt = Corrupt
    MaxProgress = 0
    WorkStages = {}
    CrashCodes = {}
    MayGarble = FALSE
    Threaded = FALSE
    EventBound = 2
    Surfaces = {"a2a"}
    SaveOutcomes = {TRUE}
    CleanupOutcomes = {TRUE}
    Waiters = {w1, w2}
    NoStatus = NoStatus
    Jobs = {t1, t2}
    Cancellers = {c1, c2}
    None = None
    First = t1
    Other = t2
    Second = c2
    Scenarios = {"supervisor", "status", "stream", "two streams"}
INVARIANTS
    FinalEventsSound
    ActiveIsServed
PROPERTIES
    CancelTakesEffect
    WaitsEnd
    UnchangedIsTrue
    ClientsHear
CHECK_DEADLOCK FALSE
