SPECIFICATION MCSpec
CONSTANTS
    Jobs = {"j1", "j2"}
    NoJob = NoJob
    Runners = {"r1", "r2"}
    NoRunner = NoRunner
    NoManifest = NoManifest
    Troubled = {"r1"}
    Inputs = {"asked", "other"}
    Handlers = {h1, h2}
    NoRecord = NoRecord
    MaxConcurrent = 1
    MaxSends = 2
    EnqueueFails = TRUE
    PlaneJob = "j1"
    PlaneRunner = "r2"
    Scenarios = {"executions", "refusing", "queueing"}
INVARIANTS
    ExitsSound
    JobTableSound
    QueuedIsServed
PROPERTIES
    CommitOnce
    QueueingSettles
CHECK_DEADLOCK FALSE
