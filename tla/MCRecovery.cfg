SPECIFICATION RecoveryFairSpec
CONSTANTS
    Scenarios = {"job", "outputs"}
    Flows = {"orchestrator", "direct", "resilient"}
    MaxRetries = 2
    MaxPollErrors = 1
    Artifacts <- MCArtifacts
    MaxInterrupts = 1
INVARIANTS
    OneInteraction
    OutputsKept
PROPERTIES
    NothingGoesEarly
    EverythingGoes
CHECK_DEADLOCK FALSE
