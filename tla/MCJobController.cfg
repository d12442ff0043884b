SPECIFICATION MCSpec
CONSTANTS
    j1 = j1
    j2 = j2
    o1 = o1
    o2 = o2
    NoJob = NoJob
    Corrupt = Corrupt
    JobIds <- MCJobIds
    Owners <- MCOwners
    Surfaces = {"mcp", "a2a"}
    Snapshots <- MCSnapshots
    MaxProgress = 1
    JournalMayRot = TRUE
INVARIANTS
    MemoryMatchesJournal
    ActiveJobIsOwn
PROPERTIES
    OnlyItsRequestOverturns
    DamageIsLeftAlone
    UndamagedImplementsContract
