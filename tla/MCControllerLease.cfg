SPECIFICATION Spec
CONSTANTS
    c1 = c1
    c2 = c2
    j1 = j1
    j2 = j2
    j3 = j3
    Nobody = Nobody
    NoRecord = NoRecord
    Controllers <- MCControllers
    JobIds <- MCJobIds
    MaxUsers = 2
INVARIANTS
    WorkIsLeased
    OrphansAreSettled
PROPERTIES
    WrittenUnderLease
