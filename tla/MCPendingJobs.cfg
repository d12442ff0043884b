SPECIFICATION MCSpec
CONSTANTS
    Procs = {p1, p2}
    Jobs = {j1, j2}
    NoProc = NoProc
    Faults = {"read", "write", "receipt", "rewrite", "lock"}
    t1 = t1
    t2 = t2
    t3 = t3
    server = server
    command = command
    older = older
    Threads = {t1, t2, t3}
    Processes = {server, command}
    ProcessOf <- MCProcessOf
    New = {r1, r2}
    Old = {older}
    Versions = 2
    Legacy <- MCLegacy
SYMMETRY Symmetry
INVARIANTS
    RecordsFound
    RemovedAreGone
PROPERTIES
    UsageSound
