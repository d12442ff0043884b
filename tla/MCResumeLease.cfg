SPECIFICATION Spec
INVARIANTS
    OneOwner
CONSTANTS
    p = p
    q = q
    r = r
    t = t
    u = u
    v = v
    here = here
    onePid = onePid
    otherPid = otherPid
    thirdPid = thirdPid
    NoToken = NoToken
    Tasks = {t, u, v}
    Processes = {p, q, r}
    Hosts = {here}
    Pids = {onePid, otherPid, thirdPid}
    ProcessOf <- OneTaskEach
    HostOf <- OneHost
    PidOf <- DistinctPids
    FirstRunning = {p, q, r}
    Faults = {}
    MaxFaults = 0
    MaxCrashes = 1
    MaxClaims = 1
