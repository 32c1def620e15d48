SPECIFICATION MCSpec
CONSTANTS
    Threads = {t1, t2, t3}
    Addrs = {a1}
    MaxSce = 1
    Args <- MCArgs
    Sems = {s1, s2}
    MaxCount = 2
    Careful = TRUE
    None = None
    GpuCallers = {r, o}
    Renderer = r
    MaxBuffers = 2
    MaxCalls = 3
    MaxTimeouts = 1
    MaxLost = 1
    MaxRedraws = 1
    MaxResizes = 1
INVARIANTS
    NobodyParkedWithPermit
    PermitsAccounted
    NoTornScanout
    NothingReusedInFlight
PROPERTIES
    TimedWaitReturns
    BlockedCallReturns
