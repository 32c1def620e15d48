SPECIFICATION MCSpec
CONSTANTS
    Tags = {1, 2}
    Span = 4
    Junk <- MCJunk
    Callers = {t1, t2}
    Slots = {s1, s2}
    ArenaSize = 6
    MutexSize = 2
    OtherSizes = {1}
    Careful = TRUE
    Threads = {u1, u2}
    MaxKeys = 2
    DTOR_ITERS = 2
    GuestBase = 2
    ArenaEnd = 16
    Page = 2
    Placement = 4
    GadgetAddr = 2
    HeapBase = 4
    PoolBase = 10
    PoolSize = 4
    Sizes = {3}
    DirectSizes = {1, 4}
    Aligns = {0, 8}
    FixedAddrs = {5}
    BatchLen = 2
    UnmapAddrs = {1, 4, 5, 12}
    Lanes = {0, 1}
    LOOP_ITER_CAP = 4
    MAX_VS_STREAMS = 1
    MAX_PS_TEXTURES = 1
    Programs <- MCPrograms
    Launches <- MCLaunches
CHECK_DEADLOCK FALSE
INVARIANTS
    TagTellsKind
    HeldDisjoint
    ExitRunsEveryDestructor
    QueriesTellTheTruth
    OracleAgrees
PROPERTIES
    FreedStaysDead
    BytesLiveWithTheirMapping
