SPECIFICATION ArenaSpec
CONSTANTS
    Callers = {t1, t2, t3}
    Slots = {s1, s2}
    ArenaSize = 4
    MutexSize = 2
    OtherSizes = {}
    Careful = FALSE
INVARIANTS
    DoubleFreeHarmless
