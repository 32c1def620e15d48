SPECIFICATION Spec
CONSTANTS
    Threads = {t1, t2, t3}
    t1 = t1
    t2 = t2
    t3 = t3
    MutexAddrs = {a1}
    CondAddrs = {c1}
    MutexArcs = {m1, m2}
    CondArcs = {v1}
    NoThread = NoThread
    NoArc = NoArc
    NoAddr = NoAddr
    MaxDepth = 2
    CarefulGuest = TRUE
SYMMETRY Symmetry
INVARIANTS
    NobodyParkedOnFree
    BeliefMatchesState
PROPERTIES
    NoLostWakeup
    ImplementsGuestMutex
