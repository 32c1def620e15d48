SPECIFICATION MCSpec
CONSTANTS
    Threads = {t1, t2}
    MutexAddrs = {a1}
    CondAddrs = {c1}
    MutexArcs = {m1}
    CondArcs = {v1}
    NoThread = NoThread
    NoArc = NoArc
    NoAddr = NoAddr
    MaxDepth = 2
    CarefulGuest = TRUE
    Waiters = {w1, w2}
    Queues = {q1}
    EventIds = {i1}
    Labels = {l1, l2}
    MaxEmits = 2
    MaxSignals = 1
    Wrap = 2
    GraceChecks = 1
    Checks = 2
INVARIANTS
    CollectorNeverLabelled
    CompletionsConserved
PROPERTIES
    WithheldLabelFlushed
    WokenWaiterProceeds
