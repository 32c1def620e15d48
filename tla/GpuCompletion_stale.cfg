SPECIFICATION CompletionSpec
CONSTANTS
    Waiters = {}
    Queues = {q1}
    EventIds = {i1}
    Labels = {a1, a2}
    MaxEmits = 2
    MaxSignals = 1
    Wrap = 2
    GraceChecks = 1
    Checks = 2
PROPERTIES
    LabelNeverGoesBack
