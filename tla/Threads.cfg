SPECIFICATION ThreadsFairSpec
CONSTANTS
    MaxTid = 3
    Values = {7}
CHECK_DEADLOCK FALSE
INVARIANTS
    JoinReturnsExitValue
PROPERTIES
    JoinCompletes
