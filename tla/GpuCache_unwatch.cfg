SPECIFICATION CacheSpec
CONSTANTS
    Cells <- MCCells
    Keys <- MCKeys
    CellsPerPage = 2
    Budget = 2
    UnmapPages = {1}
    AcquirePages = {}
    RacyFill = FALSE
    MaxWrites = 1
    MaxFlips = 0
    MaxId = 4
    MaxGets = 2
    MaxSubmits = 2
    MaxUnmaps = 1
PROPERTY OnlyWatchedHitsClean
CHECK_DEADLOCK FALSE
