SPECIFICATION LoaderSpec
CONSTANTS
    LoadThreads = {l1, l2}
    MainThread = l1
    Files <- MCFiles
    Eboot = "eboot"
    FileOf <- MCFileOf
    StemOf <- MCStemOf
    HostOf <- MCHostOf
    NeedsGraphs <- MCNeeds
    Exports <- MCExports
    Imports <- MCImports
    BrokenFiles = {"b"}
    Unmappable = {"u"}
    HleSymbols = {"syscall"}
    NoFile = "none"
    Missing = Missing
    MaxStubs = 3
    MaxLoads = 2
CHECK_DEADLOCK FALSE
INVARIANT FileMappedOnce
