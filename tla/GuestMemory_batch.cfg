SPECIFICATION MemorySpec
CONSTANTS
    GuestBase = 2
    ArenaEnd = 20
    Page = 2
    Placement = 4
    GadgetAddr = 2
    HeapBase = 4
    PoolBase = 10
    PoolSize = 4
    Sizes = {3}
    DirectSizes = {1, 4}
    Aligns = {0, 8}
    FixedAddrs = {5}
    UnmapAddrs = {1, 4, 5, 12}
    BatchLen = 2
PROPERTY BatchMapsWhatItNames
