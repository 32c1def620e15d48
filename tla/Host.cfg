SPECIFICATION MCSpec
CONSTANTS
  GuestThreads = {1, 2}
  Lives <- MCLives
  StackCells = 12
  RedZone = 2
  Alignment = 2
  ModuleStarts = 2
  SyscallBudget <- MCBudget
  MaxLevels = 3
  Readers = {r1, r2}
  Modes = {"realtime", "fixed_step"}
  FRAME = 1
  MAX_DELTA = 2
  FLOOR = 1
  TimeBound = 3
  FlipBound = 2
  ReadBound = 2
  AudioThreads = {a1, a2}
  Rates = {0, 3}
  AUDIO_RATE = 2
  GRAIN = 1
  RING_CAP = 6
  PREFILL = 2
  DeviceFrames = 1
  Patience = 1
  MaxPorts = 2
  AudioTime = 1
  LoadThreads = {l1, l2}
  MainThread = l1
  Files <- MCFiles
  Eboot = "eboot"
  FileOf <- MCFileOf
  StemOf <- MCStemOf
  HostOf <- MCHostOf
  NeedsGraphs <- MCNeeds
  Exports <- MCExports
  Imports <- MCImports
  BrokenFiles = {"b"}
  Unmappable = {"u"}
  HleSymbols = {"syscall"}
  NoFile = "none"
  Missing = Missing
  MaxStubs = 3
  MaxLoads = 2
  HDR = 2
  SCE = 1
  PAGE = 2
  ALIGN = 4
  Elfs <- MCElfs
  Packings <- MCPackings
  MaxImages = 2
  FsThreads = {f1, f2}
  Names <- MCNames
  GuestPaths <- MCPaths
  SaveDirs <- MCDirs
  HostTree <- MCTree
  HostMounts <- MCMounts
  MaxFiles = 3
  MaxFds = 1
  MaxMounts = 5
  MaxLength = 1
  CallBound = 4
  Titles = {t1, t2}
  EVENT_QUEUE_CAP = 8
  SessionBound = 1
  PLAYGO_CHUNK_COUNT = 1
  ID_SPAN = 4
  MaxBatch = 2
  RoundBound = 3
CHECK_DEADLOCK FALSE
INVARIANTS
  FramesSurvive StereoAligned ImportsBound DepsStartFirst RebuiltIsTheElf LoopsEnd SavesApart
PROPERTIES
  ExitUnwinds ReadsKeepPace
