SPECIFICATION MCSpec
CONSTANTS
  Cells <- MCCells
  Keys <- MCKeys
  CellsPerPage = 2
  Budget = 2
  UnmapPages = {1}
  AcquirePages = {0}
  RacyFill = FALSE
  MaxWrites = 1
  MaxFlips = 1
  MaxId = 3
  MaxGets = 2
  MaxSubmits = 2
  MaxUnmaps = 1
  Shaders = {s1, s2}
  Binaries <- MCBinaries
  RacyCode = FALSE
  Bases = {b1}
  Faults = {"none", "shader", "target", "const", "texture", "layout", "stream", "index"}
  MaxLoads = 1
  MaxDraws = 2
  MaxLists = 2
  MaxFrames = 1
  MaxHangs = 1
  MaxFrees = 1
  SnapRegs = {reg1}
  RegValues = {1}
  VertexShaders = {vs1}
  PixelShaders = {ps1}
  Unreadable = {vs1}
  Texels = {tx1}
  Layouts = {lay1}
  Undetilable = {}
  Narrow = {}
  RtBases = {rt1}
  MAX_PENDING = 2
  Burst = 2
  MaxSnapFlips = 3
  MaxEvents <- MCEvents
  MaxPresses = 1
  ArenaDwords = 8
  Programs = {prog1}
  EmbeddedIds = {emb1}
  Unset = Unset
  Slots = {0, 3, 4, 5}
  MAX_DRAW_RESERVED_DWORDS = 4
  MAX_NOP_FILL_DWORDS = 4
  MaxSends = 2
  MaxBuilt = 3
  MICRO_TILE_DIM = 2
  LINEAR_ALIGNED_PITCH_TEXELS = 4
  TileModes = {0, 1, 8, 9}
  Extents = {1, 3, 5}
  TexturePitches = {0, 6}
  PitchTileMax = {0, 2}
  SliceTileMax = {1, 5}
  SurfaceTexels = 26
  MaxReadbacks = 1
  CHUNK = 2
  MAX_SCAN = 9
  MAX_FOOTER_GAP = 1
  FETCH_WINDOW_MIN = 2
  FETCH_WINDOW_MAX = 8
  Inputs <- MCInputs
CHECK_DEADLOCK FALSE
INVARIANTS
  DrawReadsFresh BackendMirrorsCache FrameIsItsDraws ResolvedShaderIsCurrent CaptureRebuildsFrame
  WalkRunsWhatWasBuilt UploadIsWhatTheOracleReads SpliceRunsTheSame
