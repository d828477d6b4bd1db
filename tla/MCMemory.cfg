SPECIFICATION MemorySpec
CONSTANTS
  Scenarios = {"frames", "ranges", "heap", "user", "segment"}
  MaxSteps = 5
  MaxSegmentSteps = 6
  LowFrames = 3
  HighFrames = 5
  Grain = 2
  MemMaps <- MCMemMaps
  FrameBuffers <- MCFrameBuffers
  RunSizes = {1, 2, 3}
  NoMap = NoMap
  PoolBase = 10
  PoolPages = 7
  NodePools = {1, 2, 3, 4}
  RangeSizes = {1, 2, 3}
  HeapCallers = {h1, h2}
  PageUnits = 8
  Header = 3
  Canary = 1
  GrowChunk = 2
  InitPages = 1
  OtherPages = 2
  HeapBase = 1
  HeapPages = 5
  HeapFrames = 6
  TableSpan = 3
  HeapSizes = {1, 9}
  Procs = {p1, p2}
  First = p1
  LastPage = 4
  HeapStart = 2
  FrameCounts = {15}
  Reach <- MCReach
  Lengths = {1, 2}
  Offsets = {0, 1}
  Files = {f, s1, s2, fb}
  ShmFiles = {s1, s2}
  Screens = {fb}
  NoFile = NoFile
  KernelPages = 2
  KernelNodes = 1
INVARIANTS FramesAreSound RangesAreSound HeapIsSound UserMemoryIsSound
SYMMETRY Sym
CHECK_DEADLOCK FALSE
