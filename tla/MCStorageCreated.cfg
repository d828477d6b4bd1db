SPECIFICATION StorageSpec
CONSTANTS
  Scenarios = {"fat"}
  RegularCalls = 6
  FaultyCalls = 5
  FatCalls = 6
  FatFaultyCalls = 5
  NumBlocks = 6
  NumInodes = 3
  Direct = 1
  PtrsPerBlock = 2
  Levels = 3
  OtherData <- MCOtherData
  DirNames = {a, b}
  DirSlots = 4
  Offsets = {0, 1, 3, 5, 7}
  WriteLens = {1}
  Unlimited = 99
  Faults = {0, 1, 2, 3, 4, 5, 6, 7, 8, 9, 10, 11, 12, 99}
  TotalClusters = 7
  FatCopies = 2
  FatNames = {f, g}
  FatSlots = 4
  NameSlots = 3
  FatNodes = {k1, k2}
  FatSizes = {0, 1, 2, 3}
  FatFaults = {0, 1, 2, 3, 4, 5, 6, 7, 8, 9, 10, 99}
  NoFault = 99
INVARIANT CreatedIsFound
CHECK_DEADLOCK FALSE
SYMMETRY Symmetry
