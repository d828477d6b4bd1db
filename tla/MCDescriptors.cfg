SPECIFICATION AllSpec
CONSTANTS
  Scenarios = {"poll", "files", "losses", "names"}
  Tasks = {t1, t2}
  Idle = Idle
  NoTask = NoTask
  WheelSize = 2
  Boost = 1
  LapicHz = 500
  RawApicHz = 500
  PollMs = 4
  InitTicks = 1
  SleepMS <- MCSleepMS
  SleepTimes <- MCSleepTimes
  VLimit = 16
  MaxGap = 3
  MaxTicks = 5
  MaxVRuntime = 2
  Users = {u1, u2}
  Shell = u1
  FdCounts = {2, 3}
  StdFds = 1
  Inodes = {"tty", "image"}
  Tty = "tty"
  BehindRoot = {"image"}
  CacheSize = 2
  Names = {"shm"}
  MaxRegions = 1
  FileIds = {f1, f2, f3}
  NodeIds = {n1, n2, n3}
  Null = Null
  MaxLost = 1
  Volume <- MCVolume
  Devices = {"tty"}
  NameLen <- MCNameLen
  MaxMountPoints = 20
  KernelNameBuf = 6
  UserBufs = {0, 8, 12, 24, 48, 64}
  Detours <- MCDetours
SYMMETRY Symmetry
INVARIANTS PlacesUnderPoll ReferencesAreExact CountsAreObeyed ListingIsExact
