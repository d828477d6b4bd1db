SPECIFICATION MCSpec
CONSTANTS
  Machines <- MCMachines
  Router <- MCRouter
  Outside <- MCOutside
  Servers <- MCServers
  Lease <- MCLease
  ArpSize = 4
  Tasks = {t1, t2}
  Idle = idle
  NoTask = noTask
  Contenders = {t1, t2}
  Lists = {ioLock, portLock}
  Locks = {ioLock, portLock}
  IOLock = ioLock
  PortLock = portLock
  Depth = 3
  PortSlots = 2
  TxDescs = 2
  RxDescs = 3
  Buffers = {b1, b2, b3}
  Senders = {s1, s2}
  NoBuffer = noBuffer
  MaxFrames = 7
  PortCount = 2
  MaxSlots = 2
  CmdRingSize = 4
  EventRingSize = 2
  ResetRetries = 1
  Kinds = {"hid", "msc"}
  MaxPlugs = 2
SYMMETRY MCSymmetry
INVARIANTS
  PendingIsSound BoundToWhatWasRequested
  DiskWaitersAreFound DiskAnswersAreOwn CardRingsAreSound
  CommandRingIsFollowed SlotsGoToTheirPorts EnumerationGoesOn
CHECK_DEADLOCK FALSE
