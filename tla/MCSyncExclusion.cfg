SPECIFICATION SyncSpec
CONSTANTS
  Scenarios = {"mutex"}
  Contenders = {c1, c2}
  Locks = {"lock"}
  Vectors = {"irq1", "irq2"}
  w1 = w1
  w2 = w2
  Worker <- MCWorker
  Others = {other}
  MaxEvents = 2
  Readers = {r1}
  Writers = {p1, p2}
  Size = 2
  Requests = {1, 2}
  MaxBytes = 5
  Tasks = {c1, c2, w1, w2, other, r1, p1, p2}
  Lists <- MCLists
  Idle = Idle
  NoTask = NoTask
INVARIANT MutualExclusion
CHECK_DEADLOCK FALSE
