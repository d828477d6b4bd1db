SPECIFICATION AllSpec
CONSTANTS
  Scenarios = {"table", "groups", "terminal"}
  Tasks = {t1, t2, t3, t4, t5}
  MaxTask = 4
  UserStart = 3
  Idle = Idle
  NoTask = NoTask
  Family = 4
  LineSize = 3
  ForegroundMin = 2
  Sizes = {1, 2}
  MaxKeys = 4
  SigNums = {2}
  Shell = t1
INVARIANTS ProcessTableIsSound NoMissedExit GroupsAreExact TypedIsRead
CHECK_DEADLOCK FALSE
