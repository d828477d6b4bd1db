SPECIFICATION Spec
CONSTANTS
  Tasks = {t1, t2, t3}
  Idle = Idle
  NoTask = NoTask
  WheelSize = 2
  Boost = 1
  LapicHz = 500
  InitTicks = 1
  SleepMS <- MCSleepMS
  SleepTimes <- MCSleepTimes
  VLimit = 16
  MaxGap = 3
  MaxTicks = 5
  MaxVRuntime = 2
SYMMETRY Symmetry
INVARIANTS EveryTaskIsFindable WokenInTime IInv
PROPERTIES MinVRuntimeAdvances ImplementsDispatch ExitIsFinalOutsideWheel
