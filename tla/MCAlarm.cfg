SPECIFICATION FairSpec
CONSTANTS
  t1 = t1
  t2 = t2
  t3 = t3
  Thread <- MCThreads
  Main = t1
  Idle = idle
  PRI_DEFAULT = 0
  PRI_MAX = 1
  OpBound <- Bounds
  MaxTicks = 2
INVARIANTS
  AlarmConsistent
  HighestRuns
PROPERTIES
  WokenOnTime
  SleepersWake
  RoundRobin
