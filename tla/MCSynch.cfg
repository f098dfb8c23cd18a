SPECIFICATION Spec
CONSTANTS
  t1 = t1
  t2 = t2
  t3 = t3
  Thread <- MCThreads
  Main = t1
  Idle = idle
  PRI_DEFAULT = 0
  PRI_MAX = 1
  OpBound <- BoundsMain
  Lock = {1, 2}
  NoThread = none
  NoLock = nolock
  DonationLimit = 20
SYMMETRY Symmetry
INVARIANTS
  
  MutualExclusion
  ListsExact
  NoLostWakeup
  WaitingOnAccurate

  
