SPECIFICATION FairSpec
CONSTANTS
  root = root
  p1 = p1
  p2 = p2
  Proc <- MCProcs
  Root = root
  NoProc = none
  ExitStatus <- MCStatus
INVARIANTS
  CallsReport
  

  
