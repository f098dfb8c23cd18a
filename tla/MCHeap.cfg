CONSTANTS
  t1 = t1
  t2 = t2
  None = None
  Thread <- const_Thread
  PGSIZE = 80
  SizeMod = 1024
  free_pages = 6
  user_page_limit = 2
  Sizes <- const_Sizes
  PageCalls <- const_PageCalls
  MaxHeld = 2
SPECIFICATION Spec
SYMMETRY Symmetric
INVARIANTS
  
  PagesAccounted
  BlockHolds
  SomeCallMoves
