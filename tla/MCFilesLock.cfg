SPECIFICATION Spec
CONSTANTS
  p1 = p1
  p2 = p2
  a = a
  b = b
  None = None
  Proc = {p1, p2}
  Name = {a, b}
  First = a
  Sectors = 6
  Lengths = {1}
  FdMax = 3
  DirEntries = 2
INVARIANT LockReleased
