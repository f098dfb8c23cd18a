SPECIFICATION Spec
CONSTANTS
  t1 = t1
  t2 = t2
  None = None
  Thread = {t1, t2}
  Main = t1
  Tables <- MCTables
  Value = {0, 1}
  Calls = 2
  MaxSpurious = 1
  MaxErrors = 1
  Size = 4
  Modulus = 16
  MaxDepth = 3

  
PROPERTIES
  PartitionsKept
  CallsReturn
