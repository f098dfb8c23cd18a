SPECIFICATION Spec
CONSTANTS
  r1 = r1
  r2 = r2
  w1 = w1
  w2 = w2
  None = None
  Reader = {r1, r2}
  Writer = {w1, w2}
  INTQ_BUFSIZE = 3
  ReadSize = 1
  WriteSize = 2
  Codes = {30, 42}
  Input = {115}
  MaxInput = 2
  MaxPrints = 1
INVARIANTS
  WaitersConsistent
PROPERTIES
  BytesInOrder
  BytesMove
