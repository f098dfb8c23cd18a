SPECIFICATION Spec
CONSTANTS
  p1 = p1
  p2 = p2
  stack = stack
  data = data
  code = code
  grow = grow
  map = map
  None = None
  Stale = Stale
  Proc = {p1, p2}
  Page = {stack, map, grow, code}
  Frames = 2
  Kind <- MCKind
  Buffers = {map}
  Layout <- MCLayout
  Slots = 2
  Touches <- MCTouches
  T1 = 2
  T2 = 2
INVARIANTS
  FramesOwned
  SlotsClaimed
  PinnedStays

  
