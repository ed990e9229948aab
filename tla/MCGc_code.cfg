CONSTANTS
  o1 = o1 o2 = o2
  global = global c1 = c1 x = x f = f nil = nil
  Objects = {o1, o2}
  Contexts = {global, c1}
  Global = global
  Names = {x}
  FnNames = {f}
  Nil = nil
  Longs = {}
  CacheSize = 2
  Program <- FunctionsOnly
  MaxStack = 2
  MaxFrames = 3
  MaxTraps = 0
SPECIFICATION Spec
SYMMETRY Symmetry2
INVARIANTS TypeOK MutexHeld Closed MarkExact
CHECK_DEADLOCK FALSE
