CONSTANTS
  o1 = o1 o2 = o2
  global = global c1 = c1 x = x f = f nil = nil
  Objects = {o1, o2}
  Contexts = {global, c1}
  Global = global
  Names = {x}
  FnNames = {f}
  Nil = nil
  Longs = {1}
  CacheSize = 2
  Program <- NoConstructs
  MaxStack = 2
  MaxFrames = 3
  MaxTraps = 1
SPECIFICATION Spec
SYMMETRY Symmetry2
INVARIANTS NeverUndefined CatchersLive Heights
PROPERTIES Disciplined
CHECK_DEADLOCK FALSE
