CONSTANTS
  o1 = o1 o2 = o2
  global = global c1 = c1 x = x f = f nil = nil
  Objects = {o1, o2}
  Contexts = {global}
  Global = global
  Names = {x}
  FnNames = {}
  Nil = nil
  Longs = {0, 1, 2}
  CacheSize = 2
  Program <- NoConstructs
  MaxStack = 2
  MaxFrames = 2
  MaxTraps = 0
SPECIFICATION FairSpec
INVARIANTS CacheLive DroppedAreCached
PROPERTIES CollectionEnds VmResumes
CHECK_DEADLOCK FALSE
