CONSTANTS
  s1 = s1 s2 = s2 s3 = s3 u = u v = v f = f global = global c1 = c1 null = null
  Keys = {s1, s2, s3}
  Text <- MCText
  Null = null
  InitialSpace = 1
  Values = {u, v}
  Functions = {f}
  Contexts = {global, c1}
  Global = global
  InitialRoom = 1
  MaxLevel = 2
SPECIFICATION Spec
SYMMETRY Symmetry
INVARIANTS TypeOK NamesOnce ChainValid ScanComplete
PROPERTIES Implements
