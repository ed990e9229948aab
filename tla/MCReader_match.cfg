SPECIFICATION Spec
CONSTANTS
  InitialCapacity = 2
  Upper <- MCUpper
  Spelling <- MCSpelling
  Sessions <- AnySessions
INVARIANT NoBadMatch
