CONSTANTS
  Syms = {"X", "E", "gensym-0", "gensym-1", "gensym-2", "gensym-3", "gensym-4", "gensym-5", "gensym-6", "gensym-7"}
  FnNames = {}
  Proper <- MCProper
  Improper <- MCImproper
  Below <- MCBelow
  Variance <- StandardVariance
  HasRest <- StandardRest
  Gensyms <- StandardGensyms
  Expansion <- StandardExpansion
  MaxRec = 40
SPECIFICATION FairSpec
INVARIANTS TypeOK Balanced FullyExpanded Meaning
PROPERTY Ends
