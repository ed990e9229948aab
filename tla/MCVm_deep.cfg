SPECIFICATION FairSpec
CONSTANTS
  CompiledForm <- CompileForm
  CompiledFn <- CompileFn
  Syms <- MCSyms
  FnNames = {"F", "G"}
  Sessions <- RoughAndDeep
  StartLevels = {0, 3}
  StartRests = {FALSE}
  TrapSize = 8
  MaxLevel = 4
  StackSize = 30
INVARIANTS CleanPrompt FnsRunnable DepthBounded
PROPERTIES Ends
