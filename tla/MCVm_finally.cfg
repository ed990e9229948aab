SPECIFICATION Spec
CONSTANTS
  CompiledForm <- CompileForm
  CompiledFn <- CompileFn
  Syms <- MCSyms
  FnNames = {"F", "G"}
  Sessions <- Unwinding
  StartLevels = {0, 3}
  StartRests = {FALSE}
  TrapSize = 8
  MaxLevel = 8
  StackSize = 12
INVARIANTS FinallyRuns
