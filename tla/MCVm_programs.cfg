SPECIFICATION Spec
CONSTANTS
  CompiledForm <- CompileForm
  CompiledFn <- CompileFn
  Syms <- MCSyms
  FnNames = {"F", "G"}
  Sessions <- Programs
  StartLevels = {0, 3}
  StartRests = {FALSE}
  TrapSize = 8
  MaxLevel = 8
  StackSize = 20
INVARIANTS TypeOK SlotsAligned TrapsNested NeverBreaks Trusted
PROPERTIES Implements Disciplined
