SPECIFICATION Spec
CONSTANTS
  CompiledForm <- CompileForm
  CompiledFn <- CompileFn
  Syms <- MCSyms
  FnNames = {"F", "G"}
  Sessions <- Wild
  StartLevels = {0, 3}
  StartRests = {TRUE, FALSE}
  TrapSize = 8
  MaxLevel = 20
  StackSize = 30
PROPERTY Noticed
