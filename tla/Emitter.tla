-------------------------------- MODULE Emitter --------------------------------
(***************************************************************************)
(* compiler.c: a compiled_chunk under construction, and the functions that *)
(* emit one instruction each.                                              *)
(*                                                                         *)
(* While it emits code the compiler keeps in cc->stacklevel the height the *)
(* stack will have.  An instruction is <<name, operand, level>>: level is  *)
(* what stacklevel was when it was emitted, kept for the properties; no    *)
(* instruction reads it.                                                   *)
(***************************************************************************)
EXTENDS Integers, SequencesExt, Objects

CONSTANTS
  Syms,       (* names of variables                                        *)
  FnNames     (* names of functions written in Lisp                        *)

ASSUME SymsAssumption == Syms \cap {"NIL", "T"} = {}

Unbound == <<"unbound">>
Abs(n) == IF n < 0 THEN 0 - n ELSE n
(* vm_error_impl: an error may carry a message, (name message).            *)
ErrorName(e) == IF IsCons(e) THEN Items(e)[1] ELSE e
NoVars == [s \in Syms |-> Unbound]

(* A compilation in progress: the chunk (code, labels, stacklevel,         *)
(* saved_stacklevel), the variables of the contexts on the context stack,  *)
(* innermost last, the global functions and chunks it may refer to, and    *)
(* the counter of mk_label.  ok is FALSE once an error was signalled; no   *)
(* more code is emitted and nothing more is bound.  level and rest (the    *)
(* bit CC_FLAG_HAS_REST of flags) are what malloc left there.              *)
NewChunk(scopes, fns, chunks, labnum, level, rest) ==
  [code |-> << >>, labels |-> << >>, level |-> level, saved |-> level, rest |-> rest,
   scopes |-> scopes, fns |-> fns, chunks |-> chunks, labnum |-> labnum, ok |-> TRUE]

Fail(c) == [c EXCEPT !.ok = FALSE]

-------------------------------------------------------------------------------
(* Emitting instructions: add_binstr_* and the bs_* functions.             *)

Emit(c, op, x, effect) ==
  IF c.ok THEN [c EXCEPT !.code = Append(@, <<op, x, c.level>>), !.level = @ + effect]
          ELSE c

Push(c, v)       == Emit(c, "push", v, 1)
Pop(c)           == Emit(c, "pop", 0, -1)
ChewTop(c, n)    == Emit(c, "chew_top", n, -n)
CallFn(c, n)     == Emit(c, "call", n, -n)
Arith(c, op, n)  == Emit(c, op, n, 1 - n)
PushContext(c)   == Emit(c, "push_lex_context", 0, 0)
PopContext(c)    == Emit(c, "pop_lex_context", 0, 0)
BindVar(c)       == Emit(c, "bind_var", 0, -2)
CatchInstr(c)    == Emit(c, "catch", 0, 0)
PopCatch(c)      == Emit(c, "pop_catch", 0, 0)
Exit(c)          == Emit(c, "exit", 0, 0)
Go(c, l)         == Emit(c, "go", l, 0)
GoIfNil(c, l)    == Emit(c, "go_if_nil", l, -1)
GoIfNotNil(c, l) == Emit(c, "go_if_not_nil", l, -1)
SaveStackoff(c) ==
  [Emit(c, "save_stackoff", 0, 0) EXCEPT !.saved = IF c.ok THEN c.level ELSE @]
RestoreStackoff(c) ==
  [Emit(c, "restore_stackoff", 0, 0) EXCEPT !.level = IF c.ok THEN c.saved ELSE @]

AtLevel(c, n) == IF c.ok THEN [c EXCEPT !.level = n] ELSE c

(* cc->labels maps a label to the next instruction; a label that is put    *)
(* twice keeps the last place.                                             *)
MutantLabel(c, l) ==      (* one instruction too far *)
  IF c.ok THEN [c EXCEPT !.labels = [m \in DOMAIN c.labels \cup {l} |->
                                       IF m = l THEN Len(c.code) + 2 ELSE c.labels[m]]]
          ELSE c
Label(c, l) ==
  IF c.ok THEN [c EXCEPT !.labels = [m \in DOMAIN c.labels \cup {l} |->
                                       IF m = l THEN Len(c.code) + 1 ELSE c.labels[m]]]
          ELSE c
(* map_get returns NULL for a label that is not there: offset 0.           *)
Place(c, l) == IF l \in DOMAIN c.labels THEN c.labels[l] ELSE 1
MadeLabel(n) == "L" \o ToString(n)

(* bs_bind binds in the innermost context only.                            *)
Bind(c, s) ==
  IF c.ok THEN [c EXCEPT !.scopes[Len(c.scopes)][s] = StackOffset(c.level)] ELSE c

(* lookup_var: the innermost context that has the symbol.                  *)
LookupVar(scopes, s) ==
  LET has == {i \in DOMAIN scopes : scopes[i][s] # Unbound}
  IN IF has = {} THEN Unbound ELSE scopes[Max(has)][s]

(* What is kept of a compilation.  entry is the level the code starts at.  *)
Chunk(c, variance, rest, ctx, entry) ==
  [code |-> c.code, labels |-> c.labels, variance |-> variance, rest |-> rest,
   ctx |-> ctx, entry |-> entry]

===============================================================================
