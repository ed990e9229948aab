------------------------------------ MODULE Vm ------------------------------------
(***************************************************************************)
(* The machine with the code that the compiler makes, and what the two     *)
(* promise together.  A cfg gives the constants of Machine their values:   *)
(* CompiledForm is CompileForm, CompiledFn is CompileFn.                   *)
(***************************************************************************)
EXTENDS Compiler, Machine

(* The machine and the compiler together implement the loop that answers   *)
(* every form with its meaning and stops when every form has its answer.   *)
Loop == INSTANCE Repl WITH
  answers <- [i \in DOMAIN answers |-> <<answers[i][1], Shown(answers[i][2])>>],
  done <- mode = Done
Implements == Loop!Spec

===============================================================================
