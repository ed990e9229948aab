-------------------------------- MODULE Expander --------------------------------
(***************************************************************************)
(* vm_macroexpand_rec of threaded_vm.c, for any macros.                    *)
(*                                                                         *)
(* The expander is recursive in C and works on the machine's own stack: it *)
(* pushes the arguments of a macro call unevaluated above the form, runs   *)
(* the macro's code, which finds its parameters by their distance from the *)
(* top, and puts the expansion in the place of the form.  Here the         *)
(* recursion is a sequence of frames.                                      *)
(*                                                                         *)
(* A form is an object without references or a proper list of forms.       *)
(***************************************************************************)
EXTENDS Integers, Sequences, Objects

CONSTANTS
  Proper,     (* forms that call every macro as it is meant to be called   *)
  Improper,   (* forms that do not                                         *)
  Below,      (* what lies on the stack under the form                     *)
  MaxRec,     (* the depth at which vm_macroexpand_rec gives up: 4096      *)
  Variance,   (* the macros, each with the number of required parameters   *)
  HasRest,    (* those with a &rest parameter besides                      *)
  Gensyms,    (* how often each calls GENSYM                               *)
  Expansion(_, _, _)   (* what the code of macro m leaves, given its       *)
                       (* parameters and the number of the next gensym     *)

Macro == DOMAIN Variance
Parameters(m) == Variance[m] + IF m \in HasRest THEN 1 ELSE 0

(* The code of a macro finds its parameters on the stack, even if there    *)
(* were too few arguments.                                                 *)
ASSUME ExpanderAssumption ==
  /\ MaxRec \in Nat
  /\ \A m \in Macro : Variance[m] \in Nat /\ Gensyms[m] \in Nat
  /\ \A m \in Macro : Parameters(m) <= Len(Below) + 1

VARIABLES
  input,
  stack,      (* object *stack[]                                           *)
  frames,     (* calls of vm_macroexpand_rec that have not returned        *)
  gensyms,    (* gensym_num                                                *)
  status      (* "expanding", "done" or the error that was signalled       *)

mvars == <<input, stack, frames, gensyms, status>>

(* Taking apart what is not a list: TYPE-ERROR.                            *)
Bad == <<"bad">>
NamesMacro(x) == x[1] = "sym" /\ x[2] \in Macro
IsMacroCall(x) == IsCons(x) /\ NamesMacro(x[2][1])

-------------------------------------------------------------------------------
Frame(rec) == [rec |-> rec, at |-> "entry", n |-> 0]

Init ==
  /\ input \in Proper \cup Improper
  /\ stack = Append(Below, input) /\ frames = <<Frame(0)>>
  /\ gensyms = 0 /\ status = "expanding"

Depth == Len(frames)
Current == frames[Depth]
Form == stack[Len(stack)]
At(place) == status = "expanding" /\ Current.at = place

(* vm_error_impl: back to the trap, with the stack as it was there.        *)
Signal(error) ==
  /\ status' = error /\ stack' = Below /\ frames' = << >> /\ UNCHANGED <<input, gensyms>>

(* Return to the caller, which puts the result into the list it walks over. *)
Return ==
  /\ IF Depth = 1 THEN stack' = stack /\ frames' = << >> /\ status' = "done"
     ELSE LET caller == frames[Depth - 1]
              list == stack[Len(stack) - 1]
          IN /\ stack' = Append(SubSeq(stack, 1, Len(stack) - 2), List([list[2] EXCEPT ![caller.n] = Form]))
             /\ frames' = Append(SubSeq(frames, 1, Depth - 2), [caller EXCEPT !.n = @ + 1])
             /\ status' = status
  /\ UNCHANGED <<input, gensyms>>

TooDeep == At("entry") /\ Current.rec >= MaxRec /\ Signal("SIG-ERROR")
MutantEntering == At("entry") /\ Current.rec <= MaxRec     \* > for >=
Entering == At("entry") /\ Current.rec < MaxRec
Atom == Entering /\ ~IsCons(Form) /\ Return

(* Any other list is walked over from its first element on, whatever it    *)
(* is: the variables of a let and what is quoted too.                      *)
StartWalk ==
  /\ Entering /\ IsCons(Form) /\ ~IsMacroCall(Form)
  /\ frames' = [frames EXCEPT ![Depth].at = "walk", ![Depth].n = 1]
  /\ UNCHANGED <<input, stack, gensyms, status>>
WalkElement ==
  /\ At("walk") /\ Current.n <= Len(Items(Form))
  /\ stack' = Append(stack, Items(Form)[Current.n])
  /\ frames' = Append(frames, Frame(Current.rec + 1))
  /\ UNCHANGED <<input, gensyms, status>>
EndWalk == At("walk") /\ Current.n > Len(Items(Form)) /\ Return

(* The arguments are pushed; those beyond the required ones become a list, *)
(* if there are any.  Too few are not noticed.                             *)
Called == Items(Form)[1][2]
Arguments == Tail(Items(Form))
WrongCount ==
  /\ Entering /\ IsMacroCall(Form)
  /\ Len(Arguments) > Variance[Called] /\ Called \notin HasRest
  /\ Signal("SIG-ERROR")
MutantPushArguments ==    (* the list is pushed above the arguments it is made of *)
  /\ Entering /\ IsMacroCall(Form)
  /\ LET v == Variance[Called]
         more == SubSeq(Arguments, v + 1, Len(Arguments))
         pushed == Arguments \o IF more = << >> THEN << >> ELSE <<List(more)>>
     IN /\ more = << >> \/ Called \in HasRest
        /\ stack' = stack \o pushed
        /\ frames' = [frames EXCEPT ![Depth].at = "run", ![Depth].n = IF more = << >> THEN Len(pushed) ELSE v + 1]
  /\ UNCHANGED <<input, gensyms, status>>
PushArguments ==
  /\ Entering /\ IsMacroCall(Form)
  /\ LET v == Variance[Called]
         more == SubSeq(Arguments, v + 1, Len(Arguments))
         pushed == IF more = << >> THEN Arguments ELSE Append(SubSeq(Arguments, 1, v), List(more))
     IN /\ more = << >> \/ Called \in HasRest
        /\ stack' = stack \o pushed
        /\ frames' = [frames EXCEPT ![Depth].at = "run", ![Depth].n = Len(pushed)]
  /\ UNCHANGED <<input, gensyms, status>>

(* The macro's code runs: the last parameter is what is on top.  Then the  *)
(* arguments and the form are popped, and the expansion is expanded.       *)
Calling == stack[Len(stack) - Current.n]
Running == Items(Calling)[1][2]
Parameter(k) == [i \in 1 .. k |-> stack[Len(stack) - k + i]]
Results == {Expansion(Running, p, gensyms) : p \in {Parameter(Parameters(Running))}}
Replace(expansion, next) ==
  /\ stack' = Append(SubSeq(stack, 1, Len(stack) - Current.n - 1), expansion)
  /\ frames' = [frames EXCEPT ![Depth] = next]
  /\ gensyms' = gensyms + Gensyms[Running]
  /\ UNCHANGED <<input, status>>
MutantRunMacro ==         (* the expansion is not looked at again *)
  /\ At("run") /\ \E x \in Results \ {Bad} : Replace(x, [rec |-> Current.rec + 1, at |-> "walk", n |-> 1])
MutantUncounted ==        (* the expansion is expanded at the same depth *)
  At("run") /\ \E x \in Results \ {Bad} : Replace(x, Frame(Current.rec))
RunMacro == At("run") /\ \E x \in Results \ {Bad} : Replace(x, Frame(Current.rec + 1))
MacroFails == At("run") /\ Results = {Bad} /\ Signal("TYPE-ERROR")

Step ==
  \/ TooDeep \/ Atom \/ StartWalk \/ WalkElement \/ EndWalk
  \/ WrongCount \/ PushArguments \/ RunMacro \/ MacroFails
Stopped == status # "expanding" /\ UNCHANGED mvars
Next == Step \/ Stopped
Spec == Init /\ [][Next]_mvars
(* The main thread goes on.                                                *)
FairSpec == Spec /\ WF_mvars(Step)

-------------------------------------------------------------------------------
(* Properties.                                                             *)

TypeOK ==
  /\ gensyms \in Nat
  /\ status \in {"expanding", "done", "SIG-ERROR", "TYPE-ERROR"}
  /\ \A i \in DOMAIN stack : stack[i] # Bad
  /\ \A i \in DOMAIN frames :
       /\ frames[i].rec \in 0 .. MaxRec /\ frames[i].at \in {"entry", "walk", "run"} /\ frames[i].n \in Nat

(* Every call of the expander keeps what is on the stack under its form:   *)
(* each frame but the last has one slot, the last one its arguments too,   *)
(* and the caller finds the expansion in the place of the form.            *)
Balanced ==
  /\ SubSeq(stack, 1, Len(Below)) = Below
  /\ status = "expanding" =>
       Len(stack) = Len(Below) + Depth + IF Current.at = "run" THEN Current.n ELSE 0
  /\ status = "done" => Len(stack) = Len(Below) + 1

(* What a form is made of, n lists down.                                   *)
Parts(x) ==
  LET down[n \in Nat] ==
        IF n = 0 THEN {x} ELSE UNION {{Items(y)[i] : i \in DOMAIN Items(y)} : y \in down[n - 1]}
  IN down

(* No macro call is left anywhere, however deep.                           *)
FullyExpanded ==
  status = "done" => \A n \in 0 .. MaxRec : \A y \in Parts(Form)[n] : ~IsMacroCall(y)

(* The expander always stops, be it at MaxRec.                             *)
Ends == <>(status # "expanding")
===============================================================================
