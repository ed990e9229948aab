-------------------------------- MODULE Machine --------------------------------
(***************************************************************************)
(* threaded_vm.c, context.c and main.c: the machine that runs compiled     *)
(* code, calls, errors, and the read-eval-print loop.                      *)
(*                                                                         *)
(* Four stacks move together: the value stack (an array that keeps what    *)
(* was popped, so reading above the top finds old values), the context     *)
(* stack with the variable bindings, the C stack with one ___vm frame per  *)
(* active chunk, and the trap stack of setjmp buffers.  An error cuts all  *)
(* of them with one longjmp.  Where C leaves the outcome undefined (an     *)
(* address outside the array, a longjmp into a frame that has returned, a  *)
(* trap stack that is full) the machine stops in "undefined"; where a      *)
(* local variable is indeterminate after a longjmp, either value may be    *)
(* read.  Collection is the subject of Gc and invisible here.              *)
(* What the compiler makes of a form is a constant: the machine runs any   *)
(* code, and Levels says which code it can be trusted with.                *)
(***************************************************************************)
EXTENDS Levels

CONSTANTS
  CompiledForm(_, _),     (* compile_form: chunk and form                  *)
  CompiledFn(_, _, _),    (* compile_fn: chunk, parameters and body        *)
  Sessions,   (* what is typed at the prompt: sequences of forms           *)
  StartLevels,(* what malloc may leave in cc->stacklevel                   *)
  StartRests, (* and in the bit of cc->flags that fn_bind_params only sets  *)
  TrapSize,   (* INIT_TRAP_STACK                                           *)
  MaxLevel,   (* the context level ___vm refuses to exceed                 *)
  StackSize   (* bound: the part of the value stack that is looked at      *)

ASSUME VmAssumption ==
  /\ StartLevels \subseteq Int /\ StartLevels # {}
  /\ StartRests \subseteq BOOLEAN /\ StartRests # {}
  /\ \A s \in Sessions : Len(s) \in Nat
  /\ TrapSize \in Nat \ {0} /\ MaxLevel \in Nat /\ StackSize \in Nat

VARIABLES
  session,    (* the input of this run                                     *)
  next,       (* index of the form that READ returns next                  *)
  answers,    (* what the loop has printed                                 *)
  mem, sp,    (* stack, s_off                                              *)
  cstack,     (* the context stack: indices into vars                      *)
  vars,       (* the variables of every context made so far                *)
  fns,        (* cstack[0]->funcs: the functions written in Lisp           *)
  chunks,     (* every chunk made so far                                   *)
  freed,      (* the chunks that were freed                                *)
  frames,     (* the active ___vm frames                                   *)
  traps,      (* trap_stack                                                *)
  labnum,     (* the counter of mk_label                                   *)
  mode        (* where the interpreter is                                  *)

values  == <<mem, sp>>
context == <<cstack, vars>>
program == <<fns, chunks, freed, labnum>>
io      == <<session, next, answers>>
vmvars  == <<values, context, program, io, frames, traps, mode>>

Global == 1
NoContext == 0
Junk == <<"junk">>
Run == <<"run">>
Prompt == <<"prompt">>
Raising(e) == <<"raise", e>>
Undefined == <<"undefined">>
Aborted == <<"aborted">>
Done == <<"done">>

(* repl(): the chunk the main loop runs.                                   *)
ReplChunk ==
  LET calling(c, name, n) == CallFn(Push(c, Native(name)), n)
      start == NewChunk(<<NoVars>>, << >>, << >>, 0, 0, FALSE)
      loop == calling(calling(calling(start, "READ", 0), "EVAL", 1), "PRINT", 1)
  IN Chunk(Exit(loop), 0, FALSE, NoContext, 0)

Init ==
  /\ session \in Sessions /\ next = 1 /\ answers = << >>
  /\ mem = [i \in 1 .. StackSize |-> Junk] /\ sp = 0
  /\ cstack = <<Global>> /\ vars = <<NoVars>>
  /\ fns = [f \in FnNames |-> Unbound]
  /\ chunks = <<ReplChunk>> /\ freed = {}
  /\ frames = << >> /\ traps = << >>
  /\ labnum = 0 /\ mode = Prompt

-------------------------------------------------------------------------------
(* The value stack.                                                        *)

Top == IF sp = 0 THEN Nil ELSE mem[sp]
(* The height after n pops; popping an empty stack does nothing.           *)
Popped(n) == IF n < sp THEN sp - n ELSE 0
Arg(i) == IF i < sp THEN mem[sp - i] ELSE Nil

(* Pop n values and push v.                                                *)
Replace(n, v) ==
  /\ Popped(n) < StackSize
  /\ mem' = [mem EXCEPT ![Popped(n) + 1] = v]
  /\ sp' = Popped(n) + 1
Discard(n) == sp' = Popped(n) /\ UNCHANGED mem

(* stack[s_off - 1 - offset].                                              *)
InArray(offset) == sp - offset \in 1 .. StackSize
Slot(offset) == mem[sp - offset]

-------------------------------------------------------------------------------
(* The running chunk.                                                      *)

F == Last(frames)
Code == chunks[F.chunk].code
Op == Code[F.pc][1]
Operand == Code[F.pc][2]
Executing(op) == mode = Run /\ Op = op
Goto(n) == frames' = [frames EXCEPT ![Len(frames)].pc = n]
NextI == Goto(F.pc + 1)

Target(l) == Place(chunks[F.chunk], l)

Straight == NextI /\ UNCHANGED <<program, io, traps, mode>>

PushI     == Executing("push") /\ Replace(0, Operand) /\ Straight /\ UNCHANGED context
PopI      == Executing("pop") /\ Discard(1) /\ Straight /\ UNCHANGED context
ChewTopI  == /\ Executing("chew_top") /\ Popped(1) >= Operand
             /\ Replace(1 + Operand, Top) /\ Straight /\ UNCHANGED context
PushFromStackI ==
  /\ Executing("push_from_stack") /\ InArray(Operand) /\ Slot(Operand) # Junk
  /\ Replace(0, Slot(Operand)) /\ Straight /\ UNCHANGED context
PopToStackI ==
  /\ Executing("pop_to_stack") /\ InArray(Operand)
  /\ IF Operand = 0 THEN UNCHANGED values
     ELSE mem' = [mem EXCEPT ![sp - Operand] = Top] /\ sp' = Popped(1)
  /\ Straight /\ UNCHANGED context

(* resolve: the value of a variable that is not on the stack.              *)
Scopes == [i \in DOMAIN cstack |-> vars[cstack[i]]]
ResolveI ==
  /\ Executing("resolve_sym")
  /\ LookupVar(Scopes, Top[2]) # Unbound
  /\ Replace(1, LookupVar(Scopes, Top[2]))
  /\ Straight /\ UNCHANGED context

BindVarI ==
  /\ Executing("bind_var")
  /\ vars' = [vars EXCEPT ![Last(cstack)][Arg(0)[2]] = Arg(1)]
  /\ Discard(2) /\ Straight /\ UNCHANGED cstack

PushContextI ==
  /\ Executing("push_lex_context")
  /\ vars' = Append(vars, NoVars)
  /\ cstack' = Append(cstack, Len(vars) + 1)
  /\ Straight /\ UNCHANGED values

PopContextI ==
  /\ Executing("pop_lex_context") /\ Len(cstack) > 1
  /\ cstack' = Front(cstack)
  /\ Straight /\ UNCHANGED <<values, vars>>

Jump == UNCHANGED <<context, program, io, traps, mode>>
GoI == Executing("go") /\ Goto(Target(Operand)) /\ UNCHANGED values /\ Jump
GoIfI ==
  /\ Executing("go_if_nil") \/ Executing("go_if_not_nil")
  /\ IF (Top = Nil) = (Op = "go_if_nil") THEN Goto(Target(Operand)) ELSE NextI
  /\ Discard(1) /\ Jump

(* Arithmetic pops its operands from the last to the first; all but add    *)
(* and multiply pop one even if there is none.  num_eq compares the last   *)
(* with the others and stops at the first that differs: what is below that *)
(* one stays on the stack, its type unknown.  Longs do not overflow here.  *)
MutantTaken ==            (* num_eq looks at what differs, but leaves it *)
  CASE Op \in {"add", "multiply"} -> Operand
    [] Op \in {"subtract", "divide"} -> Max({1, Operand})
    [] Op = "num_eq" -> Min({i \in 1 .. Operand - 1 : Arg(i) # Top} \cup {Max({1, Operand})})
Taken ==
  CASE Op \in {"add", "multiply"} -> Operand
    [] Op \in {"subtract", "divide"} -> Max({1, Operand})
    [] Op = "num_eq" -> Min({i \in 2 .. Operand : Arg(i - 1) # Top} \cup {Max({1, Operand})})
Operands == [i \in 1 .. Taken |-> Arg(i - 1)]
IsNumber(v) == v[1] = "num"
AllNumbers == \A i \in DOMAIN Operands : IsNumber(Operands[i])
Sum(vs) == FoldLeft(LAMBDA n, v : n + v[2], 0, vs)
Product(vs) == FoldLeft(LAMBDA n, v : n * v[2], 1, vs)
First == Last(Operands)[2]
Others == Front(Operands)
(* C's division rounds towards zero; by zero it ends the program.          *)
Quotient(a, b) ==
  LET q == Abs(a) \div Abs(b) IN IF (a < 0) = (b < 0) THEN q ELSE 0 - q
ByZero == Op = "divide" /\ Operand > 0 /\ AllNumbers /\ Product(Others) = 0
Truth(b) == IF b THEN T ELSE Nil
Computed ==
  CASE Op = "add" -> Num(Sum(Operands))
    [] Op = "subtract" -> Num(First - Sum(Others))
    [] Op = "multiply" -> Num(Product(Operands))
    [] Op = "divide" -> Num(Quotient(First, Product(Others)))
    [] Op = "num_eq" -> Truth(\A i \in DOMAIN Operands : Operands[i] = Top)
Computes == mode = Run /\ Op \in {"add", "subtract", "multiply", "divide", "num_eq"}
ArithI ==
  /\ Computes /\ AllNumbers /\ ~ByZero
  /\ Op = "divide" => Operand > 0
  /\ Replace(Len(Operands), Computed)
  /\ Straight /\ UNCHANGED context

SaveStackoffI ==
  /\ Executing("save_stackoff")
  /\ frames' = [frames EXCEPT ![Len(frames)].saved_off = sp, ![Len(frames)].pc = F.pc + 1]
  /\ UNCHANGED <<values, context, program, io, traps, mode>>

RestoreStackoffI ==
  /\ Executing("restore_stackoff") /\ F.saved_off # NoSave
  /\ sp' = F.saved_off
  /\ UNCHANGED <<mem, context>> /\ Straight

-------------------------------------------------------------------------------
(* Traps.                                                                  *)

(* __push_trap.  catch remembers its instruction twice: in the setjmp'ed   *)
(* registers (at) and in the local variable bs_saved of its C frame.       *)
MutantTrap(owner, catcher, off, frame) ==     (* the level a call would be at *)
  [owner |-> owner, catcher |-> catcher, off |-> off, lvl |-> Len(cstack) + 1,
   frame |-> frame, at |-> IF owner = "catch" THEN F.pc ELSE 0, live |-> TRUE]
Trap(owner, catcher, off, frame) ==
  [owner |-> owner, catcher |-> catcher, off |-> off, lvl |-> Len(cstack),
   frame |-> frame, at |-> IF owner = "catch" THEN F.pc ELSE 0, live |-> TRUE]
RoomForTrap == Len(traps) < TrapSize
PopTrap(ts) == IF ts = << >> THEN ts ELSE Front(ts)
(* A jmp_buf dies with the C frame that called setjmp.                     *)
Orphan(ts, n) == [i \in DOMAIN ts |-> IF ts[i].frame >= n THEN [ts[i] EXCEPT !.live = FALSE]
                                      ELSE ts[i]]

CatchI ==
  /\ Executing("catch") /\ RoomForTrap
  /\ traps' = Append(traps, Trap("catch", Top, Popped(1), Len(frames)))
  /\ Replace(1, Nil)
  /\ frames' = [frames EXCEPT ![Len(frames)].bs_saved = F.pc, ![Len(frames)].pc = F.pc + 1]
  /\ UNCHANGED <<context, program, io, mode>>

PopCatchI ==
  /\ Executing("pop_catch")
  /\ traps' = PopTrap(traps)
  /\ NextI /\ UNCHANGED <<values, context, program, io, mode>>

(* vm_error_impl finds the innermost trap that wants the error.  A trap of *)
(* vm_eval throws again; one of main prints the error and starts over.     *)
Wants(i, e) == traps[i].catcher \in {ErrorName(e), Nil}
Catcher(e) == Max({i \in DOMAIN traps : Wants(i, e)})
Caught(e) == mode = Raising(e) /\ \E i \in DOMAIN traps : Wants(i, e)
MutantUnwind(t) ==        (* contexts stay pushed *)
  /\ t.live /\ t.lvl <= Len(cstack)
  /\ traps' = SubSeq(traps, 1, Catcher(mode[2]) - 1)
  /\ UNCHANGED <<context, program>>
Unwind(t) ==
  /\ t.live /\ t.lvl <= Len(cstack)
  /\ cstack' = SubSeq(cstack, 1, t.lvl)
  /\ traps' = SubSeq(traps, 1, Catcher(mode[2]) - 1)
  /\ UNCHANGED <<vars, program>>

RaiseToCatch(e) ==
  LET t == traps[Catcher(e)] IN
  /\ Caught(e) /\ t.owner = "catch" /\ Unwind(t)
  /\ t.off + 2 <= StackSize
  /\ mem' = [mem EXCEPT ![t.off + 1] = e, ![t.off + 2] = T] /\ sp' = t.off + 2
  /\ \E at \in {t.at, frames[t.frame].bs_saved} :
       frames' = [SubSeq(frames, 1, t.frame) EXCEPT ![t.frame].pc = at + 1]
  /\ mode' = Run /\ UNCHANGED io

RaiseToEval(e) ==
  LET t == traps[Catcher(e)] IN
  /\ Caught(e) /\ t.owner = "eval" /\ Unwind(t)
  /\ t.off < StackSize
  /\ mem' = [mem EXCEPT ![t.off + 1] = e] /\ sp' = t.off
  /\ frames' = SubSeq(frames, 1, t.frame - 1)
  /\ UNCHANGED <<io, mode>>

Reported(e) == Append(answers, <<"error", e>>)
RaiseToMain(e) ==
  LET t == traps[Catcher(e)] IN
  /\ Caught(e) /\ t.owner = "main" /\ Unwind(t)
  /\ t.off < StackSize
  /\ mem' = [mem EXCEPT ![t.off + 1] = e] /\ sp' = t.off
  /\ frames' = << >>
  /\ answers' = Reported(e)
  /\ mode' = IF next > Len(session) + 1 THEN Done ELSE Prompt
  /\ UNCHANGED <<session, next>>

-------------------------------------------------------------------------------
(* call().                                                                 *)

Signal(e) ==
  /\ mode' = Raising(e)
  /\ UNCHANGED <<values, context, program, io, frames, traps>>

(* run_vm on entry to ___vm: a chunk starts, or the stack has overflowed.  *)
MutantTooDeep(lvl) == FALSE
TooDeep(lvl) == lvl - 1 > MaxLevel
Start(chunk, kind, argc, lvl, height, entry) ==
  IF TooDeep(lvl)
    THEN mode' = Raising(Sym("STACK-OVERFLOW")) /\ NextI
    ELSE /\ frames' = Append([frames EXCEPT ![Len(frames)].pc = @ + 1],
              [kind |-> kind, chunk |-> chunk, pc |-> 1, argc |-> argc, bs_saved |-> 0,
               saved_off |-> NoSave, origin |-> height - entry, lvl |-> lvl])
         /\ UNCHANGED mode

Calling(f) == Executing("call") /\ Top = f

CallCode ==
  /\ Executing("call") /\ Top[1] = "code"
  /\ cstack' = Append(cstack, chunks[Top[2]].ctx)
  /\ Discard(1)
  /\ Start(Top[2], "call", Operand, Len(cstack'), Popped(1), chunks[Top[2]].entry)
  /\ UNCHANGED <<vars, program, io, traps>>

CallList ==
  /\ Calling(Native("LIST"))
  /\ Replace(1 + Operand, IF Operand <= 0 THEN Nil
                          ELSE List([i \in 1 .. Operand |-> Arg(1 + Operand - i)]))
  /\ Straight /\ UNCHANGED context

(* vm_num_gt and vm_num_lt: the operand popped first is the last argument. *)
(* (C leaves that order open; the build pops the left operand first.)      *)
(* vm_num_gt goes on after a wrong number of arguments and pops two.       *)
Compares(f) == Calling(Native(f)) /\ (f = "<" => Operand = 2)
Comparable == IsNumber(Arg(1)) /\ IsNumber(Arg(2))
CallCompare ==
  /\ \E f \in {">", "<"} :
       /\ Compares(f) /\ Comparable
       /\ Replace(3, Truth(IF f = ">" THEN Arg(1)[2] < Arg(2)[2] ELSE Arg(1)[2] > Arg(2)[2]))
  /\ Straight /\ UNCHANGED context

(* BIND binds in the innermost context: at the prompt, a global variable.  *)
CallBind ==
  /\ Calling(Native("BIND")) /\ Operand = 2
  /\ vars' = [vars EXCEPT ![Last(cstack)][Arg(2)[2]] = Arg(1)]
  /\ Replace(3, Arg(1)) /\ Straight /\ UNCHANGED cstack

(* FUNCTION gives what a name is bound to now, or NIL.                     *)
Natives == {"LIST", "READ", "PRINT", "EVAL", "ERROR", ">", "<", "BIND", "FUNCTION",
            "COMPILE-FN", "COMPILE-LAMBDA"}
FunctionNamed(s) ==
  CASE s \in FnNames /\ fns[s] # Unbound -> fns[s]
    [] s \in Natives -> Native(s)
    [] OTHER -> Nil
CallFunction ==
  /\ Calling(Native("FUNCTION")) /\ Operand = 1
  /\ Replace(2, FunctionNamed(Arg(1)[2])) /\ Straight /\ UNCHANGED context

CallRead ==
  /\ Calling(Native("READ")) /\ next <= Len(session)
  /\ Replace(1, <<"form", session[next]>>)
  /\ next' = next + 1
  /\ NextI /\ UNCHANGED <<context, program, session, answers, traps, mode>>

CallPrint ==
  /\ Calling(Native("PRINT")) /\ Operand = 1
  /\ answers' = Append(answers, <<"value", Arg(1)>>)
  /\ Replace(2, Nil)
  /\ NextI /\ UNCHANGED <<context, program, session, next, traps, mode>>

(* vm_eval: compile the form in the current contexts, run the chunk, free  *)
(* it.  Its trap, which would free the chunk after an error and throw      *)
(* again, only throws again.  What compiling has bound are stack offsets   *)
(* (bs_bind), in the innermost context, and they stay.  variance and flags *)
(* stay as malloc left them, and nobody reads them: the chunk has no name. *)
Rebound(old, new) == [s \in Syms |-> IF IsOffset(new[s]) THEN new[s] ELSE old[s]]
CallEval ==
  /\ Calling(Native("EVAL")) /\ Operand = 1 /\ RoomForTrap
  /\ \E start \in StartLevels :
       LET c == CompiledForm(NewChunk(Scopes, fns, chunks, labnum, start, FALSE), Arg(1)[2])
           chunk == Chunk(c, 0, FALSE, NoContext, start)
       IN /\ vars' = [vars EXCEPT ![Last(cstack)] = Rebound(@, Last(c.scopes))]
          /\ chunks' = Append(chunks, chunk) /\ labnum' = c.labnum
          /\ Discard(2)
          /\ IF c.ok
               THEN /\ traps' = Append(traps, Trap("eval", Nil, Popped(1), Len(frames) + 1))
                    /\ Start(Len(chunks) + 1, "eval", 0, Len(cstack), Popped(2), start)
               ELSE /\ mode' = Raising(SigError)
                    /\ UNCHANGED <<frames, traps>>
  /\ UNCHANGED <<cstack, fns, freed, io>>

(* vm_compile_fn and vm_compile_lambda: compile in the contexts of the     *)
(* caller and keep the innermost one for the calls.  The name is bound     *)
(* before the body is compiled, and unbound if that fails.                 *)
MutantUnnamed(bound, named) == bound      (* the name keeps the half-made chunk *)
Unnamed(bound, named) == [f \in FnNames |-> IF f \in named THEN Unbound ELSE bound[f]]
Bound(named) == [f \in FnNames |-> IF f \in named THEN CodeRef(Len(chunks) + 1) ELSE fns[f]]
FnChunk(c, fn, start) ==
  Chunk(c, Len(fn[2]) - (IF fn[3] THEN 1 ELSE 0), c.rest \/ fn[3], Last(cstack),
        start + Len(fn[2]) - 1)
Compilation(fn, named, start, rest) ==
  LET empty == FnChunk(NewChunk(<<NoVars>>, << >>, << >>, 0, start, rest), fn, start)
  IN CompiledFn(NewChunk(Scopes, Bound(named), Append(chunks, empty), labnum, start, rest),
                fn[2], fn[4])
CompileIt(fn, named, start, rest) ==
  LET c == Compilation(fn, named, start, rest) IN
  /\ chunks' = Append(chunks, FnChunk(c, fn, start))
  /\ labnum' = c.labnum
  /\ IF c.ok
       THEN /\ fns' = Bound(named)
            /\ IF named = {} THEN Replace(2, CodeRef(Len(chunks) + 1)) ELSE Discard(3)
            /\ NextI /\ UNCHANGED mode
       ELSE /\ fns' = Unnamed(Bound(named), named)
            /\ mode' = Raising(SigError)
            /\ UNCHANGED <<values, frames>>
  /\ UNCHANGED <<context, freed, io, traps>>

CallCompileFn ==
  /\ Calling(Native("COMPILE-FN")) /\ RoomForTrap
  /\ \E start \in StartLevels, rest \in StartRests : CompileIt(Arg(2), {Arg(1)[2]}, start, rest)
CallCompileLambda ==
  /\ Calling(Native("COMPILE-LAMBDA")) /\ RoomForTrap
  /\ \E start \in StartLevels, rest \in StartRests : CompileIt(Arg(1), {}, start, rest)

(* The errors the machine signals itself, and ERROR.                       *)
Callable(v) == v[1] \in {"code", "native"}
SignalI ==
  \/ /\ Executing("resolve_sym") /\ LookupVar(Scopes, Top[2]) = Unbound
     /\ Signal(SigError)
  \/ Computes /\ ~AllNumbers /\ Signal(TypeError)
  \/ Computes /\ Op = "divide" /\ Operand = 0 /\ Signal(SigError)
  \/ (\E f \in {">", "<"} : Compares(f)) /\ ~Comparable /\ Signal(TypeError)
  \/ Executing("call") /\ ~Callable(Top) /\ Signal(SigError)
  \/ Calling(Native("ERROR")) /\ Signal(IF Operand = 1 THEN Arg(1) ELSE SigError)
  \/ /\ \E f \in {"PRINT", "EVAL", "FUNCTION"} : Calling(Native(f)) /\ Operand # 1
     /\ Signal(SigError)
  \/ /\ \E f \in {"<", "BIND"} : Calling(Native(f)) /\ Operand # 2
     /\ Signal(SigError)
  \/ Calling(Native("READ")) /\ next = Len(session) + 1
       /\ mode' = Raising(Sym("END-OF-FILE")) /\ next' = next + 1
       /\ UNCHANGED <<values, context, program, session, answers, frames, traps>>

(* exit: back in call(), vm_eval() or main().                              *)
ExitI ==
  /\ Executing("exit")
  /\ \/ /\ F.kind = "call" /\ Len(cstack) > 1
        /\ Replace(1 + F.argc, Top)
        /\ cstack' = Front(cstack)
        /\ traps' = Orphan(traps, Len(frames))
        /\ UNCHANGED <<freed, mode>>
     \/ /\ F.kind = "eval"
        /\ freed' = freed \cup {F.chunk}
        /\ traps' = Orphan(PopTrap(traps), Len(frames))
        /\ UNCHANGED <<values, cstack, mode>>
     \/ /\ F.kind = "repl"
        /\ traps' = Orphan(PopTrap(traps), Len(frames))
        /\ mode' = Prompt
        /\ UNCHANGED <<values, cstack, freed>>
  /\ frames' = Front(frames)
  /\ UNCHANGED <<vars, fns, chunks, labnum, io>>

(* One turn of the loop in main(): push the catch-all trap, drop what      *)
(* PRINT returned, run the chunk of repl().                                *)
MainLoop ==
  /\ mode = Prompt /\ RoomForTrap
  /\ traps' = Append(traps, Trap("main", Nil, sp, 0))
  /\ Discard(1)
  /\ frames' = <<[kind |-> "repl", chunk |-> 1, pc |-> 1, argc |-> 0, bs_saved |-> 0,
                  saved_off |-> NoSave, origin |-> Popped(1), lvl |-> 1]>>
  /\ mode' = Run /\ UNCHANGED <<context, program, io>>

(* What C does not define, and abort().                                    *)
Stop(m) == mode' = m /\ UNCHANGED <<values, context, program, io, frames, traps>>
PushesTrap ==
  \/ Executing("catch")
  \/ \E f \in {<<"EVAL", 1>>, <<"COMPILE-FN", 2>>, <<"COMPILE-LAMBDA", 2>>} :
       Calling(Native(f[1])) /\ Operand = f[2]
Breaks ==
  \/ Executing("chew_top") /\ Popped(1) < Operand
  \/ Executing("push_from_stack") /\ ~InArray(Operand)
  \/ Executing("push_from_stack") /\ InArray(Operand) /\ Slot(Operand) = Junk
  \/ Executing("pop_to_stack") /\ ~InArray(Operand)
  \/ Executing("pop_lex_context") /\ Len(cstack) = 1
  \/ Executing("exit") /\ F.kind = "call" /\ Len(cstack) = 1
  \/ Executing("restore_stackoff") /\ F.saved_off = NoSave
  \/ Computes /\ ByZero
  \/ PushesTrap /\ ~RoomForTrap
  \/ mode[1] = "raise" /\ Caught(mode[2]) /\ ~traps[Catcher(mode[2])].live
Fails ==
  \/ mode[1] = "raise" /\ ~Caught(mode[2])
  \/ mode[1] = "raise" /\ Caught(mode[2]) /\ traps[Catcher(mode[2])].lvl > Len(cstack)
Break == (Breaks /\ Stop(Undefined)) \/ (Fails /\ Stop(Aborted))

HaltedModes == {Done, Undefined, Aborted}
Halted == mode \in HaltedModes /\ UNCHANGED vmvars

Instruction ==
  \/ PushI \/ PopI \/ ChewTopI \/ PushFromStackI \/ PopToStackI \/ ResolveI \/ BindVarI
  \/ PushContextI \/ PopContextI \/ GoI \/ GoIfI \/ ArithI
  \/ SaveStackoffI \/ RestoreStackoffI \/ CatchI \/ PopCatchI
  \/ CallCode \/ CallList \/ CallCompare \/ CallBind \/ CallFunction \/ CallRead \/ CallPrint \/ CallEval
  \/ CallCompileFn \/ CallCompileLambda \/ SignalI \/ ExitI

Raise == \E e \in {mode[i] : i \in 2 .. Len(mode)} :
           RaiseToCatch(e) \/ RaiseToEval(e) \/ RaiseToMain(e)

Step == Instruction \/ Raise \/ MainLoop \/ Break
Next == Step \/ Halted
Spec == Init /\ [][Next]_vmvars
(* One thread interprets and never waits for anything here (a form is      *)
(* always there to read): until it halts it keeps taking steps.  This is   *)
(* WF_vmvars(Step), since Step is enabled until mode is a halted one, in a *)
(* form that spares TLC evaluating ENABLED of a whole compilation.         *)
FairSpec == Spec /\ ([]<>(mode \in HaltedModes) \/ []<><<Next>>_vmvars)

-------------------------------------------------------------------------------
(* Properties.                                                             *)

(* Type invariant.                                                         *)
TypeOK ==
  /\ next \in 1 .. Len(session) + 2
  /\ DOMAIN mem = 1 .. StackSize /\ sp \in 0 .. StackSize
  /\ cstack # << >> /\ ToSet(cstack) \subseteq DOMAIN vars
  /\ \A f \in FnNames : fns[f] = Unbound \/ fns[f][2] \in DOMAIN chunks
  /\ freed \subseteq DOMAIN chunks
  /\ \A i \in DOMAIN frames : /\ frames[i].chunk \in DOMAIN chunks \ freed
                              /\ frames[i].pc \in DOMAIN chunks[frames[i].chunk].code
  /\ Len(traps) <= TrapSize

(* Every chunk that is entered has a plan, and what is called takes off    *)
(* the stack what it was compiled to take; a compiled function gets as     *)
(* many arguments as it has parameters.  This is what the machine trusts   *)
(* the compiler and its caller to do, and does not test.                   *)
CalleeFits ==
  LET known == Known(chunks[F.chunk], F.pc) IN
  /\ Pops(Top, Operand) = Pops(known, Operand) /\ Pushes(Top) = Pushes(known)
  /\ Top[1] = "code" =>
       /\ Top[2] \in DOMAIN chunks /\ chunks[Top[2]].ctx # NoContext
       /\ Operand = Parameters(chunks[Top[2]])
Verified ==
  mode = Run =>
    /\ F.pc = 1 => Level(chunks[F.chunk])
    /\ Op = "call" /\ Callable(Top) => CalleeFits

(* When the code reads or writes a local variable, the value stack is as   *)
(* high as the compiler took it to be when it computed the distance to the *)
(* variable (stacklevel in bs_resolve and bs_set): on every path, after    *)
(* every jump, call, error and loop.                                       *)
SlotsAligned ==
  mode = Run /\ Op \in {"push_from_stack", "pop_to_stack"} => sp - F.origin = Code[F.pc][3]

(* The four stacks nest: every trap's setjmp frame is still active (the    *)
(* chunk of vm_eval may not have been entered), a trap above another is in *)
(* no older frame and at no lower context level, and the height a catch    *)
(* would restore has not been popped away.                                 *)
Entering(t) == t.owner = "eval" /\ mode # Run
TrapsNested ==
  /\ \A i \in DOMAIN traps : /\ traps[i].live
                             /\ traps[i].frame <= Len(frames) + IF Entering(traps[i]) THEN 1 ELSE 0
                             /\ traps[i].lvl <= Len(cstack)
                             /\ traps[i].owner = "catch" => traps[i].off <= sp
  /\ \A i \in 1 .. Len(traps) - 1 : /\ traps[i].frame <= traps[i + 1].frame
                                    /\ traps[i].lvl <= traps[i + 1].lvl

(* Back at the prompt, after an answer or an error anywhere, nothing of    *)
(* the evaluation is left: no frame, no trap, no context, and on the value *)
(* stack at most what PRINT returned.                                      *)
CleanPrompt ==
  mode \in {Prompt, Done} => /\ frames = << >> /\ traps = << >>
                            /\ cstack = <<Global>> /\ sp <= 1

(* Code that takes the stacks out of step gives itself away: by then some  *)
(* chunk has been entered that has no plan, or something was called that   *)
(* takes other arguments than were pushed.  No code does it in disguise.   *)
InStep == SlotsAligned /\ TrapsNested /\ CleanPrompt
Noticed == []Verified => []InStep

(* What a program must spare the machine: to divide by zero, and to push a *)
(* trap above the trap stack.                                              *)
Spared == ~(Computes /\ ByZero) /\ (PushesTrap => RoomForTrap)

(* To open a context at the very limit of them: ___vm counts the contexts  *)
(* only when a chunk is entered.  And to read the forms meant for the loop. *)
Shallow == Executing("push_lex_context") => Len(cstack) - 1 < MaxLevel
OnlyLoopReads == Calling(Native("READ")) => Len(frames) = 1

(* What the compiler owes: compile_fn emits the exit, if nothing fails.    *)
Ended(chunk) == \E i \in DOMAIN chunk.code : chunk.code[i][1] = "exit"
FnsEnd ==
  Calling(Native("COMPILE-FN")) => \A start \in StartLevels, rest \in StartRests :
    LET c == Compilation(Arg(2), {Arg(1)[2]}, start, rest) IN c.ok => Ended(c)

(* What the theorems of MachineProofs and PromiseProofs ask of the         *)
(* compiler and the program.                                               *)
Trusted == Verified /\ Spared /\ Shallow /\ OnlyLoopReads /\ FnsEnd

(* The program never does what C leaves undefined and never aborts.        *)
NeverBreaks == mode \notin {Undefined, Aborted}

(* However deep a program recurses, the context stack stays within what    *)
(* ___vm tests, and the error that stops it is one the loop survives.      *)
DepthBounded == Len(cstack) - 1 <= MaxLevel + 1

(* No form is passed over in silence: when the next one is asked for, every *)
(* one before it has printed a value or an error, whatever it did to the   *)
(* stacks.                                                                 *)
NoneSilent == mode = Prompt => Len(answers) >= next - 1

(* A function that has a name has been compiled to its end: a definition   *)
(* that fails half way leaves no callable remains.                         *)
FnsRunnable ==
  mode = Prompt =>
    \A f \in FnNames : fns[f] # Unbound => Ended(chunks[fns[f][2]])

(* The machine keeps the discipline of Stacks whatever compiled code it    *)
(* runs, in which the frame of the loop and the traps of main and vm_eval  *)
(* are not seen.                                                           *)
CallOf(cs, f) ==
  LET base == f.origin + cs[f.chunk].entry IN
  [base |-> base, back |-> base - f.argc, own |-> f.lvl,
   outer |-> IF f.kind = "call" THEN f.lvl - 1 ELSE f.lvl]
CallsOf(cs, fs) == [i \in 1 .. Len(fs) - 1 |-> CallOf(cs, fs[i + 1])]
CatchTraps(ts) == {i \in DOMAIN ts : ts[i].owner = "catch"}
CountTo(S, n) == Cardinality({i \in S : i <= n})
HandlerOf(t) == [off |-> t.off, scopes |-> t.lvl, depth |-> t.frame - 1]
HandlersOf(ts) ==
  [n \in 1 .. Cardinality(CatchTraps(ts)) |->
     HandlerOf(ts[CHOOSE i \in CatchTraps(ts) : CountTo(CatchTraps(ts), i) = n])]
Promised == INSTANCE Stacks WITH
  height <- sp, scopes <- Len(cstack),
  calls <- CallsOf(chunks, frames), handlers <- HandlersOf(traps)
Disciplined == Promised!Spec

(* Every session comes to its end: recursion without end does too.         *)
Ends == <>(mode = Done)

===============================================================================
