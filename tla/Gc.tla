---------------------------------- MODULE Gc ----------------------------------
(***************************************************************************)
(* The object heap of the interpreter and its collector: gc.c, the         *)
(* allocation and destruction half of object.c, and the part of            *)
(* threaded_vm.c, context.c and main.c that decides which objects the      *)
(* collector is shown.                                                     *)
(*                                                                         *)
(* Two threads share the heap.  The main thread runs the bytecode machine  *)
(* and owns gc_mut from vm_init on; it lets go of it only inside the       *)
(* `exit' instruction, for one call out of 20000, and takes it back at     *)
(* once.  The collector thread takes gc_mut, marks from the roots, sweeps, *)
(* lets go and sleeps.  A collection therefore falls on the last           *)
(* instruction of SOME chunk, with any number of C frames (call, vm_eval,  *)
(* main) still active above it.                                            *)
(*                                                                         *)
(* Abstractions.  An object is an address; of its contents only the        *)
(* references survive (two slots: car and cdr of a pair, the first of them *)
(* one literal of a compiled chunk) and, for a number, its value.  "pair"  *)
(* stands for O_CONS, O_FN and O_MACRO (all three hold a struct cons),     *)
(* "code" for O_FN_COMPILED and O_MACRO_COMPILED, "leaf" for the types     *)
(* without references.  Names are the interned symbols used as keys; T and *)
(* NIL are allocated before gc_init, so no olist ever holds them: Nil is   *)
(* not in Objects, nor are the native functions, which stay bound.  Once a *)
(* freed object is touched the program has no defined behaviour left: vmpc *)
(* becomes "undefined" and the machine stops.                              *)
(***************************************************************************)
EXTENDS Integers, Sequences

CONSTANTS
  Objects,    (* the addresses malloc may return for a struct object       *)
  Contexts,   (* the addresses malloc may return for a struct context      *)
  Global,     (* cstack[0], made by context_stack_init                     *)
  Names,      (* symbols that name variables                               *)
  FnNames,    (* symbols that name functions                               *)
  Nil,        (* obj_nil, and the absence of an object                     *)
  Longs,      (* the numbers the program computes                          *)
  CacheSize,  (* O_NUM_CACHE_SIZE                                          *)
  Program,    (* what the Lisp program does, see Constructs                *)
  MaxStack,   (* bound: values on the VM stack                             *)
  MaxFrames,  (* bound: active chunks                                      *)
  MaxTraps    (* bound: active catch forms                                 *)

(* Four things a Lisp program may do which decide whether the collector's  *)
(* roots are enough: write a heap literal in a top-level form, call a      *)
(* function that no name is bound to, bind a name that has a function      *)
(* already, and catch something that is not a symbol.                      *)
Constructs == {"literal", "lambda", "redefine", "catch-value"}

ASSUME ConstantsAssumption ==
  /\ Global \in Contexts
  /\ Nil \notin Objects
  /\ Longs \subseteq Int
  /\ CacheSize \in Nat \ {0}
  /\ Program \subseteq Constructs
  /\ MaxStack \in Nat /\ MaxFrames \in Nat /\ MaxTraps \in Nat

Slots == {"car", "cdr"}
Kinds == {"pair", "leaf", "num", "code"}
Flags == {"white", "grey", "black"}
Ref   == Objects \cup {Nil}
Refs  == [Slots -> Ref]
NoRefs == [s \in Slots |-> Nil]
Cacheable == {n \in Longs : 0 < n /\ n < CacheSize}

VARIABLES
  alloc,      (* objects malloc'ed and not freed                           *)
  kind, slot, (* struct object: the type tag and the references            *)
  env,        (* compiled_chunk.c of a code object                         *)
  val,        (* the long of a number                                      *)
  flag,       (* gcflag                                                    *)
  olist,      (* what the sweep walks over                                 *)
  cache,      (* long_cache                                                *)
  interned,   (* the symbol objects of the intern table                    *)
  vars,       (* the variable map of every context                         *)
  fns,        (* cstack[0]->funcs                                          *)
  stack,      (* stack[0 .. s_off-1]                                       *)
  cstack,     (* cstack[0 .. cstackoff]                                    *)
  frames,     (* the active run_vm calls and what their C callers hold     *)
  traps,      (* trap_stack[0 .. trap_stack_off-1]                         *)
  vmpc,       (* where the main thread is                                  *)
  lock,       (* who owns gc_mut                                           *)
  gq,         (* what waits in grey_queue: <<object, scan, place>>         *)
  gcpc        (* where the collector thread is                             *)

heap     == <<alloc, kind, slot, env, val>>
tables   == <<cache, interned, vars, fns>>
control  == <<cstack, frames, traps>>
machine  == <<stack, control, vmpc>>
gcvars   == <<gq, gcpc>>
vars_all == <<heap, flag, olist, tables, machine, lock, gcvars>>

-------------------------------------------------------------------------------
(* Helpers.                                                                *)

Elems(s) == {s[i] : i \in DOMAIN s}
LastOf(s) == s[Len(s)]
(* Cut to n elements.  Balanced code, which is all this module has, never  *)
(* asks for more than there are (Heights).                                 *)
Keep(s, n) == SubSeq(s, 1, IF n < Len(s) THEN n ELSE Len(s))
Drop(n) == Keep(stack, Len(stack) - n)
Top == LastOf(stack)
Second == stack[Len(stack) - 1]

Parts  == {"chunk", "literal"}
(* Of the heights a chunk was entered at: base and lvl.                    *)
Frame == {f \in [code : Ref, literal : Ref, base : Nat, argc : Nat, lvl : Nat,
                 dead : SUBSET Parts] : f.argc <= f.base}
Trap  == [catcher : Ref, off : Nat, lvl : Nat, depth : Nat \ {0}]

Here == LastOf(frames)
Live == alloc \cup {Nil}

(* What the collector visits when it processes object o.                   *)
Kids(o) ==
  {slot[o][s] : s \in Slots}
    \cup (IF kind[o] = "code" THEN {vars[env[o]][n] : n \in Names} ELSE {})

(* The collector's roots, in the order gc() walks over them.               *)
VarRoots   == {vars[c][n] : c \in Elems(cstack), n \in Names}
FnRoots    == {fns[n] : n \in FnNames}
StackRoots == Elems(stack)
Roots      == VarRoots \cup FnRoots \cup StackRoots \cup interned

-------------------------------------------------------------------------------
(* Initial state: bootstrap.lisp is loaded, the REPL chunk runs and main    *)
(* has pushed its catch-all trap.  The collector thread is about to take   *)
(* the lock.  main pushes that trap before it drops the value of the turn  *)
(* before: in the first turn, the error that ended bootstrap.lisp.         *)

ReplFrame == [code |-> Nil, literal |-> Nil, base |-> 0, argc |-> 0, lvl |-> 1, dead |-> {}]
ReplTrap  == [catcher |-> Nil, off |-> 1, lvl |-> 1, depth |-> 1]

Init ==
  /\ alloc = {} /\ olist = {}
  /\ kind = [o \in Objects |-> "leaf"]
  /\ slot = [o \in Objects |-> NoRefs]
  /\ env = [o \in Objects |-> Global]
  /\ val = [o \in Objects |-> 0]
  /\ flag = [o \in Objects |-> "black"]
  /\ cache = [n \in Cacheable |-> Nil]
  /\ interned = {}
  /\ vars = [c \in Contexts |-> [n \in Names |-> Nil]]
  /\ fns = [n \in FnNames |-> Nil]
  /\ stack = << >> /\ cstack = <<Global>>
  /\ frames = <<ReplFrame>> /\ traps = <<ReplTrap>>
  /\ vmpc = "run" /\ lock = "vm"
  /\ gq = {} /\ gcpc = "sleep"

-------------------------------------------------------------------------------
(* Allocation.                                                             *)

(* new_object and its siblings: a fresh object is BLACK and on the olist.  *)
Allocate(o, k, refs, c, n) ==
  /\ o \in Objects \ alloc
  /\ alloc' = alloc \cup {o}
  /\ olist' = olist \cup {o}
  /\ flag' = [flag EXCEPT ![o] = "black"]
  /\ kind' = [kind EXCEPT ![o] = k]
  /\ slot' = [slot EXCEPT ![o] = refs]
  /\ env' = [env EXCEPT ![o] = c]
  /\ val' = [val EXCEPT ![o] = n]

(* The main thread executes an instruction of a chunk that has not been    *)
(* freed.  The REPL chunk reads, evaluates and prints, and does nothing    *)
(* else; the forms it evaluates and the functions they call do the rest.   *)
LiteralOf(f) == IF f.code = Nil THEN f.literal ELSE slot[f.code]["car"]
Running == lock = "vm" /\ vmpc = "run" /\ "chunk" \notin Here.dead
UserCode == Running /\ Len(frames) > 1

(* The values below this height belong to the callers, or are kept for an  *)
(* active catch: compiled code never pops them.                            *)
Floor == IF /\ Len(traps) > 1 /\ LastOf(traps).depth = Len(frames)
            /\ LastOf(traps).off > Here.base
           THEN LastOf(traps).off ELSE Here.base
CanPop(n) == Len(stack) - n >= Floor
Push(s, x) == Len(s) < MaxStack /\ stack' = Append(s, x)

NoGcStep == UNCHANGED <<lock, gcvars>>
Stay == UNCHANGED <<control, vmpc>> /\ NoGcStep
KeepHeap == UNCHANGED <<heap, flag, olist>>

-------------------------------------------------------------------------------
(* The instructions and native functions that move references.             *)

(* `push' with an argument: a literal of the running chunk.                *)
PushArg ==
  /\ Running /\ "literal" \notin Here.dead
  /\ Push(stack, LiteralOf(Here))
  /\ KeepHeap /\ UNCHANGED tables /\ Stay

PopValue ==
  /\ Running /\ CanPop(1)
  /\ stack' = Drop(1)
  /\ KeepHeap /\ UNCHANGED tables /\ Stay

(* new_object_long: numbers in (0, CacheSize) are made once and shared.    *)
NewLong(n) ==
  /\ Running
  /\ \/ /\ n \in Cacheable /\ cache[n] # Nil
        /\ Push(stack, cache[n])
        /\ KeepHeap /\ UNCHANGED tables
     \/ /\ n \in Cacheable => cache[n] = Nil
        /\ \E o \in Objects :
             /\ Allocate(o, "num", NoRefs, Global, n)
             /\ Push(stack, o)
             /\ cache' = [m \in Cacheable |-> IF m = n THEN o ELSE cache[m]]
        /\ UNCHANGED <<interned, vars, fns>>
  /\ Stay

(* A string, character or gensym-free leaf; and intern, which looks the    *)
(* symbol up and makes it only when the table does not have it.            *)
NewLeaf ==
  /\ Running
  /\ \E o \in Objects : Allocate(o, "leaf", NoRefs, Global, 0) /\ Push(stack, o)
  /\ UNCHANGED tables /\ Stay

Intern ==
  /\ Running
  /\ \/ /\ \E o \in interned : Push(stack, o)
        /\ KeepHeap /\ UNCHANGED tables
     \/ /\ \E o \in Objects :
             /\ Allocate(o, "leaf", NoRefs, Global, 0)
             /\ interned' = interned \cup {o}
             /\ Push(stack, o)
        /\ UNCHANGED <<cache, vars, fns>>
  /\ Stay

(* vm_cons, and every other maker of pairs.                                *)
Cons ==
  /\ Running /\ CanPop(2)
  /\ \E o \in Objects :
       /\ Allocate(o, "pair", [s \in Slots |-> IF s = "car" THEN Second ELSE Top],
                   Global, 0)
       /\ Push(Drop(2), o)
  /\ UNCHANGED tables /\ Stay

(* vm_car and vm_cdr; vm_setcar and vm_setcdr.                             *)
Get(s) ==
  /\ UserCode /\ CanPop(1)
  /\ Top # Nil /\ kind[Top] = "pair"
  /\ Push(Drop(1), slot[Top][s])
  /\ KeepHeap /\ UNCHANGED tables /\ Stay

Put(s) ==
  /\ UserCode /\ CanPop(2)
  /\ Second # Nil /\ kind[Second] = "pair"
  /\ slot' = [slot EXCEPT ![Second][s] = Top]
  /\ stack' = Drop(1)
  /\ UNCHANGED <<alloc, kind, env, val, flag, olist>>
  /\ UNCHANGED tables /\ Stay

(* bind_var binds in the innermost context, lookup_var searches outwards.  *)
BindVar(n) ==
  /\ UserCode /\ CanPop(1)
  /\ vars' = [vars EXCEPT ![LastOf(cstack)][n] = Top]
  /\ stack' = Drop(1)
  /\ KeepHeap /\ UNCHANGED <<cache, interned, fns>> /\ Stay

Bound(i, n) == vars[cstack[i]][n] # Nil
Resolve(n) ==
  /\ UserCode
  /\ \E i \in DOMAIN cstack :
       /\ Bound(i, n)
       /\ \A j \in DOMAIN cstack : j > i => ~Bound(j, n)
       /\ Push(stack, vars[cstack[i]][n])
  /\ KeepHeap /\ UNCHANGED tables /\ Stay

-------------------------------------------------------------------------------
(* Compilation.  The literals of a chunk are parts of the form it is       *)
(* compiled from, and functions that were bound when it was compiled.      *)

Form(x) == IF x = Nil \/ kind[x] # "pair" THEN {x}
            ELSE {x} \cup {slot[x][s] : s \in Slots}
Code(x) == [NoRefs EXCEPT !["car"] = x]
Literals(x) == Form(x) \cup FnRoots \cup {Nil}

(* A context that nothing can reach: what push_context's malloc returns.   *)
Fresh(c) == /\ c \in Contexts \ Elems(cstack)
            /\ \A o \in alloc : kind[o] = "code" => env[o] # c

(* bind_vars_for_closure: a new context with copies of local variables,    *)
(* which are values on the VM stack.                                       *)
Closure(c) ==
  \E x \in StackRoots \cup {Nil} :
    \E n \in Names : vars' = [vars EXCEPT ![c] = [m \in Names |-> IF m = n THEN x ELSE Nil]]

(* vm_compile_fn / vm_compile_macro: pop the uncompiled function, make a   *)
(* code object that captures the closure context, bind it to the name.     *)
(* A recursive function has itself as a literal.                           *)
DefineFn(n) ==
  /\ UserCode /\ CanPop(1)
  /\ Top # Nil /\ kind[Top] = "pair"
  /\ "redefine" \in Program \/ fns[n] = Nil
  /\ \E o \in Objects, c \in Contexts :
       /\ Fresh(c) /\ Closure(c)
       /\ \E x \in Literals(Top) \cup {o} : Allocate(o, "code", Code(x), c, 0)
       /\ fns' = [fns EXCEPT ![n] = o]
  /\ stack' = Drop(1)
  /\ UNCHANGED <<cache, interned>> /\ Stay

(* vm_compile_lambda: the same without a name; the function is pushed.     *)
Lambda ==
  /\ UserCode /\ CanPop(1)
  /\ Top # Nil /\ kind[Top] = "pair"
  /\ \E o \in Objects, c \in Contexts :
       /\ Fresh(c) /\ Closure(c)
       /\ \E x \in Literals(Top) : Allocate(o, "code", Code(x), c, 0)
       /\ Push(Drop(1), o)
  /\ UNCHANGED <<cache, interned, fns>> /\ Stay

-------------------------------------------------------------------------------
(* Calls, evaluation and return.                                           *)

(* call(): the function is popped, so only a binding (or a variable, or    *)
(* another reference) keeps it alive while its chunk runs.                 *)
Call(argc) ==
  /\ UserCode /\ Len(frames) < MaxFrames /\ CanPop(1 + argc)
  /\ Top # Nil /\ kind[Top] = "code"
  /\ "lambda" \in Program \/ Top \in FnRoots
  /\ frames' = Append(frames, [code |-> Top, literal |-> Nil,
                               base |-> Len(stack) - 1, argc |-> argc,
                               lvl |-> Len(cstack) + 1, dead |-> {}])
  /\ stack' = Drop(1)
  /\ cstack' = Append(cstack, env[Top])
  /\ KeepHeap /\ UNCHANGED <<tables, traps, vmpc>> /\ NoGcStep

(* vm_eval: the form is popped, compiled into a chunk that only the C      *)
(* frame of vm_eval points to, and the chunk is run.                       *)
Permanent == interned \cup {cache[n] : n \in Cacheable} \cup {Nil}
Eval ==
  /\ Running /\ Len(frames) < MaxFrames /\ CanPop(1)
  /\ \E x \in Literals(Top) :
       /\ "literal" \in Program \/ x \in Permanent \cup FnRoots
       /\ frames' = Append(frames, [code |-> Nil, literal |-> x,
                                    base |-> Len(stack) - 1, argc |-> 0,
                                    lvl |-> Len(cstack), dead |-> {}])
  /\ stack' = Drop(1)
  /\ KeepHeap /\ UNCHANGED <<tables, cstack, traps, vmpc>> /\ NoGcStep

(* The `exit' instruction finds the result alone above the arguments.      *)
(* When gcmod++ % 20000 is 0 it releases the mutex and asks for it again;  *)
(* gcmod counts the exits of all chunks, so any exit may be the one.       *)
(* Mutant: the compiler forgets the pop_catch of a catch form.             *)
MutantAtExit == Len(stack) = Here.base + 1
AtExit == /\ Len(stack) = Here.base + 1
          /\ LastOf(traps).depth < Len(frames) \/ Len(frames) = 1

Yield ==
  /\ Running /\ AtExit
  /\ vmpc' = "yield" /\ lock' = "free"
  /\ KeepHeap /\ UNCHANGED <<tables, stack, control, gcvars>>

VmLock ==
  /\ vmpc = "yield" /\ lock = "free"
  /\ vmpc' = "exit" /\ lock' = "vm"
  /\ KeepHeap /\ UNCHANGED <<tables, stack, control, gcvars>>

(* `exit' returns to call() or vm_eval(): the result replaces the          *)
(* arguments and the context pushed by call() goes away; call() reads      *)
(* cc->c for that, and blackens the result.  The outermost chunk returns   *)
(* to main, which pops its trap, pushes it again, drops the result and     *)
(* runs the chunk again.                                                   *)
Return ==
  /\ lock = "vm" /\ vmpc \in {"run", "exit"} /\ "chunk" \notin Here.dead
  /\ AtExit
  /\ \/ /\ Len(frames) = 1
        /\ traps' = [traps EXCEPT ![Len(traps)].off = Len(stack)]
        /\ stack' = << >>
        /\ UNCHANGED <<frames, cstack, flag>>
     \/ /\ Len(frames) > 1
        /\ stack' = Append(Keep(stack, Here.base - Here.argc), Top)
        /\ frames' = Keep(frames, Len(frames) - 1)
        /\ cstack' = IF Here.code = Nil THEN cstack ELSE Keep(cstack, Len(cstack) - 1)
        /\ flag' = IF Here.code = Nil \/ Top = Nil THEN flag
                   ELSE [flag EXCEPT ![Top] = "black"]
        /\ UNCHANGED traps
  /\ vmpc' = "run"
  /\ UNCHANGED <<heap, olist, tables>> /\ NoGcStep

(* The next instruction, the return to call(), or the literal it pushes,   *)
(* is read from freed memory: from here on nothing is defined.             *)
TouchFreed ==
  /\ lock = "vm"
  /\ \/ vmpc \in {"run", "exit"} /\ "chunk" \in Here.dead
     \/ vmpc = "run" /\ Here.dead # {}
  /\ vmpc' = "undefined"
  /\ KeepHeap /\ UNCHANGED <<tables, stack, control>> /\ NoGcStep

-------------------------------------------------------------------------------
(* Errors.                                                                 *)

(* The `catch' instruction pops what to catch and remembers the heights of *)
(* the stacks; `pop_catch' forgets them.                                   *)
Catch ==
  /\ UserCode /\ CanPop(1) /\ Len(traps) <= MaxTraps
  /\ "catch-value" \in Program \/ Top \in interned \cup {Nil}
  /\ traps' = Append(traps, [catcher |-> Top, off |-> Len(stack) - 1,
                             lvl |-> Len(cstack), depth |-> Len(frames)])
  /\ stack' = Append(Drop(1), Nil)
  /\ KeepHeap /\ UNCHANGED <<tables, cstack, frames, vmpc>> /\ NoGcStep

PopCatch ==
  /\ UserCode /\ Len(traps) > 1 /\ LastOf(traps).depth = Len(frames)
  /\ traps' = Keep(traps, Len(traps) - 1)
  /\ KeepHeap /\ UNCHANGED <<tables, stack, cstack, frames, vmpc>> /\ NoGcStep

(* vm_error_impl: the innermost trap that names the error, or catches all, *)
(* wins; the stacks are cut to the heights it remembers and the error is   *)
(* pushed.  main pops the error, prints it, pushes its trap again (at the  *)
(* height it had), pops the value that its trap had kept and starts over.  *)
Signalled(e) == IF e # Nil /\ kind[e] = "pair" THEN slot[e]["car"] ELSE e
Catches(i, e) == traps[i].catcher \in {Signalled(e), Nil}
UnwindTo(i, e) ==
  /\ cstack' = Keep(cstack, traps[i].lvl)
  /\ frames' = Keep(frames, traps[i].depth)
  /\ traps' = IF i = 1 THEN Keep(traps, 1) ELSE Keep(traps, i - 1)
  /\ IF i = 1 THEN stack' = << >> ELSE Push(Keep(stack, traps[i].off), e)
Unwind(e) ==
  \E i \in DOMAIN traps :
    /\ Catches(i, e)
    /\ \A j \in DOMAIN traps : j > i => ~Catches(j, e)
    /\ UnwindTo(i, e)

(* vm_error with a value from the stack, or an error the VM raises itself  *)
(* (an interned symbol).                                                   *)
Error ==
  /\ Running
  /\ \/ CanPop(1) /\ Unwind(Top)
     \/ \E e \in interned : Unwind(e)
  /\ KeepHeap /\ UNCHANGED <<tables, vmpc>> /\ NoGcStep

(* vm_compile_fn and vm_compile_lambda when compilation fails: a name (the *)
(* one in `named', if any) is unbound, whatever it was bound to before,   *)
(* and the error goes on: a symbol, or the NIL that a macro run by the     *)
(* compiler raised.  The code object is garbage at once, so which context  *)
(* it holds makes no difference.                                           *)
CompileFails(named) ==
  /\ UserCode /\ CanPop(1)
  /\ Top # Nil /\ kind[Top] = "pair"
  /\ "redefine" \in Program \/ \A n \in named : fns[n] = Nil
  /\ \E o \in Objects, c \in Elems(cstack) : Allocate(o, "code", NoRefs, c, 0)
  /\ fns' = [n \in FnNames |-> IF n \in named THEN Nil ELSE fns[n]]
  /\ \E e \in interned \cup {Nil} : Unwind(e)
  /\ UNCHANGED <<cache, interned, vars, vmpc>> /\ NoGcStep

-------------------------------------------------------------------------------
(* The collector thread.  Operators named Mutant... are faulty variants of *)
(* the definition that follows them; no action uses them.                  *)

GcStep(from, to) == gcpc = from /\ gcpc' = to
KeepWorld == UNCHANGED <<heap, tables, machine>>

(* Roots are greyed and queued whatever their colour, and as often as they *)
(* are found: an object that is in two places waits twice.                 *)
Queued == {e[1] : e \in gq}
Grey(scan, found) ==
  /\ flag' = [o \in Objects |-> IF o \in Elems(found) THEN "grey" ELSE flag[o]]
  /\ gq' = gq \cup {<<found[p], scan, p>> : p \in {q \in DOMAIN found : found[q] \in Objects}}

(* Mutant: the lock is taken after the flags have been reset.              *)
MutantMutexFree == TRUE
MutexFree == lock = "free"
GcLock ==
  /\ GcStep("sleep", "whiten")
  /\ MutexFree /\ lock' = "gc"
  /\ gq' = {}
  /\ KeepWorld /\ UNCHANGED <<flag, olist>>

(* Mutant: the flags are not reset at the start of a collection.           *)
MutantWhitened == {}
Whitened == olist
Whiten ==
  /\ GcStep("whiten", "vars")
  /\ flag' = [o \in Objects |-> IF o \in Whitened THEN "white" ELSE flag[o]]
  /\ KeepWorld /\ UNCHANGED <<olist, lock, gq>>

ScanVars ==
  /\ GcStep("vars", "fns")
  /\ Grey("vars", [p \in (DOMAIN cstack) \X Names |-> vars[cstack[p[1]]][p[2]]])
  /\ KeepWorld /\ UNCHANGED <<olist, lock>>

(* Mutant: the functions are not roots.                                    *)
MutantScanFns ==
  /\ GcStep("fns", "stack")
  /\ KeepWorld /\ UNCHANGED <<flag, olist, lock, gq>>
ScanFns ==
  /\ GcStep("fns", "stack")
  /\ Grey("fns", fns)
  /\ KeepWorld /\ UNCHANGED <<olist, lock>>

ScanStack ==
  /\ GcStep("stack", "interned")
  /\ Grey("stack", stack)
  /\ KeepWorld /\ UNCHANGED <<olist, lock>>

(* Symbols have no references: an interned one is blackened unscanned.     *)
(* The internals map, walked next, holds interned symbols only.            *)
(* Mutant: the interned symbols are not roots.                             *)
MutantScanInterned ==
  /\ GcStep("interned", "mark")
  /\ KeepWorld /\ UNCHANGED <<flag, olist, lock, gq>>
ScanInterned ==
  /\ GcStep("interned", "mark")
  /\ flag' = [o \in Objects |->
               IF o \in interned /\ flag[o] = "white" THEN "black" ELSE flag[o]]
  /\ KeepWorld /\ UNCHANGED <<olist, lock, gq>>

(* One turn of the marking loop.  What the object refers to is greyed and  *)
(* queued once, while it is white.  The object itself may be black: it was *)
(* queued twice, and this is the second time.                              *)
(* Mutants: the closure context is not followed; the colour is not tested. *)
MutantWhiteKids(o) == {k \in {slot[o][s] : s \in Slots} \cap Objects : flag[k] = "white"}
MutantAllKids(o) == Kids(o) \cap Objects
WhiteKids(o) == {k \in Kids(o) \cap Objects : flag[k] = "white"}
MarkOne(o) ==
  /\ gcpc = "mark"
  /\ flag' = [p \in Objects |-> IF p \in WhiteKids(o) THEN "grey"
                                ELSE IF p = o THEN "black" ELSE flag[p]]
  /\ \E e \in gq : /\ e[1] = o
                   /\ gq' = (gq \ {e}) \cup {<<k, "mark", 0>> : k \in WhiteKids(o)}
  /\ KeepWorld /\ UNCHANGED <<olist, lock, gcpc>>

MarkDone ==
  /\ GcStep("mark", "sweep") /\ gq = {}
  /\ KeepWorld /\ UNCHANGED <<flag, olist, lock, gq>>

(* White objects leave the olist; all but the numbers below the cache size *)
(* are destroyed.  What was in freed memory is forgotten, and `dead'       *)
(* records which parts of the active chunks it was.                        *)
(* Mutants: every white object is destroyed; the bound is off by one; the  *)
(* new list keeps what was destroyed; the mutex is not released.           *)
Unmarked == {o \in olist : flag[o] = "white"}
MutantSpareNone == {}
MutantSpareMore == {o \in Unmarked : kind[o] = "num" /\ val[o] <= CacheSize}
Spared == {o \in Unmarked : kind[o] = "num" /\ val[o] < CacheSize}
Freed == Unmarked \ Spared
MutantKept == olist
Kept == olist \ Unmarked
Clear(f, x) == [o \in Objects |-> IF o \in Freed THEN x ELSE f[o]]
Losses(f) ==
  {p \in Parts : (p = "chunk" /\ f.code \in Freed) \/ (p = "literal" /\ f.literal \in Freed)}
MutantUnlock == UNCHANGED lock
Unlock == lock' = "free"
Sweep ==
  /\ GcStep("sweep", "sleep")
  /\ alloc' = alloc \ Freed
  /\ olist' = Kept
  /\ kind' = Clear(kind, "leaf") /\ slot' = Clear(slot, NoRefs)
  /\ env' = Clear(env, Global) /\ val' = Clear(val, 0)
  /\ flag' = Clear(flag, "black")
  /\ frames' = [i \in DOMAIN frames |->
                  [frames[i] EXCEPT !.dead = @ \cup Losses(frames[i])]]
  /\ Unlock
  /\ UNCHANGED <<tables, stack, cstack, traps, vmpc, gq>>

-------------------------------------------------------------------------------
VmStep ==
  \/ PushArg \/ PopValue \/ NewLeaf \/ Intern \/ Cons
  \/ \E s \in Slots : Get(s) \/ Put(s)
  \/ \E n \in Longs : NewLong(n)
  \/ \E n \in Names : BindVar(n) \/ Resolve(n)
  \/ \E n \in FnNames : DefineFn(n)
  \/ \E named \in {{}} \cup {{n} : n \in FnNames} : CompileFails(named)
  \/ Lambda \/ Eval
  \/ \E a \in 0 .. 1 : Call(a)
  \/ Return \/ Yield \/ VmLock \/ TouchFreed
  \/ Catch \/ PopCatch \/ Error

Collect == \/ Whiten \/ ScanVars \/ ScanFns \/ ScanStack \/ ScanInterned
           \/ \E o \in Objects : MarkOne(o)
           \/ MarkDone \/ Sweep

Next == VmStep \/ GcLock \/ Collect

Spec == Init /\ [][Next]_vars_all

-------------------------------------------------------------------------------
(* Properties.                                                             *)

TypeOK ==
  /\ alloc \subseteq Objects /\ olist \subseteq alloc
  /\ kind \in [Objects -> Kinds] /\ slot \in [Objects -> Refs]
  /\ env \in [Objects -> Contexts] /\ val \in [Objects -> Int]
  /\ flag \in [Objects -> Flags]
  /\ cache \in [Cacheable -> Ref] /\ interned \subseteq Objects
  /\ vars \in [Contexts -> [Names -> Ref]] /\ fns \in [FnNames -> Ref]
  /\ stack \in Seq(Ref) /\ cstack \in Seq(Contexts)
  /\ frames \in Seq(Frame) /\ frames # << >>
  /\ traps \in Seq(Trap) /\ traps # << >>
  /\ vmpc \in {"run", "yield", "exit", "undefined"}
  /\ lock \in {"vm", "gc", "free"}
  /\ Queued \subseteq Objects
  /\ gcpc \in {"sleep", "whiten", "vars", "fns", "stack", "interned", "mark", "sweep"}

(* Mutual exclusion: the collector is between lock and unlock exactly when *)
(* it owns gc_mut, and then the main thread stands inside `exit'.          *)
MutexHeld == /\ (lock = "gc") = (gcpc # "sleep")
             /\ (lock = "vm") = (vmpc # "yield")

(* No reference that the program can reach dangles: what the variables,    *)
(* the functions, the stack and the symbol table refer to is allocated,    *)
(* and so is everything an allocated object refers to.  This is what the   *)
(* collector must not break, for any program.                              *)
Closed == /\ Roots \subseteq Live
          /\ \A o \in alloc : Kids(o) \subseteq Live

(* When marking is over, the objects the sweep will keep are exactly those *)
(* the roots lead to: garbage is freed at the next collection, cycles      *)
(* included, and nothing else is.                                          *)
Reachable == {o \in Objects : \A S \in SUBSET Objects :
  ((Roots \cup UNION {Kids(p) : p \in S}) \ {Nil}) \subseteq S => o \in S}
MarkExact == gcpc = "sweep" => olist \ Unmarked = olist \cap Reachable

(* new_object_long hands out long_cache entries for ever, and nothing in   *)
(* the roots mentions the cache: the sweep must never free one of them.    *)
CacheLive == \A n \in Cacheable :
  cache[n] # Nil => cache[n] \in alloc /\ kind[cache[n]] = "num" /\ val[cache[n]] = n

(* A positive number that the sweep has dropped from the olist without     *)
(* freeing it is the one the cache shares, so it is not lost.              *)
DroppedAreCached == \A o \in alloc \ olist :
  kind[o] = "num" /\ (val[o] > 0 => val[o] \in Cacheable /\ cache[val[o]] = o)

(* Whatever a catch form remembers is still there when an error is thrown  *)
(* to it: the error cuts the stacks and never lengthens them.  main's trap *)
(* remembers a value that main has dropped since; an error brings it back, *)
(* and main drops it again before it does anything else.                   *)
Heights == \A i \in DOMAIN traps :
  /\ i > 1 => traps[i].off <= Len(stack)
  /\ traps[i].lvl <= Len(cstack)
  /\ traps[i].depth <= Len(frames)

(* The main thread keeps the discipline of Stacks: the stacks it cuts on   *)
(* returns and errors are those that calls and catch forms made.  main's   *)
(* own frame and trap are not part of them.                                *)
CallOf(f) == [base |-> f.base, back |-> f.base - f.argc, own |-> f.lvl,
              outer |-> IF f.code = Nil THEN f.lvl ELSE f.lvl - 1]
HandlerOf(t) == [off |-> t.off, scopes |-> t.lvl, depth |-> t.depth - 1]
CallsOf(fs) == [i \in 1 .. Len(fs) - 1 |-> CallOf(fs[i + 1])]
HandlersOf(ts) == [i \in 1 .. Len(ts) - 1 |-> HandlerOf(ts[i + 1])]
Machine == INSTANCE Stacks WITH
  height <- Len(stack), scopes <- Len(cstack),
  calls <- CallsOf(frames), handlers <- HandlersOf(traps)
Disciplined == Machine!Spec

(* The main thread never executes or pushes freed memory.  True of a       *)
(* program whose top-level forms hold no heap literals, that calls only    *)
(* functions bound to a name, and never binds a name twice; false for      *)
(* programs in general (gc.c:145, "We've checked all roots").              *)
NeverUndefined == vmpc # "undefined"

(* threaded_vm.c:39, on what catch forms wait for: "I don't think we need  *)
(* to scan this in GC, since the syms should be interned".                 *)
CatchersLive == \A i \in DOMAIN traps : traps[i].catcher \in Live

-------------------------------------------------------------------------------
(* Progress.  A collection never waits for anything, so the collector      *)
(* thread finishes it.  The main thread asks for the mutex over and over:  *)
(* the collector keeps giving it back and sleeps five seconds before it    *)
(* asks again, so the main thread gets it.  Nothing of the kind holds for  *)
(* the collector: the main thread lets go of the mutex for an instant.     *)
FairSpec == Spec /\ WF_vars_all(Collect) /\ SF_vars_all(VmLock)

(* Marking terminates, on cyclic data too, and the mutex is released.      *)
CollectionEnds == lock = "gc" ~> lock = "free"

(* A main thread that let the collector in gets back to running Lisp.      *)
VmResumes == vmpc = "yield" ~> lock = "vm"

===============================================================================
