# A verification of lisp_impl in TLA+

lisp_impl is a Lisp in about 4700 lines of C: a reader, a one-pass compiler to
threaded code, a stack machine, `setjmp`/`longjmp` errors, and a mark-and-sweep
collector in a thread of its own. This directory models it part by part,
model-checks it with TLC and proves the main properties of the collector, of the
virtual machine and its four stacks, of the name tables (maps, contexts, intern
table) and of the macro expander with TLAPS.

## 1. The system

| Component | Source | State | Operations |
|---|---|---|---|
| collector | `gc.c` | `olist`, grey queue, object flags, `gc_mut` | one thread: lock, whiten, scan five kinds of roots, mark, sweep, unlock, sleep five seconds |
| objects | `object.c` | the heap, `long_cache`, the intern table | `new_object_*`, `intern`, `destroy_object`, printing |
| contexts | `context.c` | a stack of contexts, each with a map of variables; functions of the first one | bind, lookup, push, re-push, pop, cut to a level, iterate |
| compiler | `compiler.c` | a `compiled_chunk` under construction: code, labels, `stacklevel`, `saved_stacklevel` | one emitter per instruction, one function per special form |
| virtual machine | `threaded_vm.c` | value stack, trap stack, `gcmod` | instructions, `call`, natives, `vm_eval`, function compilation, `vm_error_impl` |
| main loop | `main.c` | the REPL chunk | push a catch-all trap, run the chunk, print errors, start over |
| macro expansion | `threaded_vm.c:585`, `compiler.c:582` | macros in the function table | expand, defmacro, backquote, gensym |
| standard macros | `bootstrap.lisp` | none | do, and, or, progn, unwind-protect ... |
| map | `map.c` | an array of pairs | put, get, delete (last pair into the hole), iterate |
| reader | `lexer.c`, `parser.c` | lookahead character and token | next_token, next_form |
| strings | `lstring.c` | buffer, length, capacity | append, set, trim |
| file I/O | `threaded_vm.c:738`, `io.lisp` | `FILE *` | open, close, read-char, write-char |

How they interact. `main` starts the collector thread and runs the REPL chunk,
which is READ, EVAL, PRINT. EVAL expands macros, compiles the form (reading and
*writing* the context stack: local variables are `STACKOFFSET` objects bound in
the innermost context) and runs the chunk in a nested `___vm` C frame; a call of
a Lisp function is another nested frame. FN and LAMBDA forms compile to code
that copies the locals into a new context and calls COMPILE-FN or
COMPILE-LAMBDA, so the compiler also runs at run time. An error searches the
trap stack and `longjmp`s, cutting value stack, context stack, trap stack and C
stack together. The collector shares the whole heap with the main thread under
one mutex, which the main thread releases only in the `exit` instruction, once
in 20000.

What is hard here:

- *Two threads, and roots that are not all the roots.* A collection happens in
  the middle of any depth of C frames.
- *Nothing checks the stack height.* Locals are addressed by a distance the
  compiler computes; one construct that is off by one makes later accesses read
  other variables.
- *Four stacks, one longjmp.* Every error must cut each to a matching height.
- *Uninitialised and indeterminate values.* `stacklevel` starts as what malloc
  left; `bs_saved` is changed between `setjmp` and `longjmp`.
- *Limits.* 64 traps, 10000 contexts, numbers below 1024 shared for ever.

The hazards, each at its line, are in `PROJECT.json` with the properties that
cover them.

What makes each component correct: the collector frees what is unreachable and
nothing else, and lets the main thread go on; the number cache only hands out
live numbers; the compiler keeps its idea of the stack equal to the stack; the
machine unwinds to a consistent state; the prompt answers every form with its
meaning and survives every error; the map behaves as a function; the reader
loses no token.

## 2. Modules and plan

```
Gc          heap, roots, collector, and the main thread as the collector sees it
GcProofs    theorems about Gc: no reference dangles
SweepProofs EXTENDS GcProofs: what a collection keeps, frees and drops
Stacks      the discipline of the four stacks; Gc and Machine implement it
StacksProofs    EXTENDS Stacks: calls and catch forms nest
DisciplineProofs    EXTENDS GcProofs: Gc implements Stacks
Objects     objects as the compiler and the expander see them
Emitter     EXTENDS Objects: a chunk under construction, the emitters of compiler.c
Compiler    EXTENDS Emitter: the special forms, as operators from forms to code
Levels      EXTENDS Emitter: which code keeps the stacks in step
Machine     EXTENDS Levels: instructions, calls, errors, prompt, for any code
MachineProofs   theorems about Machine: types, stacks, traps, the prompt
PromiseProofs   EXTENDS MachineProofs: Machine implements Stacks, answers every form
Vm          EXTENDS Compiler, Machine: the machine with the compiler's code
Semantics   EXTENDS Compiler: what forms mean, a direct evaluator
Repl        EXTENDS Semantics: the abstract loop; Vm implements it
Expander    EXTENDS Objects: the expander, for any macros
ExpanderProofs  theorems about Expander
Macros      EXTENDS Expander, Semantics: the standard macros and what they are for
Strings     lstring.c: strings that grow
Lexer       EXTENDS Strings: lexer.c, characters to tokens
Parser      EXTENDS Lexer: parser.c, tokens to objects
Printer     EXTENDS Parser: the part of sprint_object that can be read back
Reader      EXTENDS Printer: the loops that read: prompt, load-file, bootstrap, slurp
Map         map.c: two arrays
Context     EXTENDS Map: intern table, contexts, iterators and the collector that uses them
Scopes      what a program may expect of its names; Context implements it
ContextProofs   lemmas about Map, theorems about Context
MCGc, MCVm, MCMacros, MCReader, MCNames   the instances TLC runs
```

Modelled first was the collector with its proofs; then compiler and machine
together with the abstract loop; then reader, name tables with their proofs,
and macro expansion; then Stacks, which both models of the main thread
implement, and the rest of the theorems about Gc; last Levels, Machine and the
theorems about them, for which the compiler, whose operators are recursive, had
to become a constant of the machine; with them, that the machine implements
Stacks. What is left of the plan:

1. `defmacro` and user macros in Vm, so that an expansion runs compiled code.
2. Closures whose captured variables are assigned; the pair natives in Vm.

## 3. Gc: the heap and its collector

State and code: `alloc` is what malloc gave and free did not take back; `kind`,
`slot`, `env`, `val` abstract `struct object` to its references; `flag` is
`gcflag`; `olist`, `gq` are the lists of `gc.c` (an object may wait
in the grey queue `gq` once for each place a root scan or a parent found it in, and be met
again when it is already black); `cache`, `interned`, `vars`,
`fns`, `stack`, `cstack`, `traps` are the tables of the same names; `frames` are the
active C frames of `run_vm` with the chunk and the literal each still uses (and
`lvl`, the level of contexts at its entry, which only the properties read);
`lock`, `vmpc` and `gcpc` are the mutex and the two program counters. Every
phase of `gc()` is an action, and marking is one action per object. The main
thread has one action per way of moving references, of calling, returning,
failing and catching; its choices cover any Lisp program, since values, forms
and names are chosen freely. `Program` restricts four constructs for which the
collector's roots are known not to suffice.

Abstractions: one literal per chunk and at most one captured variable per
closure (the collector treats each alike); lists are sets, which allows
every order (an entry of the queue carries the scan and the place that found the
object, so that duplicates stay apart); freed memory is cleared, and touching it stops the machine in
"undefined". Macro-expansion state holds no roots of its own. The error message
print in `vm_error_impl` changes nothing.

| Run | Properties | Instance |
|---|---|---|
| `gc_code` | TypeOK, MutexHeld, Closed, MarkExact | 2 objects, a closure context, 3 frames; functions bound to no name and redefined ones |
| `gc_errors` | NeverUndefined, CatchersLive, Heights, Disciplined | 3 frames, 1 catch beside the prompt's, errors at any point |
| `gc_progress` | CacheLive, DroppedAreCached, CollectionEnds, VmResumes | 2 objects, the numbers 0, 1, 2 around the limits of a cache of size 2, the global context alone, fairness |
| `gc_lambda` | NeverUndefined is violated | anonymous functions |

main pushes its trap before it pops the value it printed last (`main.c:64` and
77), so from the second turn on the trap remembers one value over an empty
stack, and an error in READ brings that value back before main drops it. `ReplTrap` says
so, and `Heights` speaks of the value stack for the traps of catch forms only.

Two objects are enough for a reference between a root and garbage, one frame
above another, a code object with a closure context, and the cycle of two; that
sharing in larger graphs does no harm either is what the proofs of section 8
are for. The objects are symmetric in the runs without
temporal properties. Deadlock is not checked: with `MaxStack`, `MaxFrames` and
the objects used up the main thread has no step left, and so it must be when it
stopped in "undefined".

Fairness: `WF(Collect)`, because a thread inside `gc()` never waits;
`SF(VmLock)`, because the collector gives the mutex back and sleeps five
seconds, during which the waiting main thread obtains it. Nothing is assumed
about `GcLock`: the main thread unlocks and locks at once, and the code lets the
collector starve.

Findings (`PROJECT.json` quotes the lines): the roots of `gc.c:145` are not all
of them. An anonymous function that is running, a function redefined while it
runs, and the literals of a top-level form that is running are freed by a
collection that falls on a nested exit. The object a trap catches is no root
either, in spite of the comment at `threaded_vm.c:39`: `CatchersLive` holds only
because programs catch symbols, which are interned and bound.

## 4. Compiler, Machine and Vm

`Emitter` has one operator for each emitter, `Compiler` one for each special form. A
compilation is a record (code, labels, level, the scopes on the context stack,
ok), threaded through in the order of the C calls; a signalled error clears
`ok`, and the compilation emits and binds nothing from there on. Every
instruction carries the level it was compiled at, for the properties only.

`Machine` interprets code with the same state as `threaded_vm.c`: a value array
that keeps what was popped, contexts, functions, chunks, ___vm frames (each with
its `bs_saved` and `saved_stackoff`), traps. One action per instruction and
native. Errors are in two steps, signalling and the longjmp, which goes to a
catch, to vm_eval (which throws again) or to main. Where C leaves the outcome
open the model does too: `StartLevels` are the values an uninitialised
`stacklevel` may have, `StartRests` those of the bit `CC_FLAG_HAS_REST` of `flags`, which
`new_compiled_chunk` does not clear either and `fn_bind_params` only sets
(`compiler.c:74` and 359), and after a longjmp `bs_saved` may be the old or the new
value. `vm_programs`, `vm_deep` and `vm_finally` assume that a new chunk has the bit
clear (`StartRests = {FALSE}`), `vm_wild` allows both. Undefined behaviour stops the machine in mode `undefined`, abort in
`aborted`. `=` takes and tests its operands from the last one on and stops at the first that differs
from it (`threaded_vm.c:1169`): `Taken` counts how many it takes, the others stay on the
stack. Numbers do not overflow in the model. In `pop < pop` C leaves the
order of the two calls open; the model pops the left one first, as gcc does and
the comment in `vm_num_gt` expects.

What the compiler makes of a form is a constant of `Machine` (`CompiledForm`,
`CompiledFn`); `Vm` puts the two together, and the cfgs say that the constants
are `CompileForm` and `CompileFn`.

`Levels` says which code the machine can be trusted with. The C code never
compares `stacklevel` with the stack, so this has to be read off the code: a
plan gives every instruction that can be reached one height of the stack, one
number of contexts, the catch form it is in and the height `save_stackoff` saved,
the same on every path, through every jump and every error (`IsPlan`). There is at
most one plan worth trying, which `Plan` finds by following all paths. `Verified`
says that every chunk that is entered has one (`Level`), and that what is called
takes from the stack what the call was compiled to give it (`CalleeFits`). What
`=` takes of three operands depends on their values, so only `=` of one or two
has a plan. `Noticed` says that checking plans is enough: as long as
all code that was entered is `Verified` the stacks are in step (`InStep`), and so
code that takes them out of step has been rejected by then.
`Trusted` adds what is up to the program: not to divide by zero and not to need
more traps than there is room for (`Spared`); not to open a context at the very
limit, since `___vm` counts the contexts only when it enters a chunk and
`push_lex_context` does not (`Shallow`); and not to READ the forms that were typed
for the loop (`OnlyLoopReads`). Last it adds one more duty of the compiler, that what
`compile_fn` completes has an exit (`FnsEnd`). The theorems of section 8 each name
the part they need.

`Semantics` evaluates a form directly in an environment, and `Repl` is the
promised loop: form after form answered in order. `Vm!Implements` says that the
compiler and the machine implement `Repl`.

`Stacks` is the other promise, about heights only: a chunk works above what
belongs to its callers and catch forms, a call starts at the top and a return
puts one value where the arguments were, an error cuts value stack, contexts,
chunks and catch forms together. Its actions are `Work`, `Call`, `Return`,
`Catch`, `PopCatch`, `Throw` (to a catch form), `Reset` (to main) and `Abandon`
(out of a vm_eval that throws again). Gc implements it for any program that its
actions allow, Machine for any code that is `Verified`. The mapping does not show
main's own frame and trap nor the traps of vm_eval: a call is read off each
frame above main's (`CallOf`), and the handlers are the traps of catch forms,
numbered by counting them from below (`CountTo`). The field `lvl` of a frame is
there for it alone.

| Run | Properties | Programs |
|---|---|---|
| `vm_programs` | TypeOK, SlotsAligned, TrapsNested, NeverBreaks, Trusted, Disciplined, Implements | every leaf in one or two special forms, at the prompt; in one, in a function and in a closure; recursion, &rest, redefinition, expansions of standard macros; every operation on numbers of both signs (a negative one computed, as it cannot be typed) with up to three operands, `=` with one or two; global variables used, set and bound anew in functions, loops, handlers and lambdas |
| `vm_deep` | CleanPrompt, FnsRunnable, DepthBounded, Ends | forms that do not compile, at the prompt, inside functions, under catch; endless recursion, direct, through let, through tagbody, caught or not; loops |
| `vm_wild` | Noticed | programs the compiler or the machine gets wrong, one or two for each limit listed below: with `=` of three operands, and calls of functions whose chunk may have the stale bit, too |
| `vm_finally` | FinallyRuns is violated | unwind-protect around a body with a catch of its own |

Bounds: two special forms nested are enough for any one of them to stand in any
position of another, and each has an observation behind the hole that shows what
the inner one left on the stacks. `MaxLevel` is 10000 in the code, 4 to 20 here;
`TrapSize` 64, 8 here; both tests are of a height against the limit. Deadlock is
checked in all four: only a halted machine may stop.

Fairness: the interpreter is one thread, and in these runs input is always
there, so it goes on taking steps until it halts. `FairSpec` says so directly,
as `[]<>halted \/ []<><<Next>>_vmvars`, which is weak fairness of `Step` without
asking TLC to evaluate ENABLED of a whole compilation.

### Limits of the compiler

Met while modelling, kept out of the grammar of `vm_programs`, present in
`vm_wild` or `vm_finally`:

- `vm_fn` and `vm_lambda` leave `stacklevel` off by one, so a local variable used after
  a lambda in the same chunk is read from the wrong slot;
- a second catch of the same chunk overwrites `bs_saved`, so the first may resume at the wrong place;
- a second tagbody overwrites `saved_stackoff`;
- a closure copies variables that are on the stack, not those already in a context,
  and its own context stack is that of its caller: two lambdas down a variable is lost;
- a go out of a catch leaves the trap, and a go into a tagbody pops a context nobody pushed;
- a go to an unknown label restarts the chunk;
- a go out of a let leaves the let's variables on the stack until the tagbody ends,
  so a variable used after the label is read from the wrong slot;
- a call with &rest pops the wrong number of arguments unless exactly one is extra;
- a let at the prompt leaves its stack offsets bound in the global context;
- `set` of a name that is no local binds it in the innermost context: inside a
  function or a tagbody the global keeps its value, and the new one goes with the context;
- a global of the name of an earlier let of the prompt is read from that let's stale stack offset;
- `=` of three or more operands leaves on the stack those behind the first that differs, so
  `(let ((x 3)) (+ x 1) (print (= 2 2 3)) x)` answers 2, and `(= 1 2 3)` leaves
  values at the prompt;
- a function without &rest whose chunk has the stale bit `CC_FLAG_HAS_REST` is called as if it had one;
- `>` with other than two arguments goes on and pops two; `(-)` and `(=)` pop an operand
  that is not there; a division by zero ends the program;
- `vm_eval` does not free the chunk of a form that fails (the call is commented out).

The sessions of `vm_wild` and those with globals and divisions were also typed
into a build of the program; its answers are among those of the model.

## 5. Macros

`threaded_vm.c:585` expands a form before it is compiled, recursively in C and on
the machine's own value stack. `Expander` turns each call of `vm_macroexpand_rec`
into a frame; the walk over a list, the pushing of unevaluated arguments, the
run of the macro's code and the return are actions. The macros are its constants:
their parameters, and what their code leaves (`Expansion`). `Macros` has the
standard ones, whose `StandardExpansion` fills the templates of `bootstrap.lisp`
and `io.lisp` as `vm_backtick`, `vm_append` and `vm_splice` do; the cfg gives them
to `Expander`. `Balanced` and `FullyExpanded` are about any macros. The property that
matters for these, `Meaning`, compares two things that share no definition: the expansion,
evaluated by `Semantics`, and `Means`, which says directly what progn, cond,
or, and, not and unwind-protect are for. A macro that calls itself for ever
(AGAIN) and one that evaluates its arguments in the other order (SWAP) stand for
the macros of a program.

| Run | Properties | Forms |
|---|---|---|
| `macros` | TypeOK, Balanced, FullyExpanded, Meaning, Ends | every macro with arguments that have a value, an effect or an error; calls in calls; calls with the wrong number of arguments |

`MaxRec` is 4096 in the code, 40 here: no proper form of the run nests so deep,
and AGAIN reaches it. Fairness is `WF(Step)`: one thread expands and waits for
nothing.

Abstractions and limits. Whether a macro takes a rest is read off its parameter list:
the bit of its chunk is assumed clean, as in `vm_programs`. A form is a symbol, a number or a proper list. A
macro call is a list that starts with the name of a macro, and the head of a list
is expanded after the test: were the head itself a call of a macro that
leaves the name of one, as `((namer) x)` after `(defmacro namer () 'or)`, the list would
become a call that nothing expands. No standard macro leaves a bare name. The
expander changes the list it walks over in place, where the model makes a new
one: no form here shares a pair with another. Two oddities of the macros are
kept out of `Meaning`: `and` tells by its value whether there is a third
argument, so `(and 1 2 nil)` is 2 and `(and 1)` is NIL; and unwind-protect binds
the error to `E`, so a handler that uses a variable of that name sees the error.

## 6. Reader

`Lexer` and `Parser` are functions on a stream: what of the file was read, the
lookahead character of the lexer, the lookahead token of the parser, and a fate
("ok", an error, "abort", "hang"). Characters are read one by one, because what
is hard here is who has read how much: the prompt keeps one parser for ever,
while `vm_read` of a file makes a parser per form and throws away with it
whatever it had read ahead. `Reader` has the four loops of the code that read;
the sessions are inputs with the forms they were written for.

| Run | Properties | Inputs |
|---|---|---|
| `reader_forms` | TypeOK, ReadsBack, LastIsRead, BootErrorsSeen, TextFits, Ends | all pairs of printed or typed forms with each separator, in each loop; input that ends after the last form; strings read by slurp; garbage of up to five characters and then a form |
| `reader_match` | NoBadMatch is violated | any three characters |

`ReadsBack` states that printing and reading are inverse and that no form is lost
or read twice. The buffer of a string starts with 2 characters here and 8 in the
code, so that strings of three characters grow it. Fairness (`FairSpec`) is
weak fairness of `Step`, written as in Vm: a file is always ready.

Left out of the inputs of `reader_forms`, because the code does not read them back
or stops, and nothing in the repository says otherwise: a semicolon in a string
(eaten to the end of the line, `lexer.c:63`), numbers with a leading zero (octal),
an `@` without a comma (an error that keeps its token and so repeats), input cut
off within a token (an endless loop). The model computes all of these.

## 7. Names

`Map` is `map.c`: two arrays, a count and a space; the hole of a deleted pair is
filled with the last one. `Context` has the maps of `context.c` and the intern
table, the chain of contexts with its array, the compiler's scratch contexts
that it frees, and the iterators with which the collector walks over all of it.
One action is one function of `context.c` or `object.c`; in the main thread they
are interleaved in any order, also with the collector, which has the mutex.
`Scopes` says what a program may expect: functions from names to values.
`Implements` is `Scopes!Spec` under the mapping that reads each map as a
function from texts.

| Run | Properties | Instance |
|---|---|---|
| `names` | TypeOK, NamesOnce, ChainValid, ScanComplete, Implements | 3 addresses, two with the same text; the global context and one more; maps and chain with room for one |

Room for one makes every second put and push grow its array. `Implements` matters
because contexts compare symbols by address: that one text is one variable is a
property of intern and of every put and delete together. `ScanComplete` needs one
fact about the start: `vm_init` binds NIL before the collector exists, as
`iterate_vars` returns NULL for a chain without variables and `gc.c:88` follows it.

The intern table's keys are pointers to strings, and `gc.c:116` tests a flag in
the lowest byte of what it takes for an object; malloc's alignment makes it
harmless. Not modelled of `map.c`: `map_reverse`, `map_dump` and destruction.
Context bindings are not freed by `PopToLevel`: contexts a longjmp leaves behind
stay allocated.

## 8. Proofs

`GcProofs` proves, for every set of objects, contexts, names, numbers, every
program and all bounds, from `ConstantsAssumption` alone:

| Theorem | Statement |
|---|---|
| TypeCorrect | `Spec => []TypeOK` |
| MutualExclusion | `Spec => []MutexHeld` |
| NoDanglingReference | `Spec => []Closed` |
| CachedNumbersLive | `Spec => []CacheLive` |
| Inductive | `Spec => []IInv` |

The argument. `Closed` is not inductive: the sweep preserves it only if the
white objects are unreachable. `IInv` adds the tricolour invariant (`Tricolour`):
a black object refers to no white one, every grey object is queued, and each
kind of root is grey or black once its phase is over. When marking is done the
queue is empty, so no live object refers to a white one. Two things special to
this code complete it (`Tagged`): the sweep drops numbers from the olist without
freeing them, so only numbers may be allocated off the olist; and interned
symbols are blackened without a scan, so they must have no references. `FramesLive`
records what the C frames may still touch. Each action has a lemma; those of the
main thread rest on `VmTricolour`: while it holds the mutex no collection is
under way. `CacheLive` needs that white numbers below the cache size are spared.

`SweepProofs` builds on `Inductive`, all from the same assumption alone but the two that name
a condition on `Program`:

| Theorem | Statement |
|---|---|
| ExactMarking | `Spec => []MarkExact` |
| DroppedNumbersCached | `Spec => []DroppedAreCached` |
| RootsSuffice | `Program \subseteq {"catch-value"}` gives `Spec => []NeverUndefined` |
| CaughtSymbolsLive | `"catch-value" \notin Program` gives `Spec => []CatchersLive` |
| CollectionInvisible | `Spec => [][GcLock \/ Collect => SameView]_vars_all` |
| SmallNumbersUnique | two allocated numbers below the cache size with one value are one object |
| MarkingProgresses | `Spec => [][\A o \in Objects : MarkOne(o) => Progress(o)]_vars_all`: a turn blackens an object or only removes an entry of the queue, and what is black stays black |

The arguments. `Reached`: from the reset of the flags to the sweep every object
that is not white, and every queued one, is reachable; with an empty queue the
black objects are closed under references and contain the roots (`AllMarked`),
so the two sets are equal. `Numbers`: every number below the cache size is the
one the cache has, as long as it is allocated. `FramesKept`: what the C frames
of such a program hold is a function that is bound, an interned symbol or a
cached number (`Held`), which the program never takes away (`HeldGrows`) and the
sweep never frees (`HeldStays`). `CollectionInvisible`: what the sweep frees is
disjoint from what is reachable (`SweepSpares`), and reachability depends on
reachable objects only, so the program's whole view (`SameView`) is what it was.
`MarkingProgresses` is what the ending of a collection, checked by
`gc_progress`, rests on: a turn that meets a black object again has no white child
to enqueue and leaves one entry less. It needs that what waits in the queue is allocated
and not white (`Waiting`), and for the rest the tricolour invariant. `gc_lambda` shows that the assumption about
functions without a name cannot be dropped.

`StacksProofs` and `DisciplineProofs`, for stacks of any height:

| Theorem | Statement |
|---|---|
| AlwaysNested (StacksProofs) | `Spec => [](TypeOK /\ Nested)`, of Stacks |
| Discipline | `Spec => Disciplined`, of Gc |
| HeightsKept | `Spec => []Heights`, of Gc |

The argument. That heights only ever get cut (`Heights`) is not inductive: a
return would cut the stack below what a catch form of an inner chunk remembers,
so that there is none has to be known. `Nested` says so: calls nest, catch
forms nest, and each catch form lies between its own chunk and the next. It is
proved once, of Stacks, whose steps are few; then each action of Gc is shown to
be a step or a stutter of Stacks (`Discipline`), with one more fact about Gc,
that the levels in frames and traps count contexts and main's trap remembers one
value (`Levels`), and `Heights` follows. main's trap is not among the handlers of
Stacks; the value it remembers is the exception that `Heights` makes.

`ContextProofs`, from `MapAssumption` and `ContextAssumption` alone, for maps,
chains and contexts of any number and size:

| Theorem | Statement |
|---|---|
| TypeCorrect | `Spec => []TypeOK` |
| Once | `Spec => []NamesOnce` |
| ChainIsValid | `Spec => []ChainValid` |
| ScansAreComplete | `Spec => []ScanComplete` |
| Refinement | `Spec => Implements` |

The argument. There is a lemma for each operation of `map.c`: it keeps
the arrays and the count consistent (`IsMap`), keeps every key unique, and
changes what one key holds. A key that occurs once makes the slot the C loop
finds the only one (`TheSlot`), and so makes the move of the last pair into the
hole sound. The inductive invariant `Inv` of Context says: the maps are good
(`MapsGood`), their keys are interned, so that two symbols with one text are one
address (`NamesInterned`); the global context is never empty (`GlobalBound`);
every context in the chain is live, one that `free_context` will free occurs
there once, and the room suffices (`ChainGood`); what a scan has seen is all
that lies above its level and before its slot (`ScanGood`). That an iterator
descends to the next level that is not empty is `FromFinds`, which rests on the
existence of least and greatest elements (`Least`, `Greatest`), got from the
well-foundedness of the naturals. `Refinement` maps each action to a step or a
stutter of `Scopes`; that a binding is found by text needs `InternedOnce`.

`ExpanderProofs`, from `ExpanderAssumption`, for any macros, any limit of the
recursion and any forms:

| Theorem | Statement |
|---|---|
| ExpanderTypeOK | `Forms(F)` gives `Spec => []TypeOK` |
| ExpanderBalanced | `Forms(F)` gives `Spec => []Balanced` |
| ExpanderFullyExpanded | `Forms(F)` and `NamesNone(F)` give `Spec => []FullyExpanded` |

`Forms(F)` says that F is a set of forms closed under taking lists apart, making
lists of its members and running macros, with what is typed and what lies below
in it; the standard macros satisfy it with F the proper forms. `NamesNone(F)` is
the hypothesis of section 5 that no macro leaves the bare name of one.

The argument. `Balanced` alone is not inductive: where a call returns to, its
caller must be walking over a list whose element it was. `InPlace` says so for
every frame: each but the last has one slot, its form is a list, and the walk
is at one of its elements, or the frame is the one that pushes arguments. What
is outside the form under work is left alone by every action, which is proved
once (`Outer`). For `FullyExpanded`, a form is `Clean` when no part of it, at
any depth, is a macro call; a frame that walks has clean elements before the
one it is at (`Expanded`), so the list is clean at its end, its head being
either no macro's name before the walk or, since no macro leaves a name, none
after it. The parts at depth n are a recursive function; `PartsAre` derives the
equation it satisfies from the existence of least numbers.

`MachineProofs`, from the assumptions on the constants of Emitter and Machine
alone, for any sessions, any `CompiledForm` and `CompiledFn`, and all bounds:

| Theorem | Statement |
|---|---|
| MachineTypeOK | `Spec /\ []Verified => []TypeOK` |
| MachineSlotsAligned | `Spec /\ []Verified => []SlotsAligned` |
| MachineTrapsNested | `Spec /\ []Verified => []TrapsNested` |
| MachineCleanPrompt | `Spec /\ []Verified => []CleanPrompt` |
| MachineNoticed | `Spec => Noticed` |
| MachineNeverBreaks | `Spec /\ []Verified /\ []Spared => []NeverBreaks` |
| MachineInvariant | `Spec /\ []Verified => [](Inv /\ Marks)` |

`Verified` is about code, one chunk and one instruction at a time; what follows
from it is about stacks of any depth. It is not an assumption about the
machine: it mentions no height, no trap and no frame below the running one. TLC
checks it, with `Spared`, of everything the compiler emits in `vm_programs`
(`Trusted`), and that some of the programs of `vm_wild` break it is why they
misbehave. The theorems apply to a session whose code passes, whatever it does:
recursion, handlers, errors in handlers, evaluations in evaluations.

The argument. An active C frame is abstracted to a few numbers (`Pictures`):
where its values start, where its result will go, what an active catch form of
its keeps, its level of contexts. `Good` says that such pictures stand one above
the other and that every trap is main's, that of a vm_eval or that of a frame's
catch form, in this order, with the heights its picture has. `Frames` ties the
pictures to the C frames through their plans: a frame that waits for a call is
where its plan has the height of the arguments of the frame above. `Inv` has three shapes: a
frame runs where its plan says (`Running`); an error is under way or the program
has stopped, and only what the pictures keep is still there (`Stopped`), with
one trap more if vm_eval had pushed it but not entered its chunk (`Pending`); or
the prompt is clean. Each instruction has a lemma that it moves the
top frame along its plan; a longjmp cuts the pictures to those below the trap
(`CutTraps`, `LeaveCatch`, `RaiseToEvalKeeps`, `RaiseToMainKeeps`). What the plan does not
know is the value that the `go_if_not_nil` behind a catch finds: nil on the
first way, the error after the longjmp, and one C variable, `bs_saved`, for the
two: `Branching` says that the value on top and the view agree. `Marks`
completes the invariant: the slots up to the height a trap will restore have
been written, so that what a longjmp brings back on the stack, though it may
have been popped meanwhile, is a value. `NothingBreaks` shows of each case of undefined behaviour and abort that
`Inv` and `Spared` exclude it.

`PromiseProofs`, from the same assumptions and the invariant of `MachineProofs`:

| Theorem | Statement |
|---|---|
| MachineDisciplined | `Spec /\ []Verified => Disciplined` |
| MachineNoneSilent | `Spec /\ []Verified /\ []OnlyLoopReads => []NoneSilent` |
| MachineDepthBounded | `Spec /\ []Shallow => []DepthBounded` |
| MachineFnsRunnable | `Spec /\ []FnsEnd => []FnsRunnable` |

The hypotheses are the parts of `Trusted` that the machine cannot enforce by
itself. None of them says anything about the stacks as a whole, and without
each the code does break the promise: a form that is `(read)` eats the one after
it; a closure entered at the limit of contexts that opens one and calls another in
it goes beyond what is tested.

The arguments. `MachineDisciplined` maps a step of the machine to one of Stacks:
the instructions that stay within a chunk are `Work`; `call` of compiled code and
the start of a vm_eval are `Call`; `exit`, wherever its result goes, is
`Return`; `catch` and `pop_catch` are themselves; raise() is `Throw`, `Abandon` or
`Reset`, by the owner of the last trap, or `Work` where vm_eval had pushed its trap
but never entered its chunk (`Pending`). Stacks allows a step only above its `Floor`, what
callers and catch forms still need; `FloorView` derives it from the pictures
that `Inv` keeps of the frames. That the catch traps, picked out among others, are a
sequence that grows and shrinks at its end is counting (`HandlerFacts`,
`HandlerPrefix`, `AddHandler`, `DropHandler`). It needs one more invariant, `Held`:
the chunk of main is READ EVAL PRINT for ever, and while its frame is alone
there is one context (`MainScope`, `LoopPlan`), for main's frame is not a call
that Stacks knows, and what it leaves must be no one's. `MachineNoneSilent` counts what the
loop owes (`Owed`): each form that was read and not answered is the one value
on main's stack, or being evaluated above it, or an error on its way to
main, which prints it (`Turn`). `MachineDepthBounded` has an invariant for the
entry of a chunk (`Bounded`): the one context more than the limit is that of a chunk about
to be refused. `MachineFnsRunnable`: chunks are only added, so what a name
refers to stays what it was when it was compiled (`NamedGrows`), and an error while
compiling takes the name back (`CompileNames`).

Only model-checked: the liveness properties (`CollectionEnds`, `VmResumes`, `Ends`),
since TLAPS reasons neither about fairness nor about ENABLED; and what depends
on a recursive operator, which the prover does not support in any module it
proves about, nor induction over forms, which it would need: `Meaning` of
Macros, every property of Reader with its Lexer, Parser and Printer, `Implements` of
Vm, which compares with the evaluator of Semantics, and `Trusted`, that
is, that what the compiler emits is `Verified` and ends with its exit and that the
programs do what is asked of them. `vm_programs` checks `Trusted` of everything that
the compiler makes of its programs, and so the hypotheses of the theorems about
Machine hold there. Every other safety property that a run checks of Gc,
Context, Expander and Machine is proved.

## 9. Not modelled

- `defmacro`, and so an expansion that runs compiled code and the macro that
  `vm_compile_macro` leaves half bound when its body fails to compile; `for`;
  `dolist`, `collecting`, `for-each` and `with-open-file` among the standard macros.
- `STR-NTH`, `STR-SETNTH`: they read and overwrite one
  character in place. `OPEN`, `CLOSE` and `WRITE-CHAR` are thin calls of stdio.
- `EQ`, `LENGTH`, `STR-COPY` and `STR-LEN` among the natives: they pop their
  arguments and push a value, as those modelled do. (`STR-LEN` is one less than
  the length and `WRITE-CHAR` asks for one argument and pops two; neither moves
  anything the properties are about.)
- Syntax errors inside special forms (a let whose bindings are no list) signal
  the error the modelled failures signal.
- The texts of error messages, and printing what cannot be read back.
- The 20000 of `gcmod` is abstracted to any exit.
- The sample programs and the build are not part of the system.
