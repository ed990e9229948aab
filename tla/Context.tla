---------------------------------- MODULE Context ---------------------------------
(***************************************************************************)
(* Names: the intern table of object.c, the contexts of context.c, and the *)
(* collector that walks over both (the root scan of gc.c).                 *)
(*                                                                         *)
(* A symbol object is named by the address of its string.  intern makes    *)
(* one symbol for each text; contexts compare symbols by address.  The     *)
(* main thread changes maps while it owns gc_mut, and so does not find the *)
(* collector in the middle of a scan.  The compiler makes a context for    *)
(* the parameters of each function it compiles and frees it; the machine   *)
(* makes the others, and a function may keep one and enter it at each call. *)
(***************************************************************************)
EXTENDS Map, FiniteSets, Sequences

CONSTANTS
  Values,     (* the objects that can be bound to a variable               *)
  Functions,  (* and to a function name                                    *)
  Contexts,   (* the addresses malloc may return for a struct context      *)
  Global,     (* cstack[0]                                                 *)
  InitialRoom,(* CSTACK_INITIAL_SIZE                                       *)
  MaxLevel    (* bound: contexts in the chain                              *)

ASSUME ContextAssumption ==
  /\ Global \in Contexts
  /\ Null \notin Values \cup Functions
  /\ InitialRoom \in Nat \ {0}
  /\ MaxLevel \in Nat

VARIABLES
  symbols,    (* the intern table                                          *)
  vars,       (* the variable map of every context                         *)
  funcs,      (* cstack[0]->funcs                                          *)
  chain,      (* cstack[0 .. cstackoff]                                    *)
  room,       (* cstacksize                                                *)
  live,       (* the contexts that were made and not freed                 *)
  scratch,    (* those of them that fn_call pushes                         *)
  asked,      (* the name the last step was about, and what it found       *)
  lock,       (* who owns gc_mut                                           *)
  it,         (* the iterator in use                                       *)
  seen        (* what it has returned                                      *)

maps   == <<symbols, vars, funcs>>
stacks == <<chain, room, live, scratch>>
scan   == <<it, seen>>
cvars  == <<maps, stacks, asked, lock, scan>>

Level == Len(chain)
Top == chain[Level]
Interned == KeysOf(symbols)
Texts == {Text[s] : s \in Keys}
Nothing == << >>

(* The collector's iterator: over what, at which level and slot; and       *)
(* whether there is nothing left (C's NULL).                               *)
Iterator(what, level, off) == [what |-> what, level |-> level, off |-> off, done |-> FALSE]
NoneLeft(what) == [what |-> what, level |-> 0, off |-> 0, done |-> TRUE]
NoIterator == NoneLeft("nothing")

(* vm_init: NIL, T and *STANDARD-INPUT* are bound to something before the  *)
(* collector exists; one stands for all.                                   *)
Init ==
  /\ \E s \in Keys, v \in Values, f \in Functions :
       /\ symbols = MapPut(MapCreate("str"), s, s)
       /\ vars = [c \in Contexts |-> IF c = Global THEN MapPut(MapCreate("ptr"), s, v)
                                     ELSE MapCreate("ptr")]
       /\ funcs = MapPut(MapCreate("ptr"), s, f)
  /\ chain = <<Global>> /\ room = InitialRoom
  /\ live = {Global} /\ scratch = {}
  /\ asked = Nothing /\ lock = "vm" /\ it = NoIterator /\ seen = {}

-------------------------------------------------------------------------------
(* The main thread.                                                        *)

Working == lock = "vm"

(* intern(string at s): a string whose text is in the table is freed.      *)
Intern(s) ==
  /\ Working /\ s \notin Interned
  /\ symbols' = IF MapGet(symbols, s) = Null THEN MapPut(symbols, s, s) ELSE symbols
  /\ asked' = Nothing /\ UNCHANGED <<vars, funcs, stacks, lock, scan>>

BindVar(s, v) ==
  /\ Working /\ s \in Interned
  /\ vars' = [vars EXCEPT ![Top] = MapPut(@, s, v)]
  /\ asked' = <<Text[s], v>> /\ UNCHANGED <<symbols, funcs, stacks, lock, scan>>

(* lookup_var_off goes down to level 0.                                    *)
Finds(i, s) == MapGet(vars[chain[i]], s) # Null
LookupVar(s) ==
  /\ Working /\ s \in Interned
  /\ \/ \E i \in DOMAIN chain :
          /\ Finds(i, s) /\ \A j \in DOMAIN chain : j > i => ~Finds(j, s)
          /\ asked' = <<Text[s], MapGet(vars[chain[i]], s)>>
     \/ (\A i \in DOMAIN chain : ~Finds(i, s)) /\ asked' = <<Text[s], Null>>
  /\ UNCHANGED <<maps, stacks, lock, scan>>

BindFn(s, v) ==
  /\ Working /\ s \in Interned
  /\ funcs' = MapPut(funcs, s, v)
  /\ asked' = <<Text[s], v>> /\ UNCHANGED <<symbols, vars, stacks, lock, scan>>
LookupFn(s) ==
  /\ Working /\ s \in Interned
  /\ asked' = <<Text[s], MapGet(funcs, s)>>
  /\ UNCHANGED <<maps, stacks, lock, scan>>
(* A definition that fails is unbound.                                     *)
UnbindFn(s) ==
  /\ Working /\ s \in Interned
  /\ funcs' = MapDelete(funcs, s)
  /\ asked' = <<Text[s], Null>> /\ UNCHANGED <<symbols, vars, stacks, lock, scan>>

(* push_existing_context, which push_context calls too.                    *)
MutantPushOn(c) ==        (* full is one too late *)
  /\ Level < MaxLevel
  /\ chain' = Append(chain, c)
  /\ room' = IF Level > room THEN 2 * room ELSE room
PushOn(c) ==
  /\ Level < MaxLevel
  /\ chain' = Append(chain, c)
  /\ room' = IF Level = room THEN 2 * room ELSE room

(* push_context: by push_lex_context, or by fn_call for the parameters.    *)
PushContext(c, inFn) ==
  /\ Working /\ c \notin live
  /\ PushOn(c)
  /\ vars' = [vars EXCEPT ![c] = MapCreate("ptr")]
  /\ live' = live \cup {c}
  /\ scratch' = IF inFn THEN scratch \cup {c} ELSE scratch
  /\ asked' = Nothing /\ UNCHANGED <<symbols, funcs, lock, scan>>

(* A call enters the context its function was defined in: one that a       *)
(* machine instruction made.                                               *)
PushExisting(c) ==
  /\ Working /\ c \in live \ scratch
  /\ PushOn(c)
  /\ asked' = Nothing /\ UNCHANGED <<maps, live, scratch, lock, scan>>

(* pop_context; once fn_call has compiled the body, free_context as well.  *)
PopContext ==
  /\ Working /\ Level > 1
  /\ chain' = SubSeq(chain, 1, Level - 1)
  /\ live' = live \ (scratch \cap {Top}) /\ scratch' = scratch \ {Top}
  /\ asked' = Nothing /\ UNCHANGED <<maps, room, lock, scan>>

(* pop_context_to_level, on an error: nothing is freed.                    *)
PopToLevel(n) ==
  /\ Working
  /\ chain' = SubSeq(chain, 1, n)
  /\ asked' = Nothing /\ UNCHANGED <<maps, room, live, scratch, lock, scan>>

-------------------------------------------------------------------------------
(* Iteration.                                                              *)

(* iterate_vars from a level on, and what follows the last of its pairs:   *)
(* empty maps are skipped, down to level 0.  bind_vars_for_closure uses it *)
(* too, on the main thread, where nothing happens meanwhile.               *)
Nonempty(level) == {i \in 1 .. level : vars[chain[i]].count # 0}
From(level) ==
  IF Nonempty(level) = {} THEN NoneLeft("vars")
  ELSE Iterator("vars", CHOOSE i \in Nonempty(level) : \A j \in Nonempty(level) : j <= i, 0)

(* iterate_fns and iterate_map.                                            *)
Over(what, m) == IF m.count = 0 THEN NoneLeft(what) ELSE Iterator(what, 0, 0)

(* Take what is there and move on.  An iterator that has run past the last *)
(* slot would go on for ever.                                              *)
Scan(what, m, next) ==
  /\ it.what = what /\ ~it.done
  /\ it.off \in DOMAIN m.keys /\ seen' = seen \cup {PairAt(m, it.off)}
  /\ it' = IF AtLast(m, it.off) THEN next ELSE Iterator(what, it.level, it.off + 1)
  /\ asked' = Nothing /\ UNCHANGED <<maps, stacks, lock>>
ScanVars == Scan("vars", vars[chain[it.level]], From(it.level - 1))
ScanFns == Scan("fns", funcs, NoneLeft("fns"))
ScanSymbols == Scan("symbols", symbols, NoneLeft("symbols"))

Begin(iterator) == it' = iterator /\ seen' = {} /\ asked' = Nothing /\ UNCHANGED <<maps, stacks>>

(* The collector takes the mutex and scans.                                *)
MutantGcLock == lock = "free" /\ it = NoIterator /\ Begin(From(Level)) /\ UNCHANGED lock
GcLock == lock = "free" /\ Begin(From(Level)) /\ lock' = "gc"
GcFns == it = NoneLeft("vars") /\ Begin(Over("fns", funcs)) /\ UNCHANGED lock
GcSymbols == it = NoneLeft("fns") /\ Begin(Over("symbols", symbols)) /\ UNCHANGED lock
GcUnlock == it = NoneLeft("symbols") /\ Begin(NoIterator) /\ lock' = "free"

(* The exit instruction.                                                   *)
VmUnlock == Working /\ lock' = "free" /\ asked' = Nothing /\ UNCHANGED <<maps, stacks, scan>>
VmLock == lock = "free" /\ lock' = "vm" /\ asked' = Nothing /\ UNCHANGED <<maps, stacks, scan>>

Machine ==
  \/ \E s \in Keys : Intern(s) \/ LookupVar(s) \/ LookupFn(s) \/ UnbindFn(s)
  \/ \E s \in Keys, v \in Values : BindVar(s, v)
  \/ \E s \in Keys, f \in Functions : BindFn(s, f)
  \/ \E c \in Contexts : PushExisting(c) \/ \E inFn \in BOOLEAN : PushContext(c, inFn)
  \/ PopContext \/ \E n \in 1 .. Level - 1 : PopToLevel(n)
  \/ VmUnlock \/ VmLock
Iteration ==
  \/ ScanVars \/ ScanFns \/ ScanSymbols
  \/ GcLock \/ GcFns \/ GcSymbols \/ GcUnlock
Next == Machine \/ Iteration
Spec == Init /\ [][Next]_cvars

-------------------------------------------------------------------------------
(* Properties.                                                             *)

Bound(what) ==
  CASE what = "vars"    -> UNION {Pairs(vars[chain[i]]) : i \in DOMAIN chain}
    [] what = "fns"     -> Pairs(funcs)
    [] what = "symbols" -> Pairs(symbols)

(* Type invariant: no map is written outside its arrays.                   *)
TypeOK ==
  /\ IsMap(symbols, Keys) /\ symbols.equal = "str"
  /\ \A c \in Contexts : IsMap(vars[c], Values) /\ vars[c].equal = "ptr"
  /\ IsMap(funcs, Functions) /\ funcs.equal = "ptr"
  /\ vars = [c \in Contexts |-> vars[c]] /\ chain \in Seq(Contexts) /\ room \in Nat
  /\ live \subseteq Contexts /\ scratch \subseteq live
  /\ asked \in {Nothing} \cup (Texts \X (Values \cup Functions \cup {Null})) /\ lock \in {"vm", "gc", "free"}
  /\ it \in [what : {"nothing", "vars", "fns", "symbols"},
             level : Nat, off : Nat, done : BOOLEAN]

(* No name has two entries in a map, whatever was bound and unbound before: *)
(* a value that was replaced or deleted does not come back.                *)
NamesOnce ==
  /\ OnlyOnce(symbols) /\ OnlyOnce(funcs)
  /\ \A c \in Contexts : OnlyOnce(vars[c])

(* The chain never holds a context that the compiler has freed after a     *)
(* function (free_context), nor more than its array has room for.          *)
ChainValid ==
  /\ chain # << >> /\ chain[1] = Global
  /\ \A i \in DOMAIN chain : chain[i] \in live
  /\ Level <= room

(* A scan that has come to its end has returned every binding there is,    *)
(* of the whole chain, and no other; and the collector's is never without  *)
(* any variable (gc.c:88 destroys an iterator that it takes to be there).  *)
ScanComplete ==
  it.done /\ it.what # "nothing" =>
    /\ seen = Bound(it.what)
    /\ it.what = "vars" => seen # {}

(* Names as the program sees them: bound and looked up by text, although   *)
(* the contexts compare addresses, and however the maps move their pairs.  *)
Named(m, t) == {i \in Slots(m) : Text[m.keys[i]] = t}
ValueOf(m, t) == IF Named(m, t) = {} THEN Null ELSE m.vals[CHOOSE i \in Named(m, t) : TRUE]
ScopesOf == INSTANCE Scopes WITH
  vars <- [c \in Contexts |-> [t \in Texts |-> ValueOf(vars[c], t)]],
  fns <- [t \in Texts |-> ValueOf(funcs, t)],
  None <- Null
Implements == ScopesOf!Spec
===============================================================================
