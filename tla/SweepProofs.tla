------------------------------ MODULE SweepProofs ------------------------------
(***************************************************************************)
(* What the sweep of gc() frees and what it leaves: exactly the garbage    *)
(* (MarkExact), of the numbers it does not free only those the cache       *)
(* shares (DroppedAreCached), and nothing the main thread is using, if the *)
(* program stays within what the roots cover (NeverUndefined,              *)
(* CatchersLive).  GcProofs shows that it frees nothing reachable.         *)
(***************************************************************************)
EXTENDS GcProofs

-------------------------------------------------------------------------------
(* Numbers.  A number below the cache size is the one that the cache       *)
(* shares, from new_object_long on; the sweep drops no larger ones.        *)
Numbers ==
  /\ \A o \in alloc : kind[o] = "num" =>
       val[o] \in Longs /\ (val[o] \in Cacheable => cache[val[o]] = o)
  /\ \A o \in alloc \ olist : val[o] < CacheSize

(* Who touches the heap: allocation, new_object_long, and the sweep.       *)
LEMMA HeapChanges ==
  ASSUME [Next]_vars_all
  PROVE  \/ UNCHANGED <<alloc, kind, val, cache, olist>>
         \/ /\ \E o \in Objects, k \in {"leaf", "pair", "code"} : \E refs, c :
                 Allocate(o, k, refs, c, 0)
            /\ UNCHANGED cache
         \/ \E n \in Longs : NewLong(n)
         \/ Sweep
<1>. USE DEF tables, heap
<1>1. CASE VmStep
  <2>1. CASE \/ PushArg \/ PopValue \/ Eval \/ Return \/ Yield \/ VmLock \/ TouchFreed
             \/ Catch \/ PopCatch \/ Error \/ (\E a \in 0 .. 1 : Call(a))
             \/ (\E s \in Slots : Get(s) \/ Put(s))
             \/ (\E n \in Names : BindVar(n) \/ Resolve(n))
    BY <2>1 DEF PushArg, PopValue, Eval, Return, Yield, VmLock, TouchFreed, Catch, PopCatch,
                Error, Call, Get, Put, BindVar, Resolve, KeepHeap
  <2>2. CASE NewLeaf \/ Cons \/ Lambda \/ (\E n \in FnNames : DefineFn(n))
             \/ (\E named \in {{}} \cup {{n} : n \in FnNames} : CompileFails(named))
    BY <2>2 DEF NewLeaf, Cons, Lambda, DefineFn, CompileFails
  <2>3. CASE Intern
    BY <2>3 DEF Intern, KeepHeap
  <2>4. CASE \E n \in Longs : NewLong(n)
    BY <2>4
  <2>. QED  BY <1>1, <2>1, <2>2, <2>3, <2>4 DEF VmStep
<1>2. CASE GcLock \/ (Collect /\ ~Sweep) \/ UNCHANGED vars_all
  BY <1>2 DEF GcLock, Collect, Whiten, ScanVars, ScanFns, ScanStack, ScanInterned, MarkOne,
              MarkDone, KeepWorld, vars_all
<1>. QED  BY <1>1, <1>2 DEF Next, Collect

(* Every step keeps the numbers.                                           *)
LEMMA NumbersStep == IInv /\ Numbers /\ [Next]_vars_all => Numbers'
<1>. SUFFICES ASSUME IInv, Numbers, [Next]_vars_all PROVE Numbers'
  OBVIOUS
<1>1. CASE UNCHANGED <<alloc, kind, val, cache, olist>>
  BY <1>1 DEF Numbers
<1>2. CASE /\ \E o \in Objects, k \in {"leaf", "pair", "code"} : \E refs, c :
                Allocate(o, k, refs, c, 0)
           /\ UNCHANGED cache
  <2>1. PICK o \in Objects, k \in {"leaf", "pair", "code"} :
               \E refs, c : Allocate(o, k, refs, c, 0)
    BY <1>2
  <2>. QED  BY <1>2, <2>1 DEF Numbers, Allocate, IInv, HeapTypes
<1>3. CASE \E n \in Longs : NewLong(n)
  <2>1. PICK n \in Longs : NewLong(n)
    BY <1>3
  <2>2. CASE KeepHeap /\ UNCHANGED tables
    BY <2>2 DEF Numbers, KeepHeap, heap, tables
  <2>3. CASE \E o \in Objects :
               /\ n \in Cacheable => cache[n] = Nil
               /\ Allocate(o, "num", NoRefs, Global, n)
               /\ cache' = [m \in Cacheable |-> IF m = n THEN o ELSE cache[m]]
    <3>1. PICK o \in Objects :
               /\ n \in Cacheable => cache[n] = Nil
               /\ Allocate(o, "num", NoRefs, Global, n)
               /\ cache' = [m \in Cacheable |-> IF m = n THEN o ELSE cache[m]]
      BY <2>3
    <3>2. /\ o \notin alloc /\ alloc' = alloc \cup {o} /\ olist' = olist \cup {o}
          /\ kind'[o] = "num" /\ val'[o] = n
          /\ \A p \in alloc : kind'[p] = kind[p] /\ val'[p] = val[p]
      BY <3>1 DEF Allocate, IInv, HeapTypes
    <3>3. Nil \notin alloc
      BY ConstantsAssumption DEF IInv, HeapTypes
    <3>4. ASSUME NEW p \in alloc', kind'[p] = "num"
          PROVE  val'[p] \in Longs /\ (val'[p] \in Cacheable => cache'[val'[p]] = p)
      BY <3>1, <3>2, <3>3, <3>4 DEF Numbers
    <3>5. \A p \in alloc' \ olist' : val'[p] < CacheSize
      BY <3>2 DEF Numbers
    <3>. QED  BY <3>4, <3>5 DEF Numbers
  <2>. QED  BY <2>1, <2>2, <2>3 DEF NewLong
<1>4. CASE Sweep
  <2>1. /\ alloc' = alloc \ Freed /\ olist' = olist \ Unmarked /\ cache' = cache
        /\ \A o \in alloc' : kind'[o] = kind[o] /\ val'[o] = val[o]
    BY <1>4, SweepKeeps DEF Sweep, Kept, tables, IInv, HeapTypes
  <2>2. ASSUME NEW o \in alloc' \ olist' PROVE val'[o] < CacheSize
    <3>1. CASE o \in Unmarked
      BY <2>1, <2>2, <3>1 DEF Freed, Spared
    <3>2. CASE o \notin olist
      BY <2>1, <2>2, <3>2 DEF Numbers
    <3>. QED  BY <2>1, <3>1, <3>2
  <2>. QED  BY <2>1, <2>2 DEF Numbers
<1>. QED  BY <1>1, <1>2, <1>3, <1>4, HeapChanges

(* gc.c:230-232: of the numbers that leave the olist without being freed,  *)
(* each positive one is the one that long_cache shares.  None is lost.     *)
THEOREM DroppedNumbersCached == Spec => []DroppedAreCached
<1>1. Init => Numbers
  BY DEF Init, Numbers
<1>2. IInv /\ Numbers => DroppedAreCached
  BY DEF IInv, Tagged, Numbers, DroppedAreCached, Cacheable
<1>. QED  BY <1>1, <1>2, NumbersStep, Inductive, PTL DEF Spec

-------------------------------------------------------------------------------
(* What the collector marks.  Everything that is dark once the flags are   *)
(* reset, and everything in the queue, is reachable.                       *)
Marking == {"vars", "fns", "stack", "interned", "mark", "sweep"}
Reached ==
  gcpc \in Marking =>
    /\ \A o \in olist : flag[o] # "white" => o \in Reachable
    /\ Queued \subseteq Reachable

(* The roots are reachable.                                                *)
LEMMA RootsReachable == Roots \cap Objects \subseteq Reachable
BY ConstantsAssumption DEF Reachable

(* So is what a reachable object refers to.                                *)
LEMMA KidsReachable ==
  ASSUME NEW o \in Reachable
  PROVE  Kids(o) \cap Objects \subseteq Reachable
<1>1. SUFFICES ASSUME NEW k \in Kids(o) \cap Objects, NEW S \in SUBSET Objects,
                      ((Roots \cup UNION {Kids(p) : p \in S}) \ {Nil}) \subseteq S
               PROVE  k \in S
  BY DEF Reachable
<1>2. o \in S
  BY <1>1 DEF Reachable
<1>3. k # Nil
  BY <1>1, ConstantsAssumption
<1>. QED  BY <1>1, <1>2, <1>3

(* A set that holds the roots and is closed holds all that is reachable.   *)
LEMMA ReachableLeast ==
  ASSUME NEW S \in SUBSET Objects,
         Roots \cap Objects \subseteq S,
         \A o \in S : Kids(o) \cap Objects \subseteq S,
         Roots \subseteq Objects \cup {Nil},
         \A o \in S : Kids(o) \subseteq Objects \cup {Nil}
  PROVE  Reachable \subseteq S
BY DEF Reachable

(* What is reachable does not change while the main thread waits.          *)
LEMMA SameReachable == ASSUME KeepWorld PROVE Reachable' = Reachable
<1>1. Roots' = Roots
  BY SameRoots DEF Roots
<1>2. \A S : UNION {Kids(p) : p \in S}' = UNION {Kids(p) : p \in S}
  BY SameRoots
<1>. QED  BY <1>1, <1>2 DEF Reachable

(* The main thread only moves while the collector sleeps.                  *)
LEMMA VmAlone == IInv /\ VmStep => gcpc = "sleep" /\ UNCHANGED gcvars
<1>. SUFFICES ASSUME IInv, VmStep PROVE gcpc = "sleep" /\ UNCHANGED gcvars
  OBVIOUS
<1>1. lock # "gc" /\ UNCHANGED gcvars
  BY DEF VmStep, PushArg, PopValue, NewLeaf, Intern, Cons, Get, Put, NewLong, BindVar, Resolve,
         DefineFn, CompileFails, Lambda, Eval, Call, Return, Yield, VmLock, TouchFreed,
         Catch, PopCatch, Error, UserCode, Running, Stay, NoGcStep
<1>. QED  BY <1>1 DEF IInv, MutexHeld, GcTypes

(* Greying roots, and what a queued object refers to, marks no garbage.    *)
LEMMA ReachedStep == IInv /\ Reached /\ [Next]_vars_all => Reached'
<1>. SUFFICES ASSUME IInv, Reached, [Next]_vars_all PROVE Reached'
  OBVIOUS
<1>1. CASE VmStep \/ GcLock \/ Sweep
  BY <1>1, VmAlone DEF GcLock, Sweep, GcStep, gcvars, Reached, Marking
<1>2. CASE Whiten
  BY <1>2 DEF Whiten, Whitened, GcStep, IInv, Tricolour, HeapTypes, Reached, Queued
<1>3. CASE ScanVars \/ ScanFns \/ ScanStack
  <2>. DEFINE S == IF gcpc = "vars" THEN VarRoots ELSE IF gcpc = "fns" THEN FnRoots
                   ELSE StackRoots
  <2>1. KeepWorld /\ UNCHANGED olist /\ gcpc \in Marking
    BY <1>3 DEF ScanVars, ScanFns, ScanStack, GcStep, Marking
  <2>2. S \cap Objects \subseteq Reachable
    BY RootsReachable DEF Roots
  <2>3. olist \subseteq Objects /\ flag \in [Objects -> Flags]
    BY DEF IInv, HeapTypes
  <2>4. PICK scan, found : Grey(scan, found) /\ Elems(found) = S
    BY <1>3, Scanned
  <2>. HIDE DEF S
  <2>5. /\ flag' = [o \in Objects |-> IF o \in S THEN "grey" ELSE flag[o]]
        /\ Queued' = Queued \cup (S \cap Objects)
    BY <2>4, GreyQueue DEF Grey
  <2>. QED  BY <2>1, <2>2, <2>3, <2>5, SameReachable DEF Reached
<1>4. CASE ScanInterned
  <2>1. interned \subseteq Reachable
    BY RootsReachable DEF Roots, IInv, TableTypes
  <2>. QED  BY <1>4, <2>1, SameReachable
       DEF ScanInterned, GcStep, Reached, Marking, IInv, HeapTypes, Queued
<1>5. CASE \E o \in Objects : MarkOne(o)
  <2>1. PICK o \in Objects : MarkOne(o)
    BY <1>5
  <2>2. o \in Reachable
    BY <2>1, MarkQueue DEF MarkOne, Reached, Marking
  <2>3. WhiteKids(o) \subseteq Reachable
    BY <2>2, KidsReachable DEF WhiteKids
  <2>4. Queued' \subseteq Queued \cup WhiteKids(o)
    BY <2>1, MarkQueue
  <2>. QED
    BY <2>1, <2>2, <2>3, <2>4, SameReachable DEF MarkOne, Reached, Marking, IInv, HeapTypes
<1>6. CASE MarkDone
  BY <1>6, SameReachable DEF MarkDone, GcStep, Reached, Marking, Queued
<1>7. CASE UNCHANGED vars_all
  <2>1. KeepWorld
    BY <1>7 DEF KeepWorld, vars_all
  <2>. QED  BY <1>7, <2>1, SameReachable DEF Reached, vars_all, gcvars, Queued
<1>. QED  BY <1>1, <1>2, <1>3, <1>4, <1>5, <1>6, <1>7 DEF Next, Collect

(* When marking is over everything reachable is black.                     *)
LEMMA AllMarked ==
  ASSUME IInv, gcpc = "sweep"
  PROVE  Reachable \subseteq {o \in alloc : flag[o] = "black"}
<1>. DEFINE S == {o \in alloc : flag[o] = "black"}
<1>1. Dark \cap Live \subseteq S \cup {Nil}
  BY DEF IInv, Tricolour, Dark, Live, HeapTypes, Flags, Queued
<1>2. Roots \subseteq Dark \cap Live
  BY AllLive DEF IInv, Tricolour, Roots, Live
<1>3. \A o \in S : Kids(o) \subseteq Dark \cap Live
  BY AllLive DEF IInv, Tricolour
<1>4. S \in SUBSET Objects /\ Nil \notin Objects
  BY ConstantsAssumption DEF IInv, HeapTypes
<1>. HIDE DEF S
<1>5. Roots \cap Objects \subseteq S /\ Roots \subseteq Objects \cup {Nil}
  BY <1>1, <1>2, <1>4
<1>6. \A o \in S : Kids(o) \cap Objects \subseteq S /\ Kids(o) \subseteq Objects \cup {Nil}
  BY <1>1, <1>3, <1>4
<1>7. Reachable \subseteq S
  BY <1>4, <1>5, <1>6, ReachableLeast
<1>. QED  BY <1>7 DEF S

(* gc(): each collection keeps what the roots lead to, cycles and all, and *)
(* nothing else: garbage does not survive the collection that follows.     *)
THEOREM ExactMarking == Spec => []MarkExact
<1>1. Init => Reached
  BY DEF Init, Reached, Marking
<1>2. IInv /\ Reached => MarkExact
  BY AllMarked DEF IInv, HeapTypes, Reached, Marking, MarkExact, Unmarked
<1>. QED  BY <1>1, <1>2, ReachedStep, Inductive, PTL DEF Spec

-------------------------------------------------------------------------------
(* What an action takes away from the tables and the stacks: from a        *)
(* program that binds no name twice, nothing at all.                       *)

(* The intern table only ever grows.                                       *)
LEMMA InternedGrows == [Next]_vars_all => interned \subseteq interned'
BY DEF Next, VmStep, PushArg, PopValue, NewLeaf, Intern, Cons, Get, Put, NewLong, BindVar,
       Resolve, DefineFn, CompileFails, Lambda, Eval, Call, Return, Yield, VmLock, TouchFreed,
       Catch, PopCatch, Error, GcLock, Collect, Whiten, ScanVars, ScanFns, ScanStack,
       ScanInterned, MarkOne, MarkDone, Sweep, KeepWorld, tables, vars_all

(* So do long_cache and, without a redefinition, the function table.       *)
LEMMA TablesGrow ==
  ASSUME IInv, [Next]_vars_all, "redefine" \notin Program
  PROVE  /\ \A n \in Cacheable : cache[n] # Nil => cache'[n] = cache[n]
         /\ \A n \in FnNames : fns[n] # Nil => fns'[n] = fns[n]
<1>1. CASE \E n \in Longs : NewLong(n)
  BY <1>1 DEF NewLong, tables, IInv, TableTypes
<1>2. CASE \E n \in FnNames : DefineFn(n)
  BY <1>2 DEF DefineFn, IInv, TableTypes
<1>3. CASE \E named \in {{}} \cup {{n} : n \in FnNames} : CompileFails(named)
  BY <1>3 DEF CompileFails
<1>4. CASE UNCHANGED <<cache, fns>>
  BY <1>4
<1>. QED
  BY <1>1, <1>2, <1>3, <1>4
  DEF Next, VmStep, PushArg, PopValue, NewLeaf, Intern, Cons, Get, Put, BindVar,
       Resolve, Lambda, Eval, Call, Return, Yield, VmLock, TouchFreed,
       Catch, PopCatch, Error, GcLock, Collect, Whiten, ScanVars, ScanFns, ScanStack,
       ScanInterned, MarkOne, MarkDone, Sweep, KeepWorld, tables, vars_all

(* Frames come from call and vm_eval alone, and what is caught from catch. *)
LEMMA ControlChanges ==
  ASSUME IInv, [Next]_vars_all
  PROVE  /\ \/ Elems(frames') \subseteq Elems(frames)
            \/ (\E a \in 0 .. 1 : Call(a)) \/ Eval \/ Sweep
         /\ \/ \A t \in Elems(traps') : \E u \in Elems(traps) : t.catcher = u.catcher
            \/ Catch
<1>. USE DEF control, machine
<1>1. CASE Error
  <2>1. PICK e \in Live : Unwind(e)
    <3>1. CASE CanPop(1) /\ Unwind(Top)
      BY <3>1, PopTypes DEF IInv, StackLive
    <3>2. CASE \E e \in interned : Unwind(e)
      BY <3>2 DEF IInv, TablesLive, Live
    <3>. QED  BY <1>1, <3>1, <3>2 DEF Error
  <2>. QED  BY <2>1, UnwindTypes DEF IInv, StackLive
<1>2. CASE \E named \in {{}} \cup {{n} : n \in FnNames} : CompileFails(named)
  <2>1. PICK e \in Live : Unwind(e)
    BY <1>2 DEF CompileFails, IInv, TablesLive, Live
  <2>. QED  BY <2>1, UnwindTypes DEF IInv, StackLive
<1>3. CASE Return
  <2>1. Elems(Keep(frames, Len(frames) - 1)) \subseteq Elems(frames)
    BY KeepProp, HereTypes DEF IInv, StackTypes
  <2>2. Elems(frames') \subseteq Elems(frames)
    BY <1>3, <2>1 DEF Return
  <2>3. CASE traps' = traps
    BY <2>2, <2>3
  <2>4. CASE traps' = [traps EXCEPT ![Len(traps)].off = Len(stack)]
    <3>1. Len(stack) \in Nat /\ StackTypes
      BY DEF IInv, StackLive
    <3>. QED  BY <2>2, <2>4, <3>1, TrapPushed
  <2>. QED  BY <1>3, <2>3, <2>4 DEF Return
<1>4. CASE PopCatch
  <2>1. Elems(Keep(traps, Len(traps) - 1)) \subseteq Elems(traps)
    BY KeepProp, HereTypes DEF IInv, StackTypes
  <2>. QED  BY <1>4, <2>1 DEF PopCatch
<1>5. CASE UNCHANGED <<frames, traps>>
  BY <1>5
<1>6. CASE (\E a \in 0 .. 1 : Call(a)) \/ Eval \/ Sweep
  BY <1>6 DEF Call, Eval, Sweep
<1>7. CASE Catch
  BY <1>7 DEF Catch
<1>. QED
  BY <1>1, <1>2, <1>3, <1>4, <1>5, <1>6, <1>7
  DEF Next, VmStep, PushArg, PopValue, NewLeaf, Intern, Cons, Get, Put, NewLong, BindVar,
      Resolve, DefineFn, Lambda, Yield, VmLock, TouchFreed, Stay, GcLock, Collect, Whiten,
      ScanVars, ScanFns, ScanStack, ScanInterned, MarkOne, MarkDone, KeepWorld, vars_all

(* What a program catches that catches symbols only.                       *)
CatchesSymbols == \A t \in Elems(traps) : t.catcher \in interned \cup {Nil}

(* threaded_vm.c:39, "I don't think we need to scan this in GC, since the  *)
(* syms should be interned": right for a program that catches symbols.     *)
THEOREM CaughtSymbolsLive ==
  ASSUME "catch-value" \notin Program
  PROVE  Spec => []CatchersLive
<1>1. Init => CatchesSymbols
  BY DEF Init, CatchesSymbols, Elems, ReplTrap
<1>2. IInv /\ CatchesSymbols /\ [Next]_vars_all => CatchesSymbols'
  <2>. SUFFICES ASSUME IInv, CatchesSymbols, [Next]_vars_all PROVE CatchesSymbols'
    OBVIOUS
  <2>1. CASE \A t \in Elems(traps') : \E u \in Elems(traps) : t.catcher = u.catcher
    BY <2>1, InternedGrows DEF CatchesSymbols
  <2>2. CASE Catch
    <3>. DEFINE t == [catcher |-> Top, off |-> Len(stack) - 1,
                      lvl |-> Len(cstack), depth |-> Len(frames)]
    <3>1. t \in Trap /\ t.catcher = Top
      <4>1. Top \in Ref /\ Len(stack) - 1 \in Nat
        BY <2>2, PopTypes, LiveRef DEF Catch, IInv, StackLive
      <4>2. Len(cstack) \in Nat /\ Len(frames) \in Nat \ {0}
        BY HereTypes DEF IInv, StackTypes
      <4>. QED  BY <4>1, <4>2 DEF Trap
    <3>2. Top \in interned \cup {Nil} /\ traps' = Append(traps, t)
      BY <2>2 DEF Catch
    <3>. HIDE DEF t
    <3>3. Elems(traps') = Elems(traps) \cup {t}
      BY <3>1, <3>2, AppendProp DEF IInv, StackTypes
    <3>. QED  BY <3>1, <3>2, <3>3, InternedGrows DEF CatchesSymbols
  <2>. QED  BY <2>1, <2>2, ControlChanges
<1>3. IInv /\ CatchesSymbols => CatchersLive
  BY DEF IInv, TablesLive, CatchesSymbols, CatchersLive, Elems, Live
<1>. QED  BY <1>1, <1>2, <1>3, Inductive, PTL DEF Spec

(* What a C frame holds of a program that the roots cover.                 *)
Held == FnRoots \cup Permanent
FramesKept == /\ vmpc # "undefined"
              /\ \A g \in Elems(frames) : g.dead = {} /\ {g.code, g.literal} \subseteq Held

(* It is never taken away.                                                 *)
LEMMA HeldGrows ==
  ASSUME IInv, [Next]_vars_all, "redefine" \notin Program
  PROVE  Held \subseteq Held'
<1>1. interned \subseteq interned'
  BY InternedGrows
<1>2. {cache[n] : n \in Cacheable} \subseteq {cache'[n] : n \in Cacheable} \cup {Nil}
  BY TablesGrow
<1>3. FnRoots \subseteq FnRoots' \cup {Nil}
  BY TablesGrow DEF FnRoots
<1>. QED  BY <1>1, <1>2, <1>3 DEF Held, Permanent

(* The sweep frees none of it.                                             *)
LEMMA HeldStays == IInv /\ Sweep => Held \cap Freed = {}
<1>. SUFFICES ASSUME IInv, Sweep PROVE Held \cap Freed = {}
  OBVIOUS
<1>1. (FnRoots \cup interned \cup {Nil}) \cap Freed = {}
  BY DarkSurvives DEF IInv, Tricolour, Sweep, GcStep, Dark
<1>2. \A n \in Cacheable : cache[n] \notin Freed
  BY <1>1, SweepTagged DEF CacheLive, Sweep, tables
<1>. QED  BY <1>1, <1>2 DEF Held, Permanent

(* Its frames go on holding such things, also through a collection.        *)
LEMMA FramesKeptStep ==
  ASSUME Program \subseteq {"catch-value"}
  PROVE  IInv /\ FramesKept /\ [Next]_vars_all => FramesKept'
<1>. SUFFICES ASSUME IInv, FramesKept, [Next]_vars_all PROVE FramesKept'
  OBVIOUS
<1>1. Held \subseteq Held'
  BY HeldGrows
<1>2. vmpc' # "undefined"
  <2>1. ~TouchFreed
    <3>1. Here \in Elems(frames)
      BY HereTypes, LastProp DEF IInv, StackTypes, Here
    <3>. QED  BY <3>1 DEF FramesKept, TouchFreed
  <2>. QED
    BY <2>1 DEF FramesKept, Next, VmStep, PushArg, PopValue, NewLeaf, Intern, Cons, Get, Put,
      NewLong, BindVar, Resolve, DefineFn, CompileFails, Lambda, Eval, Call, Return, Yield,
      VmLock, Catch, PopCatch, Error, Stay, GcLock, Collect, Whiten, ScanVars, ScanFns,
      ScanStack, ScanInterned, MarkOne, MarkDone, Sweep, KeepWorld, machine, vars_all
<1>3. CASE Elems(frames') \subseteq Elems(frames)
  BY <1>1, <1>2, <1>3 DEF FramesKept
<1>4. ASSUME NEW f \in Frame, frames' = Append(frames, f), f.dead = {},
             {f.code, f.literal} \subseteq Held
      PROVE  FramesKept'
  <2>1. Elems(frames') = Elems(frames) \cup {f}
    BY <1>4, AppendProp DEF IInv, StackTypes
  <2>. QED  BY <1>1, <1>2, <1>4, <2>1 DEF FramesKept
<1>5. /\ Len(stack) \in Nat /\ Len(cstack) \in Nat
      /\ Held \subseteq Ref /\ Nil \in Held
  BY DEF IInv, StackLive, StackTypes, TableTypes, Held, FnRoots, Permanent, Ref
<1>6. CASE \E a \in 0 .. 1 : Call(a)
  <2>1. PICK a \in 0 .. 1 : Call(a)
    BY <1>6
  <2>. DEFINE f == [code |-> Top, literal |-> Nil, base |-> Len(stack) - 1, argc |-> a,
                    lvl |-> Len(cstack) + 1, dead |-> {}]
  <2>2. frames' = Append(frames, f) /\ Top \in FnRoots
    BY <2>1 DEF Call
  <2>3. Len(stack) - (1 + a) \in Nat
    BY <2>1, PopTypes DEF Call, IInv, StackLive
  <2>4. f \in Frame /\ f.dead = {} /\ f.code = Top /\ f.literal = Nil
    BY <1>5, <2>2, <2>3 DEF Frame, Held
  <2>. HIDE DEF f
  <2>. QED  BY <1>4, <1>5, <2>2, <2>4 DEF Held
<1>7. CASE Eval
  <2>. DEFINE f(x) == [code |-> Nil, literal |-> x, base |-> Len(stack) - 1, argc |-> 0,
                       lvl |-> Len(cstack), dead |-> {}]
  <2>1. PICK x \in Held : frames' = Append(frames, f(x))
    BY <1>7 DEF Eval, Held
  <2>2. Len(stack) - 1 \in Nat
    BY <1>7, PopTypes DEF Eval, IInv, StackLive
  <2>3. f(x) \in Frame /\ f(x).dead = {} /\ f(x).code = Nil /\ f(x).literal = x
    BY <1>5, <2>1, <2>2 DEF Frame
  <2>. HIDE DEF f
  <2>. QED  BY <1>4, <1>5, <2>1, <2>3
<1>8. CASE Sweep
  <2>1. Held \cap Freed = {}
    BY <1>8, HeldStays
  <2>2. ASSUME NEW i \in DOMAIN frames
        PROVE  /\ frames'[i].dead = {} /\ frames'[i].code = frames[i].code
               /\ frames'[i].literal = frames[i].literal
    <3>1. frames[i] \in Frame /\ frames[i] \in Elems(frames)
      BY DEF IInv, StackTypes, Elems
    <3>2. Losses(frames[i]) = {} /\ frames[i].dead = {}
      BY <2>1, <3>1 DEF FramesKept, Losses
    <3>3. frames'[i] = [frames[i] EXCEPT !.dead = @ \cup Losses(frames[i])]
      BY <1>8 DEF Sweep
    <3>. QED  BY <3>1, <3>2, <3>3 DEF Frame
  <2>3. DOMAIN frames' = DOMAIN frames
    BY <1>8 DEF Sweep
  <2>. QED  BY <1>1, <1>2, <2>2, <2>3 DEF FramesKept, Elems
<1>. QED  BY <1>3, <1>6, <1>7, <1>8, ControlChanges

(* gc.c:145, "We've checked all roots": right for a program whose          *)
(* top-level forms hold no heap literals, that calls only functions bound  *)
(* to a name and binds no name twice.  It never touches freed memory.      *)
THEOREM RootsSuffice ==
  ASSUME Program \subseteq {"catch-value"}
  PROVE  Spec => []NeverUndefined
<1>1. Init => FramesKept
  BY DEF Init, FramesKept, Elems, ReplFrame, Held, Permanent
<1>2. FramesKept => NeverUndefined
  BY DEF FramesKept, NeverUndefined
<1>. QED  BY <1>1, <1>2, FramesKeptStep, Inductive, PTL DEF Spec
-------------------------------------------------------------------------------
(* What a collection changes, as the program sees it: nothing.             *)

SameView ==
  /\ UNCHANGED <<tables, stack, cstack, traps, vmpc>>
  /\ Reachable' = Reachable
  /\ \A o \in Reachable :
       /\ o \in alloc /\ o \in alloc'
       /\ kind'[o] = kind[o] /\ slot'[o] = slot[o] /\ env'[o] = env[o] /\ val'[o] = val[o]

(* What can be reached is allocated.                                       *)
LEMMA ReachableAlive == IInv => Reachable \subseteq alloc
<1>. SUFFICES ASSUME IInv PROVE Reachable \subseteq alloc
  OBVIOUS
<1>1. Roots \subseteq Live /\ \A o \in alloc : Kids(o) \subseteq Live
  BY AllLive DEF IInv, Roots, Live
<1>2. alloc \in SUBSET Objects
  BY DEF IInv, HeapTypes
<1>3. Roots \cap Objects \subseteq alloc /\ \A o \in alloc : Kids(o) \cap Objects \subseteq alloc
  BY <1>1, ConstantsAssumption DEF Live
<1>4. Roots \subseteq Objects \cup {Nil} /\ \A o \in alloc : Kids(o) \subseteq Objects \cup {Nil}
  BY <1>1, <1>2 DEF Live
<1>. QED  BY <1>2, <1>3, <1>4, ReachableLeast

(* What the sweep frees cannot be reached.                                 *)
LEMMA SweepSpares == IInv /\ Sweep => Freed \cap Reachable = {}
<1>. SUFFICES ASSUME IInv, Sweep PROVE Freed \cap Reachable = {}
  OBVIOUS
<1>1. Reachable \subseteq {o \in alloc : flag[o] = "black"}
  BY AllMarked DEF Sweep, GcStep
<1>. QED  BY <1>1 DEF Freed, Unmarked

LEMMA SweepView == IInv /\ Sweep => SameView
<1>. SUFFICES ASSUME IInv, Sweep PROVE SameView
  OBVIOUS
<1>1. Freed \cap Reachable = {} /\ Reachable \subseteq alloc /\ Reachable \subseteq Objects
  BY SweepSpares, ReachableAlive DEF Reachable
<1>2. \A o \in Reachable :
        /\ o \in alloc /\ o \in alloc'
        /\ kind'[o] = kind[o] /\ slot'[o] = slot[o] /\ env'[o] = env[o] /\ val'[o] = val[o]
  BY <1>1 DEF Sweep, Clear
<1>3. UNCHANGED <<tables, stack, cstack, traps, vmpc>>
  BY DEF Sweep
<1>4. Roots' = Roots /\ vars' = vars
  BY <1>3 DEF Roots, VarRoots, FnRoots, StackRoots, Elems, tables
<1>5. \A o \in Reachable : Kids(o)' = Kids(o)
  BY <1>2, <1>4 DEF Kids
<1>6. Roots \cap Objects \subseteq Reachable /\ \A o \in Reachable : Kids(o) \cap Objects \subseteq Reachable
  BY RootsReachable, KidsReachable
<1>7. Roots \subseteq Objects \cup {Nil} /\ \A o \in Reachable : Kids(o) \subseteq Objects \cup {Nil}
  <2>1. Roots \subseteq Live /\ Live \subseteq Objects \cup {Nil}
    BY AllLive DEF IInv, Roots, Live
  <2>2. \A o \in alloc : Kids(o) \subseteq Objects \cup {Nil}
    BY AllLive
  <2>. QED  BY <1>1, <2>1, <2>2
<1>8. Reachable' \subseteq Reachable
  <2>1. (Roots \cup UNION {Kids(p)' : p \in Reachable}) \ {Nil} \subseteq Reachable
    BY <1>5, <1>6, <1>7
  <2>. QED  BY <1>1, <1>4, <2>1 DEF Reachable
<1>9. ASSUME NEW o \in Reachable PROVE o \in Reachable'
  <2>. SUFFICES ASSUME NEW S \in SUBSET Objects,
                       ((Roots \cup UNION {Kids(p)' : p \in S}) \ {Nil}) \subseteq S
                PROVE  o \in S
    BY <1>1, <1>4 DEF Reachable
  <2>. DEFINE R == S \cap Reachable
  <2>1. \A p \in R : Kids(p) \cap Objects \subseteq R
    BY <1>5, <1>6, ConstantsAssumption
  <2>2. Roots \cap Objects \subseteq R
    BY <1>6, ConstantsAssumption
  <2>3. Reachable \subseteq R
    BY <1>7, <2>1, <2>2, ReachableLeast
  <2>. QED  BY <2>3
<1>. QED  BY <1>2, <1>3, <1>8, <1>9 DEF SameView

(* A collection is invisible: no step of the collector, wherever it falls, *)
(* changes a table, a stack, or anything that can be reached from them.    *)
THEOREM CollectionInvisible == Spec => [][GcLock \/ Collect => SameView]_vars_all
<1>1. IInv /\ (GcLock \/ Collect) => SameView
  <2>. SUFFICES ASSUME IInv, GcLock \/ Collect PROVE SameView
    OBVIOUS
  <2>1. CASE Sweep
    BY <2>1, SweepView
  <2>2. CASE ~Sweep
    <3>1. KeepWorld
      BY <2>2 DEF GcLock, Collect, Whiten, ScanVars, ScanFns, ScanStack, ScanInterned, MarkOne, MarkDone
    <3>2. Reachable' = Reachable
      BY <3>1, SameReachable
    <3>3. Reachable \subseteq alloc
      BY ReachableAlive
    <3>. QED  BY <3>1, <3>2, <3>3 DEF SameView, KeepWorld, heap, machine, control, tables
  <2>. QED  BY <2>1, <2>2
<1>2. IInv /\ [Next]_vars_all => [GcLock \/ Collect => SameView]_vars_all
  BY <1>1
<1>. QED  BY <1>2, Inductive, PTL DEF Spec

(* Numbers that the cache shares are one object each, as long as they are  *)
(* allocated at all: EQ, which compares addresses, tells them apart.       *)
THEOREM SmallNumbersUnique ==
  Spec => [](\A o, p \in alloc :
               kind[o] = "num" /\ kind[p] = "num" /\ val[o] = val[p] /\ val[o] \in Cacheable => o = p)
<1>1. Init => Numbers
  BY DEF Init, Numbers
<1>2. Numbers => \A o, p \in alloc :
        kind[o] = "num" /\ kind[p] = "num" /\ val[o] = val[p] /\ val[o] \in Cacheable => o = p
  BY DEF Numbers
<1>. QED  BY <1>1, <1>2, NumbersStep, Inductive, PTL DEF Spec

(* What waits in the queue is allocated and has lost its white: the        *)
(* collector greys it before, or when, it queues it.                       *)
Waiting == \A o \in Queued : o \in alloc /\ flag[o] # "white"

LEMMA WaitingStep == IInv /\ Waiting /\ [Next]_vars_all => Waiting'
<1>. SUFFICES ASSUME IInv, Waiting, [Next]_vars_all PROVE Waiting'
  OBVIOUS
<1>1. Queued \subseteq Objects /\ flag \in [Objects -> Flags] /\ alloc \subseteq Objects
  BY DEF IInv, GcTypes, HeapTypes
<1>2. CASE VmStep \/ GcLock \/ Whiten \/ Sweep \/ MarkDone
  <2>1. gq' = {}
    BY <1>2, VmAlone DEF GcLock, Whiten, Sweep, MarkDone, GcStep, gcvars, IInv, Tricolour
  <2>. QED  BY <2>1 DEF Waiting, Queued
<1>3. CASE ScanVars \/ ScanFns \/ ScanStack
  <2>. DEFINE S == IF gcpc = "vars" THEN VarRoots ELSE IF gcpc = "fns" THEN FnRoots
                   ELSE StackRoots
  <2>1. PICK scan, found : Grey(scan, found) /\ Elems(found) = S
    BY <1>3, Scanned
  <2>2. S \subseteq Live
    BY AllLive
  <2>3. UNCHANGED alloc
    BY <1>3 DEF ScanVars, ScanFns, ScanStack, KeepWorld, heap
  <2>. HIDE DEF S
  <2>4. /\ flag' = [o \in Objects |-> IF o \in S THEN "grey" ELSE flag[o]]
        /\ Queued' = Queued \cup (S \cap Objects)
    BY <2>1, GreyQueue DEF Grey
  <2>. QED  BY <1>1, <2>2, <2>3, <2>4, ConstantsAssumption DEF Waiting, Live
<1>4. CASE ScanInterned
  <2>1. Queued' = Queued /\ UNCHANGED alloc
    BY <1>4 DEF ScanInterned, KeepWorld, heap, Queued
  <2>. QED  BY <1>1, <1>4, <2>1 DEF ScanInterned, Waiting
<1>5. CASE \E o \in Objects : MarkOne(o)
  <2>1. PICK o \in Objects : MarkOne(o)
    BY <1>5
  <2>2. Queued' \subseteq Queued \cup WhiteKids(o) /\ o \in Queued
    BY <2>1, MarkQueue
  <2>3. WhiteKids(o) \subseteq alloc
    BY <2>2, AllLive, ConstantsAssumption DEF WhiteKids, Waiting, Live
  <2>4. /\ UNCHANGED alloc
        /\ \A p \in Objects : flag'[p] = IF p \in WhiteKids(o) THEN "grey"
                                          ELSE IF p = o THEN "black" ELSE flag[p]
    BY <2>1 DEF MarkOne, KeepWorld, heap
  <2>. QED  BY <1>1, <2>2, <2>3, <2>4 DEF Waiting
<1>6. CASE UNCHANGED vars_all
  BY <1>6 DEF vars_all, gcvars, heap, Waiting, Queued
<1>. QED  BY <1>2, <1>3, <1>4, <1>5, <1>6 DEF Next, Collect

(* The marking loop ends, whether objects refer to each other in circles   *)
(* or not, and although an object that is in two places is queued twice    *)
(* and met twice: no turn makes a black object anything else, and a turn   *)
(* blackens one that was not, or takes one away from the queue and adds    *)
(* nothing to it.                                                          *)
Progress(o) ==
  /\ \A p \in Objects : flag[p] = "black" => flag'[p] = "black"
  /\ \/ flag[o] # "black" /\ flag'[o] = "black"
     \/ flag' = flag /\ \E e \in gq : gq' = gq \ {e}

THEOREM MarkingProgresses ==
  Spec => [][\A o \in Objects : MarkOne(o) => Progress(o)]_vars_all
<1>1. Init => Waiting
  BY DEF Init, Waiting, Queued
<1>2. ASSUME IInv, Waiting, NEW o \in Objects, MarkOne(o) PROVE Progress(o)
  <2>1. o \in alloc /\ flag[o] # "white" /\ flag \in [Objects -> Flags]
    BY <1>2, MarkQueue DEF Waiting, IInv, HeapTypes
  <2>2. flag' = [p \in Objects |-> IF p \in WhiteKids(o) THEN "grey"
                                   ELSE IF p = o THEN "black" ELSE flag[p]]
    BY <1>2 DEF MarkOne
  <2>3. \A p \in WhiteKids(o) : flag[p] = "white"
    BY DEF WhiteKids
  <2>4. \A p \in Objects : flag[p] = "black" => flag'[p] = "black"
    BY <2>2, <2>3
  <2>5. CASE flag[o] # "black"
    BY <2>1, <2>2, <2>3, <2>4, <2>5 DEF Progress
  <2>6. CASE flag[o] = "black"
    <3>1. Kids(o) \subseteq Dark
      BY <1>2, <2>1, <2>6 DEF IInv, Tricolour, MarkOne
    <3>2. WhiteKids(o) = {}
      BY <3>1, ConstantsAssumption DEF WhiteKids, Dark
    <3>3. flag' = flag
      BY <2>1, <2>2, <2>6, <3>2
    <3>4. \E e \in gq : gq' = gq \ {e}
      BY <1>2, <3>2 DEF MarkOne
    <3>. QED  BY <2>4, <3>3, <3>4 DEF Progress
  <2>. QED  BY <2>5, <2>6
<1>3. IInv /\ Waiting /\ [Next]_vars_all =>
        [\A o \in Objects : MarkOne(o) => Progress(o)]_vars_all
  BY <1>2
<1>. QED  BY <1>1, <1>3, WaitingStep, Inductive, PTL DEF Spec

===============================================================================
