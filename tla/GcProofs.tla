------------------------------- MODULE GcProofs -------------------------------
(***************************************************************************)
(* Proofs about the heap and its collector, for every value of the         *)
(* constants: the type invariant and the safety of the collection, that    *)
(* no reference reachable from the roots ever dangles (Closed), that the   *)
(* shared numbers are never freed (CacheLive), and the mutual exclusion    *)
(* of the two threads (MutexHeld).                                         *)
(***************************************************************************)
EXTENDS Gc, TLAPS, SequenceTheorems

-------------------------------------------------------------------------------
(* Sequences used as stacks.                                               *)

(* Append: the last element is the new one, the others stay.               *)
LEMMA AppendProp ==
  ASSUME NEW S, NEW s \in Seq(S), NEW x \in S
  PROVE  /\ Append(s, x) \in Seq(S)
         /\ Append(s, x) # << >>
         /\ Len(Append(s, x)) = Len(s) + 1
         /\ Elems(Append(s, x)) = Elems(s) \cup {x}
<1>1. /\ Append(s, x) \in Seq(S)
      /\ Append(s, x) # << >>
      /\ Len(Append(s, x)) = Len(s) + 1
      /\ \A i \in 1 .. Len(s) : Append(s, x)[i] = s[i]
      /\ Append(s, x)[Len(s) + 1] = x
  OBVIOUS
<1>2. DOMAIN s = 1 .. Len(s) /\ DOMAIN Append(s, x) = 1 .. (Len(s) + 1) /\ Len(s) \in Nat
  BY <1>1
<1>3. Elems(Append(s, x)) \subseteq Elems(s) \cup {x}
  BY <1>1, <1>2 DEF Elems
<1>4. Elems(s) \cup {x} \subseteq Elems(Append(s, x))
  BY <1>1, <1>2 DEF Elems
<1>. QED  BY <1>1, <1>3, <1>4

(* Keep(s, n) is a prefix of s: fewer elements, each one of s.             *)
LEMMA KeepProp ==
  ASSUME NEW S, NEW s \in Seq(S), NEW n \in Nat
  PROVE  /\ Keep(s, n) \in Seq(S)
         /\ Elems(Keep(s, n)) \subseteq Elems(s)
         /\ n > 0 /\ s # << >> => Keep(s, n) # << >>
         /\ Len(Keep(s, n)) <= n
<1>. DEFINE m == IF n < Len(s) THEN n ELSE Len(s)
<1>1. m \in Nat /\ m <= Len(s) /\ Len(s) \in Nat /\ m <= n
  OBVIOUS
<1>2. \A i \in 1 .. m : s[i] \in S
  BY <1>1
<1>3. /\ SubSeq(s, 1, m) \in Seq(S)
      /\ Len(SubSeq(s, 1, m)) = m
      /\ \A i \in 1 .. m : SubSeq(s, 1, m)[i] = s[i]
  <2>. HIDE DEF m
  <2>. QED  BY <1>1, <1>2
<1>4. Elems(SubSeq(s, 1, m)) \subseteq Elems(s)
  <2>. HIDE DEF m
  <2>. QED  BY <1>1, <1>3 DEF Elems
<1>5. n > 0 /\ s # << >> => m > 0
  BY EmptySeq
<1>6. m > 0 => SubSeq(s, 1, m) # << >>
  <2>. HIDE DEF m
  <2>. QED  BY <1>3, <1>1
<1>. QED  BY <1>1, <1>3, <1>4, <1>5, <1>6 DEF Keep

(* The last element of a non-empty sequence is in its range.               *)
LEMMA LastProp ==
  ASSUME NEW S, NEW s \in Seq(S), Len(s) > 0
  PROVE  LastOf(s) \in S /\ LastOf(s) \in Elems(s)
BY DEF LastOf, Elems

(* The elements of a sequence over S are in S.                             *)
LEMMA ElemsProp ==
  ASSUME NEW S, NEW s \in Seq(S)
  PROVE  Elems(s) \subseteq S
BY DEF Elems

-------------------------------------------------------------------------------
(* Type correctness.                                                       *)

HeapTypes ==
  /\ alloc \subseteq Objects /\ olist \subseteq alloc
  /\ kind \in [Objects -> Kinds] /\ slot \in [Objects -> Refs]
  /\ env \in [Objects -> Contexts] /\ val \in [Objects -> Int]
  /\ flag \in [Objects -> Flags]

TableTypes ==
  /\ cache \in [Cacheable -> Ref] /\ interned \subseteq Objects
  /\ vars \in [Contexts -> [Names -> Ref]] /\ fns \in [FnNames -> Ref]

StackTypes ==
  /\ cstack \in Seq(Contexts)
  /\ frames \in Seq(Frame) /\ frames # << >>
  /\ traps \in Seq(Trap) /\ traps # << >>

GcTypes ==
  /\ vmpc \in {"run", "yield", "exit", "undefined"}
  /\ lock \in {"vm", "gc", "free"}
  /\ Queued \subseteq Objects
  /\ gcpc \in {"sleep", "whiten", "vars", "fns", "stack", "interned", "mark", "sweep"}

(* The type invariant is the conjunction of its typed parts, primed too.   *)
LEMMA TypeParts ==
  /\ TypeOK <=> HeapTypes /\ TableTypes /\ stack \in Seq(Ref) /\ StackTypes /\ GcTypes
  /\ TypeOK' <=> HeapTypes' /\ TableTypes' /\ (stack \in Seq(Ref))' /\ StackTypes' /\ GcTypes'
BY DEF TypeOK, HeapTypes, TableTypes, StackTypes, GcTypes

(* new_object keeps the heap well typed.                                   *)
LEMMA AllocateTypes ==
  ASSUME HeapTypes,
         NEW o \in Objects, NEW k \in Kinds, NEW refs \in Refs, NEW c \in Contexts,
         NEW n \in Int, Allocate(o, k, refs, c, n)
  PROVE  HeapTypes'
BY DEF HeapTypes, Allocate, Flags

(* What an instruction may assume of the chunk that runs.                  *)
LEMMA HereTypes ==
  ASSUME StackTypes
  PROVE  /\ Len(frames) \in Nat \ {0} /\ Len(traps) \in Nat \ {0}
         /\ Here \in Frame /\ LastOf(traps) \in Trap
         /\ Floor \in Nat
<1>1. Len(frames) \in Nat \ {0} /\ Len(traps) \in Nat \ {0}
  BY EmptySeq DEF StackTypes
<1>2. Here \in Frame /\ LastOf(traps) \in Trap
  BY <1>1, LastProp DEF StackTypes, Here
<1>3. Here.base \in Nat /\ LastOf(traps).off \in Nat
  BY <1>2 DEF Frame, Trap
<1>. QED  BY <1>1, <1>2, <1>3 DEF Floor

(* The values an instruction finds when CanPop allows it to pop.           *)
LEMMA PopTypes ==
  ASSUME StackTypes, NEW S, stack \in Seq(S), NEW n \in Nat, CanPop(n)
  PROVE  /\ Len(stack) - n \in Nat
         /\ Drop(n) \in Seq(S) /\ Elems(Drop(n)) \subseteq Elems(stack)
         /\ n > 0 => Top \in S /\ Top \in Elems(stack)
         /\ n > 1 => Second \in S /\ Second \in Elems(stack)
<1>1. Len(stack) \in Nat /\ Floor \in Nat
  BY HereTypes
<1>2. Len(stack) - n \in Nat
  BY <1>1 DEF CanPop
<1>3. Drop(n) \in Seq(S) /\ Elems(Drop(n)) \subseteq Elems(stack)
  BY <1>2, KeepProp DEF Drop
<1>4. n > 0 => Top \in S /\ Top \in Elems(stack)
  BY <1>1, <1>2, LastProp DEF Top
<1>5. n > 1 => Second \in S /\ Second \in Elems(stack)
  BY <1>1, <1>2 DEF Second, Elems
<1>. QED  BY <1>2, <1>3, <1>4, <1>5

(* __push of a reference keeps the value stack a sequence of references.   *)
LEMMA PushTypes ==
  ASSUME NEW S, NEW s \in Seq(S), NEW x \in S, Push(s, x)
  PROVE  /\ stack' \in Seq(S)
         /\ Elems(stack') = Elems(s) \cup {x}
BY AppendProp DEF Push

(* main's trap, pushed again, has another height and is otherwise the same. *)
LEMMA TrapPushed ==
  ASSUME StackTypes, NEW n \in Nat, traps' = [traps EXCEPT ![Len(traps)].off = n]
  PROVE  /\ traps' \in Seq(Trap) /\ traps' # << >>
         /\ \A t \in Elems(traps') : \E u \in Elems(traps) : t.catcher = u.catcher
<1>1. traps \in Seq(Trap) /\ Len(traps) \in Nat \ {0}
  BY HereTypes DEF StackTypes
<1>2. ASSUME NEW t \in Trap
      PROVE  [t EXCEPT !.off = n] \in Trap /\ [t EXCEPT !.off = n].catcher = t.catcher
  BY DEF Trap
<1>3. /\ DOMAIN traps' = 1 .. Len(traps)
      /\ \A i \in 1 .. Len(traps) :
           traps'[i] = IF i = Len(traps) THEN [traps[i] EXCEPT !.off = n] ELSE traps[i]
  BY <1>1
<1>4. \A i \in 1 .. Len(traps) : traps'[i] \in Trap /\ traps'[i].catcher = traps[i].catcher
  BY <1>1, <1>2, <1>3
<1>5. traps' \in Seq(Trap)
  BY <1>1, <1>3, <1>4, SeqDef
<1>6. traps' # << >>
  BY <1>1, <1>3
<1>7. ASSUME NEW t \in Elems(traps') PROVE \E u \in Elems(traps) : t.catcher = u.catcher
  <2>1. PICK i \in 1 .. Len(traps) : t = traps'[i]
    BY <1>3 DEF Elems
  <2>2. traps[i] \in Elems(traps) /\ t.catcher = traps[i].catcher
    BY <1>1, <1>4, <2>1 DEF Elems
  <2>. QED  BY <2>2
<1>. QED  BY <1>5, <1>6, <1>7

(* An error leaves well-formed stacks and pushes itself.                   *)
LEMMA UnwindTypes ==
  ASSUME StackTypes, NEW S, stack \in Seq(S), NEW e \in S, Unwind(e)
  PROVE  /\ StackTypes'
         /\ stack' \in Seq(S)
         /\ Elems(stack') \subseteq Elems(stack) \cup {e}
         /\ Elems(cstack') \subseteq Elems(cstack)
         /\ Elems(frames') \subseteq Elems(frames)
         /\ Elems(traps') \subseteq Elems(traps)
<1>1. PICK i \in DOMAIN traps : UnwindTo(i, e)
  BY DEF Unwind
<1>2. i \in Nat \ {0} /\ traps[i] \in Trap
  BY DEF StackTypes
<1>3. traps[i].lvl \in Nat /\ traps[i].depth \in Nat \ {0} /\ traps[i].off \in Nat
  BY <1>2 DEF Trap
<1>4. /\ cstack' \in Seq(Contexts) /\ Elems(cstack') \subseteq Elems(cstack)
      /\ frames' \in Seq(Frame) /\ frames' # << >> /\ Elems(frames') \subseteq Elems(frames)
  BY <1>1, <1>3, KeepProp DEF UnwindTo, StackTypes
<1>5. traps' \in Seq(Trap) /\ traps' # << >> /\ Elems(traps') \subseteq Elems(traps)
  <2>1. i = 1 => traps' = Keep(traps, 1)
    BY <1>1 DEF UnwindTo
  <2>2. i # 1 => traps' = Keep(traps, i - 1) /\ i - 1 \in Nat \ {0}
    BY <1>1, <1>2 DEF UnwindTo
  <2>. QED  BY <2>1, <2>2, KeepProp DEF StackTypes
<1>6. stack' \in Seq(S) /\ Elems(stack') \subseteq Elems(stack) \cup {e}
  <2>1. CASE i = 1
    BY <1>1, <2>1 DEF UnwindTo, Elems
  <2>2. CASE i # 1
    BY <1>1, <2>2, <1>3, KeepProp, PushTypes DEF UnwindTo
  <2>. QED  BY <2>1, <2>2
<1>. QED  BY <1>4, <1>5, <1>6 DEF StackTypes

-------------------------------------------------------------------------------
(* The inductive invariant.  Closed says what must hold; to be preserved   *)
(* by the sweep it needs to know that marking is complete (Tricolour), and *)
(* that numbers and leaves refer to nothing (Tagged), for the collector    *)
(* blackens symbols unseen and drops numbers without freeing them.         *)

Tagged ==
  /\ \A o \in Objects : kind[o] \in {"leaf", "num"} => slot[o] = NoRefs
  /\ \A o \in alloc \ olist : kind[o] = "num"
  /\ \A o \in interned : kind[o] = "leaf"

FramesLive == \A g \in Elems(frames) :
  /\ "chunk" \notin g.dead => g.code \in Live
  /\ "literal" \notin g.dead => g.literal \in Live

StackLive == stack \in Seq(Live)

TablesLive ==
  /\ fns \in [FnNames -> Live] /\ interned \subseteq alloc
  /\ \A c \in Elems(cstack) : vars[c] \in [Names -> Live]

HeapLive == \A o \in alloc :
  /\ slot[o] \in [Slots -> Live]
  /\ kind[o] = "code" => vars[env[o]] \in [Names -> Live]

Dark == {o \in Objects : flag[o] # "white"} \cup {Nil}

Tricolour ==
  /\ gcpc \in {"fns", "stack", "interned", "mark", "sweep"} => VarRoots \subseteq Dark
  /\ gcpc \in {"stack", "interned", "mark", "sweep"} => FnRoots \subseteq Dark
  /\ gcpc \in {"interned", "mark", "sweep"} => StackRoots \subseteq Dark
  /\ gcpc \in {"mark", "sweep"} => interned \subseteq Dark
  /\ gcpc \in {"vars", "fns", "stack", "interned", "mark", "sweep"} =>
       \A o \in alloc : flag[o] = "black" => Kids(o) \subseteq Dark
  /\ \A o \in Objects : flag[o] = "grey" => o \in Queued
  /\ gcpc \in {"sleep", "whiten", "vars", "sweep"} => gq = {}

IInv ==
  /\ HeapTypes /\ TableTypes /\ StackTypes /\ GcTypes
  /\ MutexHeld /\ Tagged /\ CacheLive
  /\ FramesLive /\ StackLive /\ TablesLive /\ HeapLive
  /\ Tricolour

(* What is live is a reference; what is allocated is live.                 *)
LEMMA LiveRef ==
  ASSUME HeapTypes
  PROVE  Live \subseteq Ref /\ Seq(Live) \subseteq Seq(Ref)
<1>1. Live \subseteq Ref
  BY DEF HeapTypes, Live, Ref
<1>. QED  BY <1>1, SeqMonotonic

(* The inductive invariant is strong enough for the four properties.       *)
LEMMA IInvImplies == IInv => TypeOK /\ MutexHeld /\ Closed /\ CacheLive
<1>. SUFFICES ASSUME IInv PROVE TypeOK /\ Closed
  BY DEF IInv
<1>1. TypeOK
  BY TypeParts, LiveRef DEF IInv, StackLive
<1>2. Roots \subseteq Live
  <2>1. Elems(stack) \subseteq Live
    BY ElemsProp DEF IInv, StackLive
  <2>2. Elems(cstack) \subseteq Contexts
    BY ElemsProp DEF IInv, StackTypes
  <2>. QED  BY <2>1, <2>2 DEF IInv, TablesLive, Roots, VarRoots, FnRoots, StackRoots, Live
<1>3. \A o \in alloc : Kids(o) \subseteq Live
  BY DEF IInv, HeapLive, Kids
<1>. QED  BY <1>1, <1>2, <1>3 DEF Closed

(* After bootstrap, before the first collection, the invariant holds.      *)
LEMMA InitIInv == Init => IInv
<1>. SUFFICES ASSUME Init PROVE IInv
  OBVIOUS
<1>. USE ConstantsAssumption DEF Init
<1>1. HeapTypes
  BY DEF HeapTypes, Kinds, Flags, Refs, NoRefs, Ref
<1>2. TableTypes
  BY DEF TableTypes, Ref
<1>3. ReplFrame \in Frame /\ ReplTrap \in Trap
  BY DEF ReplFrame, ReplTrap, Frame, Trap, Ref
<1>4. StackTypes
  BY <1>3 DEF StackTypes
<1>5. GcTypes /\ MutexHeld /\ Tagged /\ CacheLive /\ StackLive /\ HeapLive
  BY DEF GcTypes, MutexHeld, Tagged, CacheLive, StackLive, HeapLive, Live, Queued
<1>6. FramesLive
  BY DEF FramesLive, Elems, ReplFrame, Live
<1>7. TablesLive
  BY DEF TablesLive, Elems, Live
<1>8. Tricolour
  BY DEF Tricolour
<1>. QED  BY <1>1, <1>2, <1>4, <1>5, <1>6, <1>7, <1>8 DEF IInv

-------------------------------------------------------------------------------
(* Steps of the main thread.  While it holds the mutex no collection is in *)
(* progress, so of Tricolour only the last two conjuncts say anything.     *)

(* While the main thread owns the mutex no collection is under way.        *)
LEMMA VmTricolour ==
  ASSUME IInv, lock = "vm" \/ gcpc = "sleep", UNCHANGED gcvars,
         \/ UNCHANGED flag
         \/ \E o \in Objects : flag' = [flag EXCEPT ![o] = "black"]
  PROVE  Tricolour'
<1>1. gcpc = "sleep" /\ gcpc' = "sleep" /\ gq' = {} /\ gq = {}
  BY DEF IInv, MutexHeld, Tricolour, gcvars, GcTypes
<1>2. \A o \in Objects : flag'[o] # "grey"
  BY <1>1 DEF IInv, Tricolour, HeapTypes, Queued
<1>. QED  BY <1>1, <1>2 DEF Tricolour

(* Instructions that change no object but, at a return, the colour of one. *)
LEMMA MachineStep ==
  ASSUME IInv, lock = "vm" \/ gcpc = "sleep",
         UNCHANGED <<heap, olist, tables>>, UNCHANGED gcvars,
         \/ UNCHANGED flag
         \/ \E o \in Objects : flag' = [flag EXCEPT ![o] = "black"],
         GcTypes', MutexHeld', StackTypes',
         stack' \in Seq(Live), FramesLive',
         \A c \in Elems(cstack') : vars[c] \in [Names -> Live]
  PROVE  IInv'
<1>. USE DEF heap, tables
<1>1. Live' = Live
  BY DEF Live
<1>2. HeapTypes' /\ TableTypes'
  BY DEF IInv, HeapTypes, TableTypes, Flags
<1>3. Tagged' /\ CacheLive'
  BY DEF IInv, Tagged, CacheLive
<1>4. StackLive' /\ TablesLive' /\ HeapLive'
  BY <1>1 DEF IInv, StackLive, TablesLive, HeapLive
<1>5. Tricolour'
  BY VmTricolour
<1>. QED  BY <1>2, <1>3, <1>4, <1>5 DEF IInv

(* Instructions that move references and leave every object as it was.     *)
LEMMA ControlStep ==
  ASSUME IInv, lock = "vm" \/ gcpc = "sleep",
         KeepHeap, UNCHANGED tables, UNCHANGED gcvars,
         GcTypes', MutexHeld', StackTypes',
         stack' \in Seq(Live), FramesLive',
         \A c \in Elems(cstack') : vars[c] \in [Names -> Live]
  PROVE  IInv'
BY MachineStep DEF KeepHeap

(* Instructions that leave the control stacks alone besides.               *)
LEMMA PlainStep ==
  ASSUME IInv, Running, Stay, KeepHeap, UNCHANGED tables, stack' \in Seq(Live)
  PROVE  IInv'
<1>. USE DEF Stay, NoGcStep, control, Running
<1>1. GcTypes' /\ MutexHeld' /\ StackTypes' /\ UNCHANGED gcvars
  BY DEF IInv, GcTypes, MutexHeld, StackTypes, gcvars, Queued
<1>2. FramesLive'
  BY DEF IInv, FramesLive, KeepHeap, heap, Live, Elems
<1>3. \A c \in Elems(cstack') : vars[c] \in [Names -> Live]
  BY DEF IInv, TablesLive, Elems
<1>. QED  BY <1>1, <1>2, <1>3, ControlStep

(* The push instruction keeps the invariant.                               *)
LEMMA PushArgStep == IInv /\ PushArg => IInv'
<1>. SUFFICES ASSUME IInv, PushArg PROVE stack' \in Seq(Live)
  BY PlainStep DEF PushArg
<1>1. Here \in Elems(frames) /\ Here \in Frame
  BY HereTypes, LastProp DEF IInv, StackTypes, Here
<1>2. LiteralOf(Here) \in Live
  <2>1. CASE Here.code = Nil
    BY <1>1, <2>1 DEF IInv, FramesLive, PushArg, LiteralOf
  <2>2. CASE Here.code # Nil
    <3>1. Here.code \in alloc
      BY <1>1, <2>2 DEF IInv, FramesLive, PushArg, Running, Live
    <3>. QED  BY <3>1, <2>2 DEF IInv, HeapLive, LiteralOf, Slots
  <2>. QED  BY <2>1, <2>2
<1>. QED  BY <1>2, PushTypes DEF PushArg, IInv, StackLive

(* The pop instruction keeps the invariant.                                *)
LEMMA PopValueStep == IInv /\ PopValue => IInv'
<1>. SUFFICES ASSUME IInv, PopValue PROVE stack' \in Seq(Live)
  BY PlainStep DEF PopValue
<1>. QED  BY PopTypes DEF PopValue, IInv, StackLive

(* vm_car and vm_cdr keep the invariant.                                   *)
LEMMA GetStep == ASSUME NEW s \in Slots PROVE IInv /\ Get(s) => IInv'
<1>. SUFFICES ASSUME IInv, Get(s) PROVE stack' \in Seq(Live)
  BY PlainStep DEF Get, UserCode
<1>1. Drop(1) \in Seq(Live) /\ Top \in Live
  BY PopTypes DEF Get, IInv, StackLive
<1>2. slot[Top][s] \in Live
  BY <1>1 DEF Get, IInv, HeapLive, Live
<1>. QED  BY <1>1, <1>2, PushTypes DEF Get

(* The resolve instruction keeps the invariant.                            *)
LEMMA ResolveStep == ASSUME NEW n \in Names PROVE IInv /\ Resolve(n) => IInv'
<1>. SUFFICES ASSUME IInv, Resolve(n) PROVE stack' \in Seq(Live)
  BY PlainStep DEF Resolve, UserCode
<1>1. PICK i \in DOMAIN cstack : Push(stack, vars[cstack[i]][n])
  BY DEF Resolve
<1>2. vars[cstack[i]][n] \in Live
  BY DEF IInv, TablesLive, Elems
<1>. QED  BY <1>1, <1>2, PushTypes DEF IInv, StackLive

(* Calls: a new frame whose chunk and literal are alive.                   *)
LEMMA PushFrame ==
  ASSUME IInv, NEW g \in Frame, frames' = Append(frames, g),
         g.code \in Live, g.literal \in Live, UNCHANGED <<alloc, traps>>,
         cstack' \in Seq(Contexts)
  PROVE  StackTypes' /\ FramesLive'
<1>1. StackTypes'
  BY AppendProp DEF IInv, StackTypes
<1>2. Elems(frames') = Elems(frames) \cup {g}
  BY AppendProp DEF IInv, StackTypes
<1>. QED  BY <1>1, <1>2 DEF IInv, FramesLive, Live

(* call() of a compiled function keeps the invariant.                      *)
LEMMA CallStep == ASSUME NEW a \in 0 .. 1 PROVE IInv /\ Call(a) => IInv'
<1>. SUFFICES ASSUME IInv, Call(a) PROVE IInv'
  OBVIOUS
<1>. DEFINE g == [code |-> Top, literal |-> Nil, base |-> Len(stack) - 1, argc |-> a,
                  lvl |-> Len(cstack) + 1, dead |-> {}]
<1>1. /\ Top \in Live /\ Top # Nil /\ Drop(1) \in Seq(Live)
      /\ Len(stack) - (1 + a) \in Nat
  <2>1. CanPop(1 + a) /\ 1 + a \in Nat /\ 1 + a > 0
    BY DEF Call
  <2>2. Top \in Live /\ Len(stack) - (1 + a) \in Nat
    BY <2>1, PopTypes DEF IInv, StackLive
  <2>3. CanPop(1)
    BY <2>1, HereTypes DEF CanPop, IInv, StackLive
  <2>4. Drop(1) \in Seq(Live)
    BY <2>3, PopTypes DEF IInv, StackLive
  <2>. QED  BY <2>2, <2>4 DEF Call
<1>2. g \in Frame
  <2>1. Live \subseteq Ref /\ Nil \in Ref
    BY LiveRef DEF IInv, Ref
  <2>2. Len(stack) - 1 \in Nat /\ a <= Len(stack) - 1 /\ a \in Nat /\ Len(cstack) + 1 \in Nat
    BY <1>1 DEF IInv, StackTypes
  <2>. QED  BY <1>1, <2>1, <2>2 DEF Frame
<1>3. Top \in alloc /\ kind[Top] = "code" /\ env[Top] \in Contexts
  BY <1>1 DEF Live, Call, IInv, HeapTypes
<1>4. cstack' \in Seq(Contexts) /\ Elems(cstack') = Elems(cstack) \cup {env[Top]}
  BY <1>3, AppendProp DEF Call, IInv, StackTypes
<1>5. \A c \in Elems(cstack') : vars[c] \in [Names -> Live]
  BY <1>3, <1>4 DEF IInv, TablesLive, HeapLive
<1>6. StackTypes' /\ FramesLive'
  BY <1>1, <1>2, <1>4, PushFrame DEF Call, KeepHeap, heap, Live
<1>7. GcTypes' /\ MutexHeld' /\ UNCHANGED gcvars /\ lock = "vm"
  BY DEF Call, UserCode, Running, NoGcStep, IInv, GcTypes, MutexHeld, gcvars, Queued
<1>. QED  BY <1>1, <1>5, <1>6, <1>7, ControlStep DEF Call

(* vm_eval keeps the invariant.                                            *)
LEMMA EvalStep == IInv /\ Eval => IInv'
<1>. SUFFICES ASSUME IInv, Eval PROVE IInv'
  OBVIOUS
<1>1. Top \in Live /\ Drop(1) \in Seq(Live) /\ Len(stack) - 1 \in Nat
  BY PopTypes DEF IInv, StackLive, Eval
<1>2. Literals(Top) \subseteq Live
  BY <1>1 DEF IInv, HeapLive, TablesLive, Literals, Form, FnRoots, Live
<1>3. PICK x \in Literals(Top) :
        frames' = Append(frames, [code |-> Nil, literal |-> x,
                                  base |-> Len(stack) - 1, argc |-> 0,
                                  lvl |-> Len(cstack), dead |-> {}])
  BY DEF Eval
<1>. DEFINE g == [code |-> Nil, literal |-> x, base |-> Len(stack) - 1, argc |-> 0,
                  lvl |-> Len(cstack), dead |-> {}]
<1>4. g \in Frame /\ g.code \in Live /\ g.literal \in Live
  <2>1. Len(cstack) \in Nat
    BY DEF IInv, StackTypes
  <2>2. x \in Live /\ x \in Ref /\ Nil \in Ref
    BY <1>2, LiveRef DEF IInv, Ref
  <2>. QED  BY <1>1, <2>1, <2>2 DEF Frame, Live
<1>5. StackTypes' /\ FramesLive'
  BY <1>3, <1>4, PushFrame DEF Eval, KeepHeap, heap, IInv, StackTypes
<1>6. GcTypes' /\ MutexHeld' /\ UNCHANGED gcvars /\ lock = "vm"
  BY DEF Eval, Running, NoGcStep, IInv, GcTypes, MutexHeld, gcvars, Queued
<1>7. \A c \in Elems(cstack') : vars[c] \in [Names -> Live]
  BY DEF Eval, IInv, TablesLive, Elems
<1>. QED  BY <1>1, <1>5, <1>6, <1>7, ControlStep DEF Eval

(* Frames, contexts and traps that were there before are as good as then.  *)
LEMMA CutStacks ==
  ASSUME IInv, StackTypes', UNCHANGED <<alloc, vars>>,
         Elems(frames') \subseteq Elems(frames), Elems(cstack') \subseteq Elems(cstack)
  PROVE  FramesLive' /\ \A c \in Elems(cstack') : vars[c] \in [Names -> Live]
BY DEF IInv, FramesLive, TablesLive, Live

(* The exit instruction, back in call() or vm_eval(), keeps the invariant. *)
LEMMA ReturnStep == IInv /\ Return => IInv'
<1>. SUFFICES ASSUME IInv, Return PROVE IInv'
  OBVIOUS
<1>1. \/ stack' = << >> /\ UNCHANGED <<frames, cstack>>
      \/ /\ Len(frames) > 1
         /\ stack' = Append(Keep(stack, Here.base - Here.argc), Top)
         /\ frames' = Keep(frames, Len(frames) - 1)
         /\ cstack' = cstack \/ cstack' = Keep(cstack, Len(cstack) - 1)
  BY DEF Return
<1>2. StackTypes /\ StackLive
  BY DEF IInv
<1>3. Here.base \in Nat /\ Here.base - Here.argc \in Nat
  BY <1>2, HereTypes DEF Frame
<1>4. Top \in Live
  <2>1. Len(stack) > 0
    BY <1>2, <1>3 DEF Return, AtExit, StackLive
  <2>. QED  BY <1>2, <2>1, LastProp DEF Top, StackLive
<1>5. stack' \in Seq(Live)
  <2>1. Keep(stack, Here.base - Here.argc) \in Seq(Live)
    BY <1>2, <1>3, KeepProp DEF StackLive
  <2>2. Append(Keep(stack, Here.base - Here.argc), Top) \in Seq(Live)
    BY <1>4, <2>1, AppendProp
  <2>3. << >> \in Seq(Live)
    BY EmptySeq
  <2>. QED  BY <1>1, <2>2, <2>3
<1>6. /\ frames' \in Seq(Frame) /\ frames' # << >> /\ Elems(frames') \subseteq Elems(frames)
  <2>1. CASE Len(frames) > 1 /\ frames' = Keep(frames, Len(frames) - 1)
    <3>1. Len(frames) - 1 \in Nat /\ Len(frames) - 1 > 0 /\ frames # << >>
      BY <1>2, <2>1 DEF StackTypes
    <3>. QED  BY <1>2, <2>1, <3>1, KeepProp DEF StackTypes
  <2>2. CASE frames' = frames
    BY <1>2, <2>2 DEF StackTypes
  <2>. QED  BY <1>1, <2>1, <2>2
<1>7. cstack' \in Seq(Contexts) /\ Elems(cstack') \subseteq Elems(cstack)
  <2>1. CASE cstack' = cstack
    BY <1>2, <2>1 DEF StackTypes
  <2>2. CASE cstack' = Keep(cstack, Len(cstack) - 1) /\ Len(cstack) > 0
    BY <1>2, <2>2, KeepProp DEF StackTypes
  <2>3. CASE cstack' = Keep(cstack, Len(cstack) - 1) /\ Len(cstack) = 0
    BY <1>2, <2>3, SubSeqEmpty DEF StackTypes, Keep, Elems
  <2>. QED  BY <1>1, <1>2, <2>1, <2>2, <2>3 DEF StackTypes
<1>8. StackTypes'
  <2>1. traps' \in Seq(Trap) /\ traps' # << >>
    BY <1>2, TrapPushed DEF Return, StackTypes, StackLive
  <2>. QED  BY <1>2, <1>6, <1>7, <2>1 DEF StackTypes
<1>9. FramesLive' /\ \A c \in Elems(cstack') : vars[c] \in [Names -> Live]
  BY <1>6, <1>7, <1>8, CutStacks DEF Return, heap, tables
<1>10. GcTypes' /\ MutexHeld' /\ UNCHANGED gcvars /\ lock = "vm"
  BY DEF Return, NoGcStep, IInv, GcTypes, MutexHeld, gcvars, Queued
<1>11. UNCHANGED <<heap, olist, tables>>
  BY DEF Return
<1>12. \/ UNCHANGED flag
       \/ \E o \in Objects : flag' = [flag EXCEPT ![o] = "black"]
  <2>1. Top = Nil \/ Top \in Objects
    BY <1>4 DEF Live, IInv, HeapTypes
  <2>. QED  BY <2>1 DEF Return
<1>. QED  BY <1>5, <1>8, <1>9, <1>10, <1>11, <1>12, MachineStep

(* The mutex changes hands between instructions only.                      *)
LEMMA MutexStep == IInv /\ (Yield \/ VmLock \/ TouchFreed) => IInv'
<1>. SUFFICES ASSUME IInv, Yield \/ VmLock \/ TouchFreed PROVE IInv'
  OBVIOUS
<1>. USE DEF Yield, VmLock, TouchFreed, Running, NoGcStep
<1>1. lock = "vm" \/ gcpc = "sleep"
  BY DEF IInv, MutexHeld
<1>2. KeepHeap /\ UNCHANGED tables /\ UNCHANGED gcvars /\ UNCHANGED <<stack, control>>
  BY DEF gcvars
<1>3. GcTypes' /\ MutexHeld'
  BY <1>2 DEF IInv, GcTypes, MutexHeld, gcvars, Queued
<1>4. StackTypes' /\ stack' \in Seq(Live)
  BY <1>2 DEF IInv, StackTypes, control, StackLive
<1>5. FramesLive' /\ \A c \in Elems(cstack') : vars[c] \in [Names -> Live]
  BY <1>2, <1>4, CutStacks DEF control, KeepHeap, heap, tables
<1>. QED  BY <1>1, <1>2, <1>3, <1>4, <1>5, ControlStep

(* The catch instruction keeps the invariant.                              *)
LEMMA CatchStep == IInv /\ Catch => IInv'
<1>. SUFFICES ASSUME IInv, Catch PROVE IInv'
  OBVIOUS
<1>. USE DEF Catch, UserCode, Running, NoGcStep
<1>1. Top \in Live /\ Drop(1) \in Seq(Live) /\ Len(stack) - 1 \in Nat
  BY PopTypes DEF IInv, StackLive
<1>2. stack' \in Seq(Live)
  BY <1>1, AppendProp DEF Live
<1>3. [catcher |-> Top, off |-> Len(stack) - 1, lvl |-> Len(cstack), depth |-> Len(frames)]
        \in Trap
  BY <1>1, HereTypes, LiveRef DEF IInv, StackTypes, Trap
<1>4. StackTypes'
  BY <1>3, AppendProp DEF IInv, StackTypes
<1>5. FramesLive' /\ \A c \in Elems(cstack') : vars[c] \in [Names -> Live]
  BY <1>4, CutStacks DEF KeepHeap, heap, tables
<1>6. GcTypes' /\ MutexHeld' /\ UNCHANGED gcvars
  BY DEF IInv, GcTypes, MutexHeld, gcvars, Queued
<1>. QED  BY <1>2, <1>4, <1>5, <1>6, ControlStep

(* The pop_catch instruction keeps the invariant.                          *)
LEMMA PopCatchStep == IInv /\ PopCatch => IInv'
<1>. SUFFICES ASSUME IInv, PopCatch PROVE IInv'
  OBVIOUS
<1>1. StackTypes'
  <2>1. StackTypes /\ Len(traps) > 1
    BY DEF IInv, PopCatch
  <2>2. UNCHANGED <<cstack, frames>> /\ traps' = Keep(traps, Len(traps) - 1)
    BY DEF PopCatch
  <2>3. traps \in Seq(Trap) /\ traps # << >>
    BY <2>1 DEF StackTypes
  <2>. DEFINE n == Len(traps) - 1
  <2>4. n \in Nat /\ n > 0
    BY <2>1, <2>3
  <2>. HIDE DEF n
  <2>5. Keep(traps, n) \in Seq(Trap) /\ Keep(traps, n) # << >>
    BY <2>3, <2>4, KeepProp
  <2>6. traps' \in Seq(Trap) /\ traps' # << >>
    BY <2>2, <2>5 DEF n
  <2>. QED  BY <2>1, <2>2, <2>6 DEF StackTypes
<1>. USE DEF PopCatch, UserCode, Running, NoGcStep
<1>2. FramesLive' /\ \A c \in Elems(cstack') : vars[c] \in [Names -> Live]
  BY <1>1, CutStacks DEF KeepHeap, heap, tables
<1>3. GcTypes' /\ MutexHeld' /\ UNCHANGED gcvars /\ stack' \in Seq(Live)
  BY DEF IInv, GcTypes, MutexHeld, gcvars, StackLive, Queued
<1>. QED  BY <1>1, <1>2, <1>3, ControlStep

(* vm_error_impl keeps the invariant.                                      *)
LEMMA ErrorStep == IInv /\ Error => IInv'
<1>. SUFFICES ASSUME IInv, Error PROVE IInv'
  OBVIOUS
<1>. USE DEF Error, Running, NoGcStep
<1>1. PICK e \in Live : Unwind(e)
  <2>1. CASE CanPop(1) /\ Unwind(Top)
    BY <2>1, PopTypes DEF IInv, StackLive
  <2>2. CASE \E e \in interned : Unwind(e)
    BY <2>2 DEF IInv, TablesLive, Live
  <2>. QED  BY <2>1, <2>2
<1>2. /\ StackTypes' /\ stack' \in Seq(Live)
      /\ Elems(cstack') \subseteq Elems(cstack) /\ Elems(frames') \subseteq Elems(frames)
  BY <1>1, UnwindTypes DEF IInv, StackLive
<1>3. FramesLive' /\ \A c \in Elems(cstack') : vars[c] \in [Names -> Live]
  BY <1>2, CutStacks DEF KeepHeap, heap, tables
<1>4. GcTypes' /\ MutexHeld' /\ UNCHANGED gcvars /\ lock = "vm"
  BY DEF IInv, GcTypes, MutexHeld, gcvars, Queued
<1>. QED  BY <1>2, <1>3, <1>4, ControlStep

-------------------------------------------------------------------------------
(* Allocation.  The new object is live, black, and refers to live objects. *)

(* An instruction that allocates an object of live references and a well   *)
(* typed rest keeps the invariant.                                         *)
LEMMA AllocStep ==
  ASSUME IInv, lock = "vm",
         NEW o \in Objects, NEW k \in Kinds, NEW refs, NEW c \in Contexts, NEW n \in Int,
         Allocate(o, k, refs, c, n),
         refs \in [Slots -> Live \cup {o}],
         k \in {"leaf", "num"} => refs = NoRefs,
         TableTypes', StackTypes', GcTypes', MutexHeld', UNCHANGED gcvars,
         stack' \in Seq(Live \cup {o}),
         Elems(frames') \subseteq Elems(frames), Elems(cstack') \subseteq Elems(cstack),
         fns' \in [FnNames -> Live \cup {o}],
         \/ UNCHANGED interned
         \/ k = "leaf" /\ interned' = interned \cup {o},
         \/ UNCHANGED vars /\ (k = "code" => c \in Elems(cstack))
         \/ vars' \in [Contexts -> [Names -> Ref]] /\ vars'[c] \in [Names -> Live]
            /\ \A d \in Contexts : d # c => vars'[d] = vars[d],
         \/ UNCHANGED cache
         \/ k = "num" /\ cache' = [m \in Cacheable |-> IF m = n THEN o ELSE cache[m]]
  PROVE  IInv'
<1>. USE DEF Allocate
<1>1. /\ o \notin alloc /\ alloc' = alloc \cup {o} /\ Live' = Live \cup {o}
      /\ \A p \in Objects : p # o => /\ kind'[p] = kind[p] /\ slot'[p] = slot[p]
                                    /\ env'[p] = env[p] /\ val'[p] = val[p]
      /\ kind'[o] = k /\ slot'[o] = refs /\ env'[o] = c /\ val'[o] = n
  BY DEF IInv, HeapTypes, Live
<1>2. HeapTypes'
  <2>1. refs \in Refs
    BY LiveRef DEF Refs, IInv, Ref
  <2>. QED  BY <2>1, AllocateTypes DEF IInv
<1>3. Tagged'
  <2>1. \A p \in Objects : kind'[p] \in {"leaf", "num"} => slot'[p] = NoRefs
    BY <1>1 DEF IInv, Tagged
  <2>2. \A p \in alloc' \ olist' : kind'[p] = "num"
    BY <1>1 DEF IInv, Tagged, HeapTypes
  <2>3. \A p \in interned' : kind'[p] = "leaf"
    BY <1>1 DEF IInv, Tagged, TableTypes, TablesLive
  <2>. QED  BY <2>1, <2>2, <2>3 DEF Tagged
<1>4. CacheLive'
  <2>1. Nil \notin Objects
    BY ConstantsAssumption
  <2>. QED  BY <1>1, <2>1 DEF IInv, CacheLive, HeapTypes, TableTypes
<1>5. FramesLive'
  BY <1>1 DEF IInv, FramesLive
<1>6. StackLive'
  BY <1>1 DEF StackLive
<1>7. c \in Elems(cstack) /\ UNCHANGED vars => vars'[c] \in [Names -> Live]
  BY DEF IInv, TablesLive
<1>8. \A d \in Contexts : vars[d] \in [Names -> Live] => vars'[d] \in [Names -> Live]
  OBVIOUS
<1>9. TablesLive'
  <2>1. \A d \in Elems(cstack') : vars'[d] \in [Names -> Live]
    BY <1>8, ElemsProp DEF IInv, TablesLive, StackTypes
  <2>2. [Names -> Live] \subseteq [Names -> Live']
    BY <1>1
  <2>3. interned' \subseteq alloc'
    BY <1>1 DEF IInv, TablesLive
  <2>. QED  BY <1>1, <2>1, <2>2, <2>3 DEF TablesLive
<1>10. HeapLive'
  <2>1. \A p \in alloc : slot'[p] \in [Slots -> Live']
    BY <1>1 DEF IInv, HeapLive, HeapTypes
  <2>2. \A p \in alloc : kind'[p] = "code" => vars'[env'[p]] \in [Names -> Live']
    <3>1. SUFFICES ASSUME NEW p \in alloc, kind'[p] = "code"
                   PROVE  vars'[env'[p]] \in [Names -> Live']
      OBVIOUS
    <3>2. env[p] \in Contexts /\ vars[env[p]] \in [Names -> Live] /\ env'[p] = env[p]
      BY <1>1, <3>1 DEF IInv, HeapLive, HeapTypes
    <3>3. vars'[env[p]] \in [Names -> Live]
      BY <1>8, <3>2
    <3>. QED  BY <1>1, <3>2, <3>3
  <2>3. slot'[o] \in [Slots -> Live']
    BY <1>1
  <2>4. k = "code" => vars'[c] \in [Names -> Live']
    BY <1>1, <1>7
  <2>. QED  BY <1>1, <2>1, <2>2, <2>3, <2>4 DEF HeapLive
<1>11. Tricolour'
  BY VmTricolour
<1>. QED  BY <1>2, <1>3, <1>4, <1>5, <1>6, <1>9, <1>10, <1>11 DEF IInv

(* What stays the same when an instruction only allocates and pushes.      *)
LEMMA StayParts ==
  ASSUME IInv, Running, Stay
  PROVE  /\ lock = "vm" /\ StackTypes' /\ GcTypes' /\ MutexHeld' /\ UNCHANGED gcvars
         /\ UNCHANGED <<cstack, frames>>
         /\ Elems(frames') \subseteq Elems(frames) /\ Elems(cstack') \subseteq Elems(cstack)
BY DEF IInv, Running, Stay, NoGcStep, control, gcvars, StackTypes, GcTypes, MutexHeld, Elems, Queued

(* Allocation only adds to what is live.                                   *)
LEMMA LiveMore ==
  ASSUME NEW o
  PROVE  Seq(Live) \subseteq Seq(Live \cup {o})
BY SeqMonotonic

(* An object without references refers to nothing but Nil.                 *)
LEMMA NoRefsLive == NoRefs \in [Slots -> Live]
BY DEF NoRefs, Live

(* The global context and the numbers are well typed.                      *)
LEMMA GlobalContext == Global \in Contexts /\ 0 \in Int /\ Longs \subseteq Int
BY ConstantsAssumption

(* The functions stay live whatever is allocated.                          *)
LEMMA FnsLive == ASSUME IInv, NEW o PROVE fns \in [FnNames -> Live \cup {o}]
BY DEF IInv, TablesLive

(* new_object_long, from the cache or fresh, keeps the invariant.          *)
LEMMA NewLongStep == ASSUME NEW n \in Longs PROVE IInv /\ NewLong(n) => IInv'
<1>. SUFFICES ASSUME IInv, NewLong(n) PROVE IInv'
  OBVIOUS
<1>1. CASE /\ n \in Cacheable /\ cache[n] # Nil
           /\ Push(stack, cache[n])
           /\ KeepHeap /\ UNCHANGED tables
  <2>1. cache[n] \in Live
    BY <1>1 DEF IInv, CacheLive, Live
  <2>2. stack' \in Seq(Live)
    BY <1>1, <2>1, PushTypes DEF IInv, StackLive
  <2>. QED  BY <1>1, <2>2, PlainStep DEF NewLong
<1>2. CASE /\ \E o \in Objects :
                /\ Allocate(o, "num", NoRefs, Global, n)
                /\ Push(stack, o)
                /\ cache' = [m \in Cacheable |-> IF m = n THEN o ELSE cache[m]]
           /\ UNCHANGED <<interned, vars, fns>>
  <2>1. PICK o \in Objects :
                /\ Allocate(o, "num", NoRefs, Global, n)
                /\ Push(stack, o)
                /\ cache' = [m \in Cacheable |-> IF m = n THEN o ELSE cache[m]]
    BY <1>2
  <2>2. stack' \in Seq(Live \cup {o})
    BY <2>1, LiveMore, PushTypes DEF IInv, StackLive
  <2>3. TableTypes'
    BY <1>2, <2>1 DEF IInv, TableTypes, Ref
  <2>4. Running /\ Stay
    BY DEF NewLong
  <2>5. "num" \in Kinds
    BY DEF Kinds
  <2>. QED
    BY <1>2, <2>1, <2>2, <2>3, <2>4, <2>5, StayParts, NoRefsLive, GlobalContext, FnsLive, AllocStep
<1>. QED  BY <1>1, <1>2 DEF NewLong

(* Making a string or a character keeps the invariant.                     *)
LEMMA NewLeafStep == IInv /\ NewLeaf => IInv'
<1>. SUFFICES ASSUME IInv, NewLeaf PROVE IInv'
  OBVIOUS
<1>1. PICK o \in Objects : Allocate(o, "leaf", NoRefs, Global, 0) /\ Push(stack, o)
  BY DEF NewLeaf
<1>2. stack' \in Seq(Live \cup {o})
  BY <1>1, LiveMore, PushTypes DEF IInv, StackLive
<1>3. TableTypes' /\ UNCHANGED <<cache, interned, vars, fns>>
  BY DEF NewLeaf, tables, IInv, TableTypes
<1>4. Running /\ Stay
  BY DEF NewLeaf
<1>5. "leaf" \in Kinds
  BY DEF Kinds
<1>. QED
  BY <1>1, <1>2, <1>3, <1>4, <1>5, StayParts, NoRefsLive, GlobalContext, FnsLive, AllocStep

(* intern keeps the invariant.                                             *)
LEMMA InternStep == IInv /\ Intern => IInv'
<1>. SUFFICES ASSUME IInv, Intern PROVE IInv'
  OBVIOUS
<1>0. Running /\ Stay
  BY DEF Intern
<1>1. CASE (\E o \in interned : Push(stack, o)) /\ KeepHeap /\ UNCHANGED tables
  <2>1. stack' \in Seq(Live)
    BY <1>1, PushTypes DEF IInv, StackLive, TablesLive, Live
  <2>. QED  BY <1>0, <1>1, <2>1, PlainStep
<1>2. CASE /\ \E o \in Objects :
                /\ Allocate(o, "leaf", NoRefs, Global, 0)
                /\ interned' = interned \cup {o}
                /\ Push(stack, o)
           /\ UNCHANGED <<cache, vars, fns>>
  <2>1. PICK o \in Objects : /\ Allocate(o, "leaf", NoRefs, Global, 0)
                             /\ interned' = interned \cup {o}
                             /\ Push(stack, o)
    BY <1>2
  <2>2. stack' \in Seq(Live \cup {o})
    BY <2>1, LiveMore, PushTypes DEF IInv, StackLive
  <2>3. TableTypes'
    BY <1>2, <2>1 DEF IInv, TableTypes
  <2>4. "leaf" \in Kinds
    BY DEF Kinds
  <2>. QED
    BY <1>0, <1>2, <2>1, <2>2, <2>3, <2>4, StayParts, NoRefsLive, GlobalContext, FnsLive, AllocStep
<1>. QED  BY <1>1, <1>2 DEF Intern

(* vm_cons keeps the invariant.                                            *)
LEMMA ConsStep == IInv /\ Cons => IInv'
<1>. SUFFICES ASSUME IInv, Cons PROVE IInv'
  OBVIOUS
<1>. DEFINE refs == [s \in Slots |-> IF s = "car" THEN Second ELSE Top]
<1>1. PICK o \in Objects : Allocate(o, "pair", refs, Global, 0) /\ Push(Drop(2), o)
  BY DEF Cons
<1>2. Top \in Live /\ Second \in Live /\ Drop(2) \in Seq(Live)
  BY PopTypes DEF IInv, StackLive, Cons
<1>3. stack' \in Seq(Live \cup {o})
  BY <1>1, <1>2, LiveMore, PushTypes
<1>4. TableTypes' /\ UNCHANGED <<cache, interned, vars, fns>>
  BY DEF Cons, tables, IInv, TableTypes
<1>5. Running /\ Stay
  BY DEF Cons
<1>6. "pair" \in Kinds /\ refs \in [Slots -> Live \cup {o}]
  BY <1>2 DEF Kinds
<1>. HIDE DEF refs
<1>. QED
  BY <1>1, <1>3, <1>4, <1>5, <1>6, StayParts, GlobalContext, FnsLive, AllocStep

(* A closure context holds live values.                                    *)
LEMMA ClosureProp ==
  ASSUME IInv, NEW c \in Contexts, Closure(c)
  PROVE  /\ vars' \in [Contexts -> [Names -> Ref]]
         /\ vars'[c] \in [Names -> Live]
         /\ \A d \in Contexts : d # c => vars'[d] = vars[d]
<1>1. PICK x \in StackRoots \cup {Nil}, n \in Names :
        vars' = [vars EXCEPT ![c] = [m \in Names |-> IF m = n THEN x ELSE Nil]]
  BY DEF Closure
<1>2. x \in Live
  BY ElemsProp DEF IInv, StackLive, StackRoots, Live
<1>3. [m \in Names |-> IF m = n THEN x ELSE Nil] \in [Names -> Live]
  BY <1>2 DEF Live
<1>4. [Names -> Live] \subseteq [Names -> Ref]
  BY LiveRef DEF IInv
<1>. QED  BY <1>1, <1>3, <1>4 DEF IInv, TableTypes

(* The literals of a chunk are live when it is compiled.                   *)
LEMMA LiteralsLive ==
  ASSUME IInv, Top \in Live
  PROVE  Literals(Top) \subseteq Live
BY DEF IInv, HeapLive, TablesLive, Literals, Form, FnRoots, Live

(* vm_compile_fn keeps the invariant.                                      *)
LEMMA DefineFnStep == ASSUME NEW n \in FnNames PROVE IInv /\ DefineFn(n) => IInv'
<1>. SUFFICES ASSUME IInv, DefineFn(n) PROVE IInv'
  OBVIOUS
<1>1. PICK o \in Objects, c \in Contexts :
        /\ Closure(c)
        /\ \E x \in Literals(Top) \cup {o} : Allocate(o, "code", Code(x), c, 0)
        /\ fns' = [fns EXCEPT ![n] = o]
  BY DEF DefineFn
<1>2. PICK x \in Literals(Top) \cup {o} : Allocate(o, "code", Code(x), c, 0)
  BY <1>1
<1>3. Top \in Live /\ Drop(1) \in Seq(Live)
  BY PopTypes DEF IInv, StackLive, DefineFn
<1>4. stack' \in Seq(Live \cup {o})
  BY <1>3, LiveMore DEF DefineFn
<1>5. "code" \in Kinds /\ Code(x) \in [Slots -> Live \cup {o}]
  BY <1>3, LiteralsLive DEF Kinds, Code, NoRefs, Live
<1>6. fns' \in [FnNames -> Live \cup {o}] /\ fns' \in [FnNames -> Ref]
  BY <1>1, LiveRef DEF IInv, TablesLive, Ref, TableTypes
<1>7. TableTypes' /\ UNCHANGED <<cache, interned>>
  BY <1>1, <1>6, ClosureProp DEF DefineFn, IInv, TableTypes
<1>8. Running /\ Stay
  BY DEF DefineFn, UserCode
<1>9. \/ UNCHANGED vars /\ ("code" = "code" => c \in Elems(cstack))
      \/ vars' \in [Contexts -> [Names -> Ref]] /\ vars'[c] \in [Names -> Live]
         /\ \A d \in Contexts : d # c => vars'[d] = vars[d]
  BY <1>1, ClosureProp
<1>. QED
  BY <1>2, <1>4, <1>5, <1>6, <1>7, <1>8, <1>9, StayParts, GlobalContext, AllocStep

(* vm_compile_lambda keeps the invariant.                                  *)
LEMMA LambdaStep == IInv /\ Lambda => IInv'
<1>. SUFFICES ASSUME IInv, Lambda PROVE IInv'
  OBVIOUS
<1>1. PICK o \in Objects, c \in Contexts :
        /\ Closure(c)
        /\ \E x \in Literals(Top) : Allocate(o, "code", Code(x), c, 0)
        /\ Push(Drop(1), o)
  BY DEF Lambda
<1>2. PICK x \in Literals(Top) : Allocate(o, "code", Code(x), c, 0)
  BY <1>1
<1>3. Top \in Live /\ Drop(1) \in Seq(Live)
  BY PopTypes DEF IInv, StackLive, Lambda
<1>4. stack' \in Seq(Live \cup {o})
  BY <1>1, <1>3, LiveMore, PushTypes
<1>5. "code" \in Kinds /\ Code(x) \in [Slots -> Live \cup {o}]
  BY <1>3, LiteralsLive DEF Kinds, Code, NoRefs, Live
<1>6. TableTypes' /\ UNCHANGED <<cache, interned, fns>>
  BY <1>1, ClosureProp DEF Lambda, IInv, TableTypes
<1>7. Running /\ Stay
  BY DEF Lambda, UserCode
<1>8. \/ UNCHANGED vars /\ ("code" = "code" => c \in Elems(cstack))
      \/ vars' \in [Contexts -> [Names -> Ref]] /\ vars'[c] \in [Names -> Live]
         /\ \A d \in Contexts : d # c => vars'[d] = vars[d]
  BY <1>1, ClosureProp
<1>. QED
  BY <1>2, <1>4, <1>5, <1>6, <1>7, <1>8, StayParts, GlobalContext, FnsLive, AllocStep

(* A compilation that fails keeps the invariant.                           *)
LEMMA CompileFailsStep ==
  ASSUME NEW named PROVE IInv /\ CompileFails(named) => IInv'
<1>. SUFFICES ASSUME IInv, CompileFails(named) PROVE IInv'
  OBVIOUS
<1>1. PICK o \in Objects, c \in Elems(cstack) : Allocate(o, "code", NoRefs, c, 0)
  BY DEF CompileFails
<1>2. PICK e \in interned \cup {Nil} : Unwind(e)
  BY DEF CompileFails
<1>3. e \in Live /\ c \in Contexts
  BY ElemsProp DEF IInv, TablesLive, Live, StackTypes
<1>4. /\ StackTypes' /\ stack' \in Seq(Live)
      /\ Elems(cstack') \subseteq Elems(cstack) /\ Elems(frames') \subseteq Elems(frames)
  BY <1>2, <1>3, UnwindTypes DEF IInv, StackLive
<1>5. stack' \in Seq(Live \cup {o})
  BY <1>4, LiveMore
<1>6. "code" \in Kinds /\ NoRefs \in [Slots -> Live \cup {o}]
  BY NoRefsLive DEF Kinds
<1>7. fns' \in [FnNames -> Live \cup {o}] /\ fns' \in [FnNames -> Ref]
  BY DEF CompileFails, IInv, TablesLive, Ref, TableTypes, Live
<1>8. TableTypes' /\ UNCHANGED <<cache, interned, vars>>
  BY <1>7 DEF CompileFails, IInv, TableTypes
<1>9. GcTypes' /\ MutexHeld' /\ UNCHANGED gcvars /\ lock = "vm"
  BY DEF CompileFails, UserCode, Running, NoGcStep, IInv, GcTypes, MutexHeld, gcvars, Queued
<1>. QED
  BY <1>1, <1>3, <1>4, <1>5, <1>6, <1>7, <1>8, <1>9, GlobalContext, AllocStep

-------------------------------------------------------------------------------
(* Assignment: to a field of a pair, and to a variable.                    *)

(* vm_setcar and vm_setcdr keep the invariant.                             *)
LEMMA PutStep == ASSUME NEW s \in Slots PROVE IInv /\ Put(s) => IInv'
<1>. SUFFICES ASSUME IInv, Put(s) PROVE IInv'
  OBVIOUS
<1>. USE DEF Put, UserCode
<1>1. Top \in Live /\ Second \in Live /\ Drop(1) \in Seq(Live) /\ Live' = Live
  <2>1. Top \in Live /\ Second \in Live
    BY PopTypes DEF IInv, StackLive
  <2>2. CanPop(1)
    BY HereTypes DEF CanPop, IInv, StackLive
  <2>3. Drop(1) \in Seq(Live)
    BY <2>2, PopTypes DEF IInv, StackLive
  <2>. QED  BY <2>1, <2>3 DEF Live
<1>2. Second \in alloc /\ Second \in Objects /\ kind[Second] = "pair"
  BY <1>1 DEF Live, IInv, HeapTypes
<1>3. slot' = [slot EXCEPT ![Second] = [slot[Second] EXCEPT ![s] = Top]]
  OBVIOUS
<1>4. slot[Second] \in [Slots -> Live] /\ slot[Second] \in [Slots -> Ref]
  BY <1>2 DEF IInv, HeapLive, HeapTypes, Refs
<1>5. [slot[Second] EXCEPT ![s] = Top] \in [Slots -> Live]
      /\ [slot[Second] EXCEPT ![s] = Top] \in Refs
  BY <1>1, <1>4, LiveRef DEF IInv, Refs
<1>6. HeapTypes' /\ TableTypes'
  BY <1>3, <1>5 DEF IInv, HeapTypes, TableTypes, tables
<1>7. Tagged' /\ CacheLive'
  BY <1>2, <1>3 DEF IInv, Tagged, CacheLive, tables, HeapTypes
<1>8. HeapLive'
  <2>1. \A p \in alloc : slot'[p] \in [Slots -> Live]
    BY <1>2, <1>3, <1>5 DEF IInv, HeapLive, HeapTypes
  <2>. QED  BY <1>1, <2>1 DEF IInv, HeapLive, tables
<1>9. Running /\ Stay
  OBVIOUS
<1>10. FramesLive' /\ StackLive' /\ TablesLive'
  BY <1>1, <1>9, StayParts DEF IInv, FramesLive, StackLive, TablesLive, tables
<1>11. UNCHANGED flag
  OBVIOUS
<1>12. Tricolour'
  BY <1>9, <1>11, StayParts, VmTricolour
<1>. QED  BY <1>6, <1>7, <1>8, <1>9, <1>10, <1>12, StayParts DEF IInv

(* bind_var keeps the invariant.                                           *)
LEMMA BindVarStep == ASSUME NEW n \in Names PROVE IInv /\ BindVar(n) => IInv'
<1>. SUFFICES ASSUME IInv, BindVar(n) PROVE IInv'
  OBVIOUS
<1>. USE DEF BindVar, UserCode, KeepHeap, heap
<1>1. Top \in Live /\ Drop(1) \in Seq(Live) /\ Live' = Live
  BY PopTypes DEF IInv, StackLive, Live
<1>2. /\ vars' \in [Contexts -> [Names -> Ref]]
      /\ \A d \in Contexts : vars[d] \in [Names -> Live] => vars'[d] \in [Names -> Live]
  <2>. DEFINE z == LastOf(cstack)
              w == [vars[z] EXCEPT ![n] = Top]
  <2>1. vars' = [vars EXCEPT ![z] = w]
    OBVIOUS
  <2>2. vars \in [Contexts -> [Names -> Ref]] /\ Top \in Ref
    BY <1>1, LiveRef DEF IInv, TableTypes
  <2>3. z \in Contexts => w \in [Names -> Ref]
    BY <2>2
  <2>4. z \in Contexts /\ vars[z] \in [Names -> Live] => w \in [Names -> Live]
    BY <1>1
  <2>. HIDE DEF w, z
  <2>5. vars' \in [Contexts -> [Names -> Ref]]
    BY <2>1, <2>2, <2>3
  <2>6. \A d \in Contexts : vars[d] \in [Names -> Live] => vars'[d] \in [Names -> Live]
    BY <2>1, <2>2, <2>4
  <2>. QED  BY <2>5, <2>6
<1>4. HeapTypes' /\ TableTypes'
  BY <1>2 DEF IInv, HeapTypes, TableTypes
<1>5. Tagged' /\ CacheLive'
  BY DEF IInv, Tagged, CacheLive
<1>6. Running /\ Stay
  OBVIOUS
<1>7. HeapLive'
  BY <1>1, <1>2 DEF IInv, HeapLive, HeapTypes
<1>8. TablesLive'
  BY <1>1, <1>2, <1>6, StayParts, ElemsProp DEF IInv, TablesLive, StackTypes
<1>9. FramesLive' /\ StackLive'
  BY <1>1, <1>6, StayParts DEF IInv, FramesLive, StackLive
<1>10. UNCHANGED flag
  OBVIOUS
<1>11. Tricolour'
  BY <1>6, <1>10, StayParts, VmTricolour
<1>. QED  BY <1>4, <1>5, <1>6, <1>7, <1>8, <1>9, <1>11, StayParts DEF IInv

(* Every step of the main thread.                                          *)
LEMMA VmInductive == IInv /\ VmStep => IInv'
BY PushArgStep, PopValueStep, NewLeafStep, InternStep, ConsStep, GetStep, PutStep,
   NewLongStep, BindVarStep, ResolveStep, DefineFnStep, CompileFailsStep, LambdaStep,
   EvalStep, CallStep, ReturnStep, MutexStep, CatchStep, PopCatchStep, ErrorStep
DEF VmStep

-------------------------------------------------------------------------------
(* Steps of the collector.  Until the sweep they only change colours.      *)

(* A collector step that keeps the colour invariant keeps all the rest.    *)
LEMMA ColourStep ==
  ASSUME IInv, KeepWorld, UNCHANGED olist, flag' \in [Objects -> Flags],
         GcTypes', MutexHeld', Tricolour'
  PROVE  IInv'
<1>. USE DEF KeepWorld, heap, tables, machine, control
<1>1. HeapTypes' /\ TableTypes' /\ StackTypes'
  BY DEF IInv, HeapTypes, TableTypes, StackTypes
<1>2. Tagged' /\ CacheLive'
  BY DEF IInv, Tagged, CacheLive
<1>3. FramesLive' /\ StackLive' /\ TablesLive' /\ HeapLive'
  BY DEF IInv, FramesLive, StackLive, TablesLive, HeapLive, Live, Elems
<1>. QED  BY <1>1, <1>2, <1>3 DEF IInv

(* What the roots and the references of an object are does not change      *)
(* while the main thread waits.                                            *)
LEMMA SameRoots ==
  ASSUME KeepWorld
  PROVE  /\ VarRoots' = VarRoots /\ FnRoots' = FnRoots
         /\ StackRoots' = StackRoots /\ UNCHANGED interned
         /\ UNCHANGED alloc
         /\ \A o : Kids(o)' = Kids(o)
BY DEF KeepWorld, heap, tables, machine, control, VarRoots, FnRoots, StackRoots, Kids, Elems

(* Everything the roots and the live objects refer to is live.             *)
LEMMA AllLive ==
  ASSUME IInv
  PROVE  /\ VarRoots \subseteq Live /\ FnRoots \subseteq Live
         /\ StackRoots \subseteq Live /\ interned \subseteq alloc
         /\ \A o \in alloc : Kids(o) \subseteq Live
         /\ Live \subseteq Objects \cup {Nil}
BY IInvImplies DEF Closed, Roots, IInv, TablesLive, HeapTypes, Live

(* Taking the mutex starts a collection with nothing marked.               *)
LEMMA GcLockStep == IInv /\ GcLock => IInv'
<1>. SUFFICES ASSUME IInv, GcLock PROVE IInv'
  OBVIOUS
<1>. USE DEF GcLock, GcStep, MutexFree
<1>1. flag' \in [Objects -> Flags] /\ GcTypes' /\ MutexHeld'
  BY DEF IInv, HeapTypes, GcTypes, MutexHeld, KeepWorld, machine, Queued
<1>2. Tricolour'
  BY DEF IInv, Tricolour, Queued
<1>. QED  BY <1>1, <1>2, ColourStep

(* Whitening every object of the olist keeps the invariant.                *)
LEMMA WhitenStep == IInv /\ Whiten => IInv'
<1>. SUFFICES ASSUME IInv, Whiten PROVE IInv'
  OBVIOUS
<1>. USE DEF Whiten, GcStep, Whitened
<1>1. flag' \in [Objects -> Flags] /\ GcTypes' /\ MutexHeld'
  BY DEF IInv, HeapTypes, GcTypes, MutexHeld, KeepWorld, machine, Flags, Queued
<1>2. \A o \in alloc : flag'[o] = "black" => Kids(o) \subseteq {Nil}
  <2>1. \A o \in alloc \ olist : kind[o] = "num" /\ slot[o] = NoRefs
    BY DEF IInv, Tagged, HeapTypes
  <2>. QED  BY <2>1 DEF IInv, HeapTypes, Kids, NoRefs
<1>3. \A o \in Objects : flag'[o] # "grey"
  BY DEF IInv, Tricolour, Queued
<1>4. Tricolour'
  BY <1>2, <1>3, SameRoots DEF Tricolour, Dark, IInv
<1>. QED  BY <1>1, <1>4, ColourStep

(* The queue after a scan, or after a turn of the marking loop, which may  *)
(* leave its object there if it was queued twice.                          *)
LEMMA GreyQueue ==
  ASSUME NEW scan, NEW found, Grey(scan, found)
  PROVE  Queued' = Queued \cup (Elems(found) \cap Objects)
<1>1. gq' = gq \cup {<<found[p], scan, p>> : p \in {q \in DOMAIN found : found[q] \in Objects}}
  BY DEF Grey
<1>2. ASSUME NEW o \in Elems(found) \cap Objects PROVE o \in Queued'
  <2>1. PICK p \in DOMAIN found : o = found[p] /\ found[p] \in Objects
    BY DEF Elems
  <2>2. <<o, scan, p>> \in gq' /\ <<o, scan, p>>[1] = o
    BY <1>1, <2>1
  <2>. QED  BY <2>2 DEF Queued
<1>3. ASSUME NEW e \in gq' PROVE e[1] \in Queued \cup (Elems(found) \cap Objects)
  BY <1>1 DEF Queued, Elems
<1>4. Queued \subseteq Queued'
  BY <1>1 DEF Queued
<1>. QED  BY <1>2, <1>3, <1>4 DEF Queued

LEMMA MarkQueue ==
  ASSUME NEW o \in Objects, MarkOne(o)
  PROVE  /\ o \in Queued
         /\ (Queued \ {o}) \cup WhiteKids(o) \subseteq Queued'
         /\ Queued' \subseteq Queued \cup WhiteKids(o)
<1>1. PICK e \in gq : /\ e[1] = o
                      /\ gq' = (gq \ {e}) \cup {<<k, "mark", 0>> : k \in WhiteKids(o)}
  BY DEF MarkOne
<1>2. ASSUME NEW k \in WhiteKids(o) PROVE k \in Queued'
  <2>1. <<k, "mark", 0>> \in gq' /\ <<k, "mark", 0>>[1] = k
    BY <1>1
  <2>. QED  BY <2>1 DEF Queued
<1>3. \A d \in gq : d[1] # o => d \in gq'
  BY <1>1
<1>4. \A d \in gq' : d[1] \in Queued \cup WhiteKids(o)
  BY <1>1 DEF Queued
<1>. QED  BY <1>1, <1>2, <1>3, <1>4 DEF Queued

(* What the three scans find: the variables, the functions and the stack.  *)
LEMMA Scanned ==
  ASSUME IInv, ScanVars \/ ScanFns \/ ScanStack
  PROVE  \E scan, found :
           /\ Grey(scan, found)
           /\ Elems(found) = (IF gcpc = "vars" THEN VarRoots ELSE IF gcpc = "fns" THEN FnRoots
                              ELSE StackRoots)
<1>1. CASE ScanVars
  <2>. DEFINE f == [p \in (DOMAIN cstack) \X Names |-> vars[cstack[p[1]]][p[2]]]
  <2>1. Grey("vars", f) /\ gcpc = "vars"
    BY <1>1 DEF ScanVars, GcStep
  <2>2. Elems(f) = VarRoots
    <3>1. ASSUME NEW i \in DOMAIN cstack, NEW n \in Names
          PROVE  vars[cstack[i]][n] \in Elems(f)
      <4>1. <<i, n>> \in DOMAIN f /\ f[<<i, n>>] = vars[cstack[i]][n]
        OBVIOUS
      <4>. QED  BY <4>1 DEF Elems
    <3>2. ASSUME NEW p \in (DOMAIN cstack) \X Names
          PROVE  f[p] \in VarRoots
      BY DEF VarRoots, Elems
    <3>. QED  BY <3>1, <3>2 DEF VarRoots, Elems
  <2>. HIDE DEF f
  <2>. QED  BY <2>1, <2>2
<1>2. CASE ScanFns
  <2>1. Elems(fns) = FnRoots
    BY DEF Elems, FnRoots, IInv, TableTypes
  <2>. QED  BY <1>2, <2>1 DEF ScanFns, GcStep
<1>3. CASE ScanStack
  BY <1>3 DEF ScanStack, GcStep, StackRoots
<1>. QED  BY <1>1, <1>2, <1>3

(* Greying live objects.                                                   *)
LEMMA GreyProp ==
  ASSUME IInv, NEW scan, NEW found, Grey(scan, found), Elems(found) \subseteq Live, KeepWorld,
         gcpc \in {"vars", "fns", "stack"}
  PROVE  /\ flag' \in [Objects -> Flags] /\ Queued' \subseteq Objects
         /\ Dark \subseteq Dark' /\ Elems(found) \subseteq Dark'
         /\ \A o \in alloc : flag'[o] = "black" => Kids(o) \subseteq Dark'
         /\ \A o \in Objects : flag'[o] = "grey" => o \in Queued'
<1>. DEFINE S == Elems(found)
<1>0. /\ flag' = [o \in Objects |-> IF o \in S THEN "grey" ELSE flag[o]]
      /\ Queued' = Queued \cup (S \cap Objects)
  BY GreyQueue DEF Grey
<1>. HIDE DEF S
<1>1. flag' \in [Objects -> Flags] /\ Queued' \subseteq Objects
  BY <1>0 DEF IInv, HeapTypes, GcTypes, Flags
<1>2. Dark \subseteq Dark'
  BY <1>0 DEF Dark
<1>3. S \subseteq Dark'
  BY <1>0, AllLive DEF Dark, S
<1>4. \A o \in alloc : flag'[o] = "black" => Kids(o) \subseteq Dark'
  BY <1>0, <1>2 DEF IInv, Tricolour, HeapTypes
<1>5. \A o \in Objects : flag'[o] = "grey" => o \in Queued'
  BY <1>0 DEF IInv, Tricolour
<1>. QED  BY <1>1, <1>2, <1>3, <1>4, <1>5 DEF S

(* Greying variables, functions and the stack keeps the invariant.         *)
LEMMA ScanStep == IInv /\ (ScanVars \/ ScanFns \/ ScanStack) => IInv'
<1>. SUFFICES ASSUME IInv, ScanVars \/ ScanFns \/ ScanStack PROVE IInv'
  OBVIOUS
<1>. DEFINE S == IF gcpc = "vars" THEN VarRoots ELSE IF gcpc = "fns" THEN FnRoots
                 ELSE StackRoots
<1>0. PICK scan, found : Grey(scan, found) /\ Elems(found) = S
  BY Scanned
<1>1. /\ KeepWorld /\ UNCHANGED <<olist, lock>>
      /\ gcpc \in {"vars", "fns", "stack"}
      /\ gcpc' = (IF gcpc = "vars" THEN "fns" ELSE IF gcpc = "fns" THEN "stack"
                  ELSE "interned")
  BY DEF ScanVars, ScanFns, ScanStack, GcStep
<1>2. S \in SUBSET Live
  BY AllLive
<1>3. /\ flag' \in [Objects -> Flags] /\ Queued' \subseteq Objects
      /\ Dark \subseteq Dark' /\ S \subseteq Dark'
      /\ \A o \in alloc : flag'[o] = "black" => Kids(o) \subseteq Dark'
      /\ \A o \in Objects : flag'[o] = "grey" => o \in Queued'
  <2>. HIDE DEF S
  <2>. QED  BY <1>0, <1>1, <1>2, GreyProp
<1>4. GcTypes' /\ MutexHeld'
  BY <1>1, <1>3 DEF IInv, GcTypes, MutexHeld, KeepWorld, machine
<1>5. Tricolour'
  BY <1>1, <1>3, SameRoots DEF IInv, Tricolour
<1>. QED  BY <1>1, <1>3, <1>4, <1>5, ColourStep

(* Blackening the interned symbols keeps the invariant.                    *)
LEMMA ScanInternedStep == IInv /\ ScanInterned => IInv'
<1>. SUFFICES ASSUME IInv, ScanInterned PROVE IInv'
  OBVIOUS
<1>. USE DEF ScanInterned, GcStep
<1>1. flag' \in [Objects -> Flags] /\ GcTypes' /\ MutexHeld'
  BY DEF IInv, HeapTypes, GcTypes, MutexHeld, KeepWorld, machine, Flags, Queued
<1>2. Dark \subseteq Dark' /\ interned \subseteq Dark'
  BY DEF Dark, IInv, TableTypes
<1>3. \A o \in interned : Kids(o) \subseteq {Nil}
  BY DEF IInv, Tagged, TableTypes, Kids, NoRefs
<1>4. \A o \in alloc : flag'[o] = "black" => Kids(o) \subseteq Dark'
  BY <1>2, <1>3 DEF IInv, Tricolour, HeapTypes, Dark
<1>5. \A o \in Objects : flag'[o] = "grey" => o \in Queued'
  BY DEF IInv, Tricolour, Queued
<1>6. Tricolour'
  BY <1>2, <1>4, <1>5, SameRoots DEF IInv, Tricolour
<1>. QED  BY <1>1, <1>6, ColourStep

(* One turn of the marking loop keeps: no black object refers to a white   *)
(* one.                                                                    *)
LEMMA MarkOneStep == ASSUME NEW o \in Objects PROVE IInv /\ MarkOne(o) => IInv'
<1>. SUFFICES ASSUME IInv, MarkOne(o) PROVE IInv'
  OBVIOUS
<1>. USE DEF MarkOne
<1>1. flag' \in [Objects -> Flags] /\ GcTypes' /\ MutexHeld'
  <2>1. Queued' \subseteq Objects
    BY MarkQueue DEF IInv, GcTypes, WhiteKids
  <2>. QED
    BY <2>1 DEF IInv, HeapTypes, GcTypes, MutexHeld, KeepWorld, machine, Flags, WhiteKids
<1>2. Dark \subseteq Dark' /\ WhiteKids(o) \subseteq Dark'
  BY DEF Dark, WhiteKids
<1>3. \A p \in alloc : flag'[p] = "black" => Kids(p) \subseteq Dark'
  <2>1. SUFFICES ASSUME NEW p \in alloc, flag'[p] = "black", NEW k \in Kids(p)
                 PROVE  k \in Dark'
    OBVIOUS
  <2>2. p \in Objects /\ k \in Objects \cup {Nil}
    BY AllLive DEF IInv, HeapTypes
  <2>3. CASE p = o
    <3>1. CASE k \in WhiteKids(o)
      BY <3>1, <1>2
    <3>2. CASE k \notin WhiteKids(o)
      BY <3>2, <2>1, <2>2, <2>3, <1>2 DEF WhiteKids, Dark
    <3>. QED  BY <3>1, <3>2
  <2>4. CASE p # o
    <3>1. flag[p] = "black"
      BY <2>1, <2>2, <2>4
    <3>. QED  BY <3>1, <2>1, <1>2 DEF IInv, Tricolour
  <2>. QED  BY <2>3, <2>4
<1>4. \A p \in Objects : flag'[p] = "grey" => p \in Queued'
  BY MarkQueue DEF IInv, Tricolour
<1>5. Tricolour'
  BY <1>2, <1>3, <1>4, SameRoots DEF IInv, Tricolour
<1>6. UNCHANGED olist /\ KeepWorld
  OBVIOUS
<1>. QED  BY <1>1, <1>5, <1>6, ColourStep

(* With the queue empty everything reachable is black.                     *)
LEMMA MarkDoneStep == IInv /\ MarkDone => IInv'
<1>. SUFFICES ASSUME IInv, MarkDone PROVE IInv'
  OBVIOUS
<1>. USE DEF MarkDone, GcStep
<1>1. flag' \in [Objects -> Flags] /\ GcTypes' /\ MutexHeld'
  BY DEF IInv, HeapTypes, GcTypes, MutexHeld, KeepWorld, machine, Queued
<1>2. Dark' = Dark
  BY DEF Dark
<1>3. Tricolour'
  BY <1>2, SameRoots DEF IInv, Tricolour, Queued
<1>. QED  BY <1>1, <1>3, ColourStep

-------------------------------------------------------------------------------
(* The sweep.  Marking is complete and the queue is empty, so what is dark *)
(* is black, and white objects are referred to by white objects only.      *)

(* A sequence whose elements all lie in another set is a sequence over it. *)
LEMMA SeqRestrict ==
  ASSUME NEW A, NEW B, NEW s \in Seq(A), Elems(s) \subseteq B
  PROVE  s \in Seq(B)
<1>1. Len(s) \in Nat /\ s \in [1 .. Len(s) -> A] /\ \A i \in 1 .. Len(s) : s[i] \in B
  BY DEF Elems
<1>2. s \in [1 .. Len(s) -> B]
  BY <1>1
<1>. QED  BY <1>1, <1>2, SeqDef

(* Nothing dark is freed.                                                  *)
LEMMA DarkSurvives ==
  ASSUME IInv, Sweep
  PROVE  /\ gq = {} /\ Freed \subseteq olist /\ Freed \cap Dark = {}
         /\ Dark \cap Live \subseteq Live'
         /\ VarRoots \cup FnRoots \cup StackRoots \cup interned \subseteq Live'
         /\ \A o \in alloc : flag[o] = "black" => Kids(o) \subseteq Live'
<1>1. gq = {}
  BY DEF IInv, Tricolour, Sweep, GcStep
<1>2. Freed \subseteq olist /\ Freed \cap Dark = {}
  BY ConstantsAssumption DEF Freed, Unmarked, Dark, IInv, HeapTypes
<1>3. Dark \cap Live \subseteq Live'
  BY <1>2 DEF Sweep, Live
<1>4. VarRoots \cup FnRoots \cup StackRoots \cup interned \subseteq Dark \cap Live
  BY AllLive DEF IInv, Tricolour, Sweep, GcStep, Live
<1>5. \A o \in alloc : flag[o] = "black" => Kids(o) \subseteq Dark \cap Live
  BY AllLive DEF IInv, Tricolour, Sweep, GcStep
<1>. QED  BY <1>1, <1>2, <1>3, <1>4, <1>5

(* Where the sweep leaves an object that it did not free.                  *)
LEMMA SweepKeeps ==
  ASSUME IInv, Sweep, NEW o \in Objects \ Freed
  PROVE  /\ kind'[o] = kind[o] /\ slot'[o] = slot[o] /\ env'[o] = env[o]
         /\ val'[o] = val[o] /\ flag'[o] = flag[o] /\ (o \in alloc' <=> o \in alloc)
BY DEF Sweep, Clear

(* The sweep keeps the heap well typed.                                    *)
LEMMA SweepHeapTypes == IInv /\ Sweep => HeapTypes'
<1>. SUFFICES ASSUME IInv, Sweep PROVE HeapTypes'
  OBVIOUS
<1>1. alloc' \subseteq Objects /\ olist' \subseteq alloc'
  BY DEF IInv, HeapTypes, Sweep, Kept, Freed
<1>2. kind' \in [Objects -> Kinds] /\ slot' \in [Objects -> Refs]
  BY DEF IInv, HeapTypes, Sweep, Clear, Kinds, Refs, NoRefs, Ref
<1>3. env' \in [Objects -> Contexts] /\ val' \in [Objects -> Int] /\ flag' \in [Objects -> Flags]
  BY ConstantsAssumption DEF IInv, HeapTypes, Sweep, Clear, Flags
<1>. QED  BY <1>1, <1>2, <1>3 DEF HeapTypes

(* The sweep keeps the tags of what stays, and the cached numbers.         *)
LEMMA SweepTagged == IInv /\ Sweep => Tagged' /\ CacheLive'
<1>. SUFFICES ASSUME IInv, Sweep PROVE Tagged' /\ CacheLive'
  OBVIOUS
<1>1. \A o \in Freed : kind'[o] = "leaf" /\ slot'[o] = NoRefs
  BY DarkSurvives DEF Sweep, Clear, IInv, HeapTypes
<1>2. \A o \in Objects : kind'[o] \in {"leaf", "num"} => slot'[o] = NoRefs
  BY <1>1, SweepKeeps DEF IInv, Tagged
<1>3. \A o \in alloc' \ olist' : kind'[o] = "num"
  <2>1. SUFFICES ASSUME NEW o \in alloc' \ olist' PROVE kind'[o] = "num"
    OBVIOUS
  <2>2. o \in alloc /\ o \notin Freed /\ (o \in olist => o \in Unmarked)
    BY DEF Sweep, Kept
  <2>3. kind[o] = "num"
    BY <2>2 DEF IInv, Tagged, Freed, Spared
  <2>. QED  BY <2>2, <2>3, SweepKeeps DEF IInv, HeapTypes
<1>4. \A o \in interned' : kind'[o] = "leaf"
  BY <1>1, SweepKeeps DEF IInv, Tagged, TableTypes, Sweep, tables
<1>5. Tagged'
  BY <1>2, <1>3, <1>4 DEF Tagged
<1>6. ASSUME NEW n \in Cacheable, cache'[n] # Nil
      PROVE  cache'[n] \in alloc' /\ kind'[cache'[n]] = "num" /\ val'[cache'[n]] = n
  <2>1. cache[n] \in alloc /\ kind[cache[n]] = "num" /\ val[cache[n]] = n /\ cache' = cache
    BY <1>6 DEF IInv, CacheLive, Sweep, tables
  <2>2. cache[n] \notin Freed
    BY <2>1 DEF Freed, Spared, Cacheable
  <2>. QED  BY <2>1, <2>2, SweepKeeps DEF IInv, HeapTypes
<1>. QED  BY <1>5, <1>6 DEF CacheLive

(* The sweep keeps the frames: what it frees of them is marked dead.       *)
LEMMA SweepFrames == IInv /\ Sweep => StackTypes' /\ FramesLive'
<1>. SUFFICES ASSUME IInv, Sweep PROVE StackTypes' /\ FramesLive'
  OBVIOUS
<1>. DEFINE G(i) == [frames[i] EXCEPT !.dead = @ \cup Losses(frames[i])]
<1>1. /\ frames \in Seq(Frame) /\ frames # << >> /\ Len(frames) \in Nat
      /\ DOMAIN frames = 1 .. Len(frames)
      /\ frames' = [i \in 1 .. Len(frames) |-> G(i)]
  BY DEF IInv, StackTypes, Sweep
<1>2. ASSUME NEW i \in 1 .. Len(frames)
      PROVE  /\ G(i) \in Frame /\ G(i).code = frames[i].code
             /\ G(i).literal = frames[i].literal
             /\ G(i).dead = frames[i].dead \cup Losses(frames[i])
  <2>1. frames[i] \in Frame
    BY <1>1
  <2>. QED  BY <2>1 DEF Frame, Losses
<1>3. ASSUME NEW i \in 1 .. Len(frames)
      PROVE  /\ "chunk" \notin G(i).dead => G(i).code \in Live'
             /\ "literal" \notin G(i).dead => G(i).literal \in Live'
  <2>1. /\ "chunk" \notin frames[i].dead => frames[i].code \in Live
        /\ "literal" \notin frames[i].dead => frames[i].literal \in Live
    BY <1>1 DEF IInv, FramesLive, Elems
  <2>2. Live' = Live \ Freed
    BY ConstantsAssumption DEF Live, Sweep, Freed, Unmarked, IInv, HeapTypes
  <2>. QED  BY <1>2, <2>1, <2>2 DEF Losses, Parts
<1>. HIDE DEF G
<1>4. frames' \in Seq(Frame) /\ Len(frames') = Len(frames) /\ frames' # << >>
  <2>1. frames' \in [1 .. Len(frames) -> Frame]
    BY <1>1, <1>2
  <2>2. frames' \in Seq(Frame) /\ Len(frames') = Len(frames)
    BY <1>1, <2>1, SeqDef
  <2>. QED  BY <1>1, <2>2
<1>5. StackTypes'
  BY <1>4 DEF IInv, StackTypes, Sweep
<1>6. FramesLive'
  BY <1>1, <1>3 DEF FramesLive, Elems
<1>. QED  BY <1>5, <1>6

(* The sweep frees nothing the program can reach.                          *)
LEMMA SweepLive == IInv /\ Sweep => StackLive' /\ TablesLive' /\ HeapLive'
<1>. SUFFICES ASSUME IInv, Sweep PROVE StackLive' /\ TablesLive' /\ HeapLive'
  OBVIOUS
<1>1. StackLive'
  BY DarkSurvives, SeqRestrict DEF IInv, StackLive, StackRoots, Sweep
<1>2. TablesLive'
  <2>1. fns' \in [FnNames -> Live']
    BY DarkSurvives DEF IInv, TablesLive, FnRoots, Sweep, tables
  <2>2. interned' \subseteq alloc'
    <3>1. interned \subseteq alloc /\ interned \cap Freed = {}
      BY DarkSurvives DEF IInv, Tricolour, TablesLive, Sweep, GcStep
    <3>. QED  BY <3>1 DEF Sweep, tables
  <2>3. \A c \in Elems(cstack') : vars'[c] \in [Names -> Live']
    BY DarkSurvives DEF IInv, TablesLive, VarRoots, Sweep, tables
  <2>. QED  BY <2>1, <2>2, <2>3 DEF TablesLive
<1>3. HeapLive'
  <2>1. SUFFICES ASSUME NEW o \in alloc'
                 PROVE  /\ slot'[o] \in [Slots -> Live']
                        /\ kind'[o] = "code" => vars'[env'[o]] \in [Names -> Live']
    BY DEF HeapLive
  <2>2. o \in alloc /\ o \in Objects \ Freed
    BY DEF Sweep, IInv, HeapTypes
  <2>3. slot'[o] = slot[o] /\ kind'[o] = kind[o] /\ vars'[env'[o]] = vars[env[o]]
    BY <2>2, SweepKeeps DEF Sweep, tables
  <2>4. slot[o] \in [Slots -> Live] /\ (kind[o] = "code" => vars[env[o]] \in [Names -> Live])
    BY <2>2 DEF IInv, HeapLive
  <2>5. CASE flag[o] = "white"
    <3>1. kind[o] = "num" /\ slot[o] = NoRefs
      BY <2>2, <2>5 DEF IInv, Tagged, Freed, Spared, Unmarked
    <3>. QED  BY <2>3, <3>1 DEF NoRefs, Live
  <2>6. CASE flag[o] # "white"
    <3>1. flag[o] = "black"
      BY <2>2, <2>6, DarkSurvives DEF IInv, HeapTypes, Flags, Tricolour, Queued
    <3>2. Kids(o) \subseteq Live'
      BY <2>2, <3>1, DarkSurvives
    <3>. QED  BY <2>3, <2>4, <3>2 DEF Kids
  <2>. QED  BY <2>5, <2>6
<1>. QED  BY <1>1, <1>2, <1>3

(* The sweep keeps the invariant.                                          *)
LEMMA SweepStep == IInv /\ Sweep => IInv'
<1>. SUFFICES ASSUME IInv, Sweep PROVE IInv'
  OBVIOUS
<1>1. GcTypes' /\ MutexHeld' /\ TableTypes'
  BY DEF IInv, GcTypes, MutexHeld, TableTypes, Sweep, GcStep, Unlock, tables, Queued
<1>2. Tricolour'
  <2>1. \A o \in Objects : flag'[o] # "grey"
    BY DarkSurvives, SweepKeeps DEF IInv, Tricolour, Sweep, Clear, Queued
  <2>. QED  BY <2>1, DarkSurvives DEF Tricolour, Sweep, GcStep
<1>. QED
  BY <1>1, <1>2, SweepHeapTypes, SweepTagged, SweepFrames, SweepLive DEF IInv

-------------------------------------------------------------------------------
(* The theorems.                                                           *)

(* Every step of either thread keeps the invariant.                        *)
LEMMA NextIInv == IInv /\ [Next]_vars_all => IInv'
<1>. SUFFICES ASSUME IInv, [Next]_vars_all PROVE IInv'
  OBVIOUS
<1>1. CASE VmStep
  BY <1>1, VmInductive
<1>2. CASE GcLock
  BY <1>2, GcLockStep
<1>3. CASE Collect
  BY <1>3, WhitenStep, ScanStep, ScanInternedStep, MarkOneStep, MarkDoneStep, SweepStep
  DEF Collect
<1>4. CASE UNCHANGED vars_all
  <2>. USE <1>4 DEF vars_all, heap, tables, machine, control, gcvars
  <2>1. HeapTypes' /\ TableTypes' /\ StackTypes' /\ GcTypes' /\ MutexHeld'
    BY DEF IInv, HeapTypes, TableTypes, StackTypes, GcTypes, MutexHeld, Queued
  <2>2. Tagged' /\ CacheLive' /\ FramesLive' /\ StackLive' /\ TablesLive' /\ HeapLive'
    BY DEF IInv, Tagged, CacheLive, FramesLive, StackLive, TablesLive, HeapLive, Live, Elems
  <2>3. Dark' = Dark /\ KeepWorld
    BY DEF Dark, KeepWorld
  <2>4. Tricolour'
    BY <2>3, SameRoots DEF IInv, Tricolour, Queued
  <2>. QED  BY <2>1, <2>2, <2>4 DEF IInv
<1>. QED  BY <1>1, <1>2, <1>3, <1>4 DEF Next

(* The inductive invariant holds in every reachable state.                 *)
THEOREM Inductive == Spec => []IInv
BY InitIInv, NextIInv, PTL DEF Spec

(* Every variable of the heap and of both threads keeps its type.          *)
THEOREM TypeCorrect == Spec => []TypeOK
BY Inductive, IInvImplies, PTL

(* gc.c: the collector is between pthread_mutex_lock and unlock exactly    *)
(* when it owns gc_mut, and then the main thread waits inside `exit'.      *)
THEOREM MutualExclusion == Spec => []MutexHeld
BY Inductive, IInvImplies, PTL

(* gc(): no collection, whatever the program and wherever in it the        *)
(* collector gets in, frees an object that the variables, the functions,   *)
(* the stack or the symbol table lead to.                                  *)
THEOREM NoDanglingReference == Spec => []Closed
BY Inductive, IInvImplies, PTL

(* gc.c:230-232 and new_object_long: no number that long_cache shares is   *)
(* ever destroyed, though the cache is not a root.                         *)
THEOREM CachedNumbersLive == Spec => []CacheLive
BY Inductive, IInvImplies, PTL

===============================================================================
