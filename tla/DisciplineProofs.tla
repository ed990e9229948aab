--------------------------- MODULE DisciplineProofs ----------------------------
(***************************************************************************)
(* The main thread as Gc has it keeps the discipline of Stacks, for every  *)
(* program: each of its steps is a step of Stacks or changes no height.    *)
(* What StacksProofs shows of the discipline then holds of the main thread *)
(* too, in particular that an error finds every height it restores.        *)
(***************************************************************************)
EXTENDS GcProofs

M == INSTANCE StacksProofs WITH
  height <- Len(stack), scopes <- Len(cstack),
  calls <- CallsOf(frames), handlers <- HandlersOf(traps)

-------------------------------------------------------------------------------
(* The mapping of frames to calls and of traps to handlers leaves out the  *)
(* first and respects appending and cutting.                               *)

(* Keep, when it cuts indeed.                                              *)
LEMMA KeepCuts ==
  ASSUME NEW S, NEW s \in Seq(S), NEW n \in 0 .. Len(s)
  PROVE  /\ Keep(s, n) = SubSeq(s, 1, n) /\ Keep(s, n) \in Seq(S) /\ Len(Keep(s, n)) = n
         /\ \A i \in 1 .. n : Keep(s, n)[i] = s[i]
<1>1. Keep(s, n) = SubSeq(s, 1, n)
  BY DEF Keep
<1>2. \A i \in 1 .. n : s[i] \in S
  OBVIOUS
<1>. QED  BY <1>1, <1>2

(* The image of well-formed frames is a sequence of calls.                 *)
LEMMA CallsMapped ==
  ASSUME NEW fs \in Seq(Frame), Len(fs) > 0,
         \A i \in 2 .. Len(fs) : CallOf(fs[i]).outer \in Nat
  PROVE  /\ CallsOf(fs) \in Seq(M!Calls) /\ Len(CallsOf(fs)) = Len(fs) - 1
         /\ \A i \in 1 .. Len(fs) - 1 : CallsOf(fs)[i] = CallOf(fs[i + 1])
<1>1. ASSUME NEW i \in 1 .. Len(fs) - 1 PROVE CallOf(fs[i + 1]) \in M!Calls
  <2>1. fs[i + 1] \in Frame /\ i + 1 \in 2 .. Len(fs)
    OBVIOUS
  <2>2. CallOf(fs[i + 1]).outer \in Nat
    BY <2>1
  <2>. QED  BY <2>1, <2>2 DEF CallOf, M!Calls, Frame
<1>. DEFINE n == Len(fs) - 1
<1>2. CallsOf(fs) \in [1 .. n -> M!Calls]
  BY <1>1 DEF CallsOf
<1>3. n \in Nat
  OBVIOUS
<1>4. \A i \in 1 .. n : CallsOf(fs)[i] = CallOf(fs[i + 1])
  BY DEF CallsOf
<1>. HIDE DEF n
<1>5. CallsOf(fs) \in Seq(M!Calls)
  BY <1>2, <1>3, SeqDef
<1>6. Len(CallsOf(fs)) = n
  BY <1>2, <1>3, <1>5, LenProperties
<1>. QED  BY <1>4, <1>5, <1>6 DEF n

(* The image of well-formed traps is a sequence of handlers.               *)
LEMMA HandlersMapped ==
  ASSUME NEW ts \in Seq(Trap), Len(ts) > 0, \A i \in 2 .. Len(ts) : ts[i].depth > 1
  PROVE  /\ HandlersOf(ts) \in Seq(M!Handlers) /\ Len(HandlersOf(ts)) = Len(ts) - 1
         /\ \A i \in 1 .. Len(ts) - 1 : HandlersOf(ts)[i] = HandlerOf(ts[i + 1])
<1>1. ASSUME NEW i \in 1 .. Len(ts) - 1 PROVE HandlerOf(ts[i + 1]) \in M!Handlers
  <2>. DEFINE t == ts[i + 1]
  <2>1. t \in Trap /\ i + 1 \in 2 .. Len(ts)
    OBVIOUS
  <2>2. t.off \in Nat /\ t.lvl \in Nat /\ t.depth \in Nat /\ t.depth > 1
    BY <2>1 DEF Trap
  <2>. HIDE DEF t
  <2>3. t.depth - 1 \in Nat \ {0}
    BY <2>2
  <2>4. HandlerOf(t) \in M!Handlers
    BY <2>2, <2>3 DEF HandlerOf, M!Handlers
  <2>. QED  BY <2>4 DEF t
<1>. DEFINE n == Len(ts) - 1
<1>2. HandlersOf(ts) \in [1 .. n -> M!Handlers]
  BY <1>1 DEF HandlersOf
<1>3. n \in Nat
  OBVIOUS
<1>4. \A i \in 1 .. n : HandlersOf(ts)[i] = HandlerOf(ts[i + 1])
  BY DEF HandlersOf
<1>. HIDE DEF n
<1>5. HandlersOf(ts) \in Seq(M!Handlers)
  BY <1>2, <1>3, SeqDef
<1>6. Len(HandlersOf(ts)) = n
  BY <1>2, <1>3, <1>5, LenProperties
<1>. QED  BY <1>4, <1>5, <1>6 DEF n

(* A frame more is a call more.                                            *)
LEMMA CallsAppended ==
  ASSUME NEW fs \in Seq(Frame), Len(fs) > 0, NEW f \in Frame
  PROVE  CallsOf(Append(fs, f)) = Append(CallsOf(fs), CallOf(f))
BY DEF CallsOf

(* A trap more is a handler more.                                          *)
LEMMA HandlersAppended ==
  ASSUME NEW ts \in Seq(Trap), Len(ts) > 0, NEW t \in Trap
  PROVE  HandlersOf(Append(ts, t)) = Append(HandlersOf(ts), HandlerOf(t))
BY DEF HandlersOf

(* Cutting the frames to n leaves the first n - 1 calls.                   *)
LEMMA CallsCut ==
  ASSUME NEW fs \in Seq(Frame), NEW n \in 1 .. Len(fs)
  PROVE  CallsOf(Keep(fs, n)) = M!Cut(CallsOf(fs), n - 1)
BY KeepCuts DEF CallsOf, M!Cut

(* Cutting the traps to n leaves the first n - 1 handlers.                 *)
LEMMA HandlersCut ==
  ASSUME NEW ts \in Seq(Trap), NEW n \in 1 .. Len(ts)
  PROVE  HandlersOf(Keep(ts, n)) = M!Cut(HandlersOf(ts), n - 1)
BY KeepCuts DEF HandlersOf, M!Cut

-------------------------------------------------------------------------------
(* The invariant: a chunk runs in the context level it was entered with,   *)
(* and a catch form was entered at the level of its chunk.                 *)
Levels ==
  /\ frames[1].lvl = 1 /\ frames[1].base = 0
  /\ \A i \in 2 .. Len(frames) : CallOf(frames[i]).outer = frames[i - 1].lvl
  /\ Len(cstack) = frames[Len(frames)].lvl
  /\ traps[1].depth = 1 /\ traps[1].off = 1 /\ traps[1].lvl = 1
  /\ \A i \in 2 .. Len(traps) : traps[i].depth \in 2 .. Len(frames)
  /\ \A i \in 1 .. Len(traps) : traps[i].lvl = frames[traps[i].depth].lvl

DInv == IInv /\ Levels /\ M!Inv

(* What the machine's state says in the terms of Stacks.                   *)
Depths ==
  /\ Len(frames) \in Nat \ {0} /\ DOMAIN frames = 1 .. Len(frames)
  /\ Len(traps) \in Nat \ {0} /\ DOMAIN traps = 1 .. Len(traps)
  /\ Len(stack) \in Nat /\ Len(cstack) \in Nat
  /\ frames \in Seq(Frame) /\ traps \in Seq(Trap) /\ cstack \in Seq(Contexts)
  /\ stack \in Seq(Ref)
  /\ \A i \in 1 .. Len(frames) : /\ frames[i].base \in Nat /\ frames[i].argc \in Nat
                                 /\ frames[i].argc <= frames[i].base /\ frames[i].lvl \in Nat
  /\ \A i \in 1 .. Len(traps) : /\ traps[i].off \in Nat /\ traps[i].lvl \in Nat
                                /\ traps[i].depth \in Nat \ {0}

(* The types of the control stacks, read off their elements.               *)
LEMMA HaveDepths == IInv => Depths
<1>. SUFFICES ASSUME IInv PROVE Depths
  OBVIOUS
<1>1. StackTypes /\ stack \in Seq(Ref)
  BY LiveRef DEF IInv, StackLive
<1>2. Len(frames) \in Nat \ {0} /\ Len(traps) \in Nat \ {0}
  BY <1>1, HereTypes
<1>3. \A i \in 1 .. Len(frames) : frames[i] \in Frame
  BY <1>1 DEF StackTypes
<1>4. \A i \in 1 .. Len(traps) : traps[i] \in Trap
  BY <1>1 DEF StackTypes
<1>5. \A i \in 1 .. Len(frames) : /\ frames[i].base \in Nat /\ frames[i].argc \in Nat
                                  /\ frames[i].argc <= frames[i].base /\ frames[i].lvl \in Nat
  BY <1>3 DEF Frame
<1>6. \A i \in 1 .. Len(traps) : /\ traps[i].off \in Nat /\ traps[i].lvl \in Nat
                                 /\ traps[i].depth \in Nat \ {0}
  BY <1>4 DEF Trap
<1>. QED  BY <1>1, <1>2, <1>5, <1>6 DEF Depths, StackTypes

(* main's frame and trap have no image; the others have theirs.            *)
LEMMA Mapped ==
  ASSUME IInv, Levels
  PROVE  /\ CallsOf(frames) \in Seq(M!Calls) /\ Len(CallsOf(frames)) = Len(frames) - 1
         /\ \A i \in 1 .. Len(frames) - 1 : CallsOf(frames)[i] = CallOf(frames[i + 1])
         /\ HandlersOf(traps) \in Seq(M!Handlers) /\ Len(HandlersOf(traps)) = Len(traps) - 1
         /\ \A i \in 1 .. Len(traps) - 1 : HandlersOf(traps)[i] = HandlerOf(traps[i + 1])
<1>1. Depths
  BY HaveDepths
<1>2. \A i \in 2 .. Len(frames) : CallOf(frames[i]).outer \in Nat
  BY <1>1 DEF Levels, Depths
<1>3. \A i \in 2 .. Len(traps) : traps[i].depth > 1
  BY <1>1 DEF Levels, Depths
<1>4. frames \in Seq(Frame) /\ Len(frames) > 0 /\ traps \in Seq(Trap) /\ Len(traps) > 0
  BY <1>1 DEF Depths
<1>5. /\ CallsOf(frames) \in Seq(M!Calls) /\ Len(CallsOf(frames)) = Len(frames) - 1
      /\ \A i \in 1 .. Len(frames) - 1 : CallsOf(frames)[i] = CallOf(frames[i + 1])
  BY <1>2, <1>4, CallsMapped
<1>6. /\ HandlersOf(traps) \in Seq(M!Handlers) /\ Len(HandlersOf(traps)) = Len(traps) - 1
      /\ \A i \in 1 .. Len(traps) - 1 : HandlersOf(traps)[i] = HandlerOf(traps[i + 1])
  BY <1>3, <1>4, HandlersMapped
<1>. QED  BY <1>5, <1>6

(* The floors of Stacks, in the terms of the machine.                      *)
View ==
  /\ M!Floor = Floor /\ Floor \in Nat /\ Floor <= Len(stack)
  /\ M!ScopeFloor = Len(cstack) /\ Len(cstack) >= 1
  /\ CallsOf(frames) = << >> <=> Len(frames) = 1
  /\ Len(frames) > 1 => /\ M!Here = CallOf(Here)
                        /\ M!Catching <=> LastOf(traps).depth = Len(frames)
                        /\ M!Catching => Len(traps) > 1

(* The two floors of an instruction are the floors of Stacks.              *)
LEMMA HaveView == DInv => View
<1>. SUFFICES ASSUME DInv PROVE View
  OBVIOUS
<1>. DEFINE F == Len(frames)
            T == Len(traps)
<1>1. Depths /\ IInv /\ Levels /\ M!Inv
  BY HaveDepths DEF DInv
<1>2. /\ CallsOf(frames) \in Seq(M!Calls) /\ Len(CallsOf(frames)) = F - 1
      /\ \A i \in 1 .. F - 1 : CallsOf(frames)[i] = CallOf(frames[i + 1])
      /\ HandlersOf(traps) \in Seq(M!Handlers) /\ Len(HandlersOf(traps)) = T - 1
      /\ \A i \in 1 .. T - 1 : HandlersOf(traps)[i] = HandlerOf(traps[i + 1])
  BY <1>1, Mapped
<1>3. M!Floor \in Nat /\ M!Floor <= Len(stack)
  BY <1>1, M!Floors
<1>4. F \in Nat \ {0} /\ T \in Nat \ {0} /\ Here = frames[F] /\ LastOf(traps) = traps[T]
  BY <1>1 DEF Depths, Here, LastOf
<1>5. (CallsOf(frames) = << >> <=> F = 1) /\ (HandlersOf(traps) = << >> <=> T = 1)
  BY <1>2, <1>4, EmptySeq
<1>6. CASE F = 1
  <2>1. T = 1
    <3>. SUFFICES ASSUME T > 1 PROVE FALSE
      BY <1>4
    <3>. QED  BY <1>1, <1>4, <1>6 DEF Levels
  <2>2. Floor = 0 /\ Len(cstack) = 1
    BY <1>1, <1>4, <1>6, <2>1 DEF Levels, Floor
  <2>3. M!Floor = 0 /\ M!ScopeFloor = 1
    BY <1>5, <1>6, <2>1 DEF M!Floor, M!ScopeFloor, M!Catching, M!Here, M!Main
  <2>. QED  BY <1>3, <1>5, <1>6, <2>2, <2>3 DEF View
<1>7. CASE F > 1
  <2>1. M!Here = CallOf(Here) /\ F - 1 \in 1 .. F - 1 /\ CallsOf(frames)[F - 1] = CallOf(Here)
    BY <1>2, <1>4, <1>5, <1>7 DEF M!Here
  <2>2. T > 1 => M!Handler = HandlerOf(traps[T])
    BY <1>2, <1>4 DEF M!Handler
  <2>3. M!Catching <=> T > 1 /\ traps[T].depth = F
    <3>1. T > 1 => M!Handler.depth = traps[T].depth - 1 /\ traps[T].depth \in Nat
      BY <1>1, <1>4, <2>2 DEF HandlerOf, Depths
    <3>. HIDE DEF T, F
    <3>2. HandlersOf(traps) # << >> <=> T > 1
      BY <1>4, <1>5
    <3>. QED  BY <1>2, <1>4, <3>1, <3>2 DEF M!Catching
  <2>4. M!Catching <=> traps[T].depth = F
    BY <1>1, <1>4, <1>7, <2>3 DEF Levels
  <2>5. M!Here.base = frames[F].base /\ M!Here.own = frames[F].lvl
    BY <1>4, <2>1 DEF CallOf
  <2>8. Len(cstack) >= 1
    <3>. DEFINE c == CallsOf(frames)[1]
    <3>1. 1 \in DOMAIN CallsOf(frames) /\ c \in M!Calls
      BY <1>2, <1>4, <1>7
    <3>2. c.outer = 1 /\ c.outer <= c.own /\ c.own <= Len(cstack)
      BY <1>1, <1>4, <1>5, <1>7, <3>1 DEF M!Inv, M!Nested, M!Clean, M!CallsNest
    <3>3. c.own \in Nat /\ Len(cstack) \in Nat
      BY <1>1, <3>1 DEF M!Calls, Depths
    <3>. HIDE DEF c
    <3>. QED  BY <3>2, <3>3
  <2>6. CASE M!Catching
    <3>1. M!Floor = traps[T].off /\ M!ScopeFloor = traps[T].lvl
      BY <2>2, <2>3, <2>6 DEF M!Floor, M!ScopeFloor, HandlerOf
    <3>2. traps[T].lvl = Len(cstack)
      BY <1>1, <1>4, <2>3, <2>6 DEF Levels
    <3>3. frames[F].base <= traps[T].off
      BY <1>1, <1>2, <1>4, <2>1, <2>5, <3>1, M!Floors
    <3>4. Floor = traps[T].off
      BY <1>1, <1>4, <2>3, <2>6, <3>3 DEF Floor, Depths
    <3>. QED  BY <1>3, <1>4, <1>5, <1>7, <2>1, <2>3, <2>4, <2>6, <2>8, <3>1, <3>2, <3>4 DEF View
  <2>7. CASE ~M!Catching
    <3>1. M!Floor = frames[F].base /\ M!ScopeFloor = frames[F].lvl
      BY <2>5, <2>7 DEF M!Floor, M!ScopeFloor
    <3>2. Floor = frames[F].base
      BY <1>4, <2>3, <2>7 DEF Floor
    <3>3. frames[F].lvl = Len(cstack)
      BY <1>1 DEF Levels
    <3>. QED  BY <1>3, <1>4, <1>5, <1>7, <2>1, <2>4, <2>7, <2>8, <3>1, <3>2, <3>3 DEF View
  <2>. QED  BY <2>6, <2>7
<1>8. F = 1 \/ F > 1
  BY <1>1 DEF Depths
<1>. QED  BY <1>6, <1>7, <1>8

-------------------------------------------------------------------------------
(* Steps.  Each is a step of Stacks, or stutters, and keeps the levels.    *)

Implements == [M!Next]_(M!stacks) /\ Levels'

(* Instructions that move values and leave the control stacks alone.       *)
LEMMA ValueStep ==
  ASSUME DInv, UNCHANGED control, Len(stack') \in Nat, Len(stack') >= Floor
  PROVE  Implements
<1>1. View /\ Depths /\ Levels
  BY HaveView, HaveDepths DEF DInv
<1>2. cstack' = cstack /\ frames' = frames /\ traps' = traps
  BY DEF control
<1>3. CallsOf(frames)' = CallsOf(frames) /\ HandlersOf(traps)' = HandlersOf(traps)
      /\ Len(stack)' = Len(stack') /\ Len(cstack)' = Len(cstack)
  BY <1>2
<1>4. M!Work
  BY <1>1, <1>3 DEF M!Work, View, Depths
<1>5. Levels'
  BY <1>1, <1>2 DEF Levels
<1>. QED  BY <1>4, <1>5 DEF Implements, M!Next

(* Steps that change no height.                                            *)
LEMMA IdleStep ==
  ASSUME DInv, UNCHANGED <<stack, control>>
  PROVE  Implements
<1>1. Levels /\ stack' = stack /\ cstack' = cstack /\ frames' = frames /\ traps' = traps
  BY DEF control, DInv
<1>2. UNCHANGED M!stacks
  BY <1>1 DEF M!stacks
<1>3. Levels'
  BY <1>1 DEF Levels
<1>. QED  BY <1>2, <1>3 DEF Implements

(* What pushing and popping does to the height.                            *)
LEMMA DropHeight ==
  ASSUME DInv, NEW n \in Nat, CanPop(n)
  PROVE  /\ Drop(n) \in Seq(Ref) /\ Len(Drop(n)) = Len(stack) - n
         /\ Len(Drop(n)) \in Nat /\ Len(Drop(n)) >= Floor
<1>1. View /\ Depths /\ stack \in Seq(Ref)
  BY HaveView, HaveDepths DEF DInv, Depths
<1>2. Len(stack) - n \in 0 .. Len(stack) /\ Len(stack) - n >= Floor
  BY <1>1 DEF CanPop, View, Depths
<1>. QED  BY <1>1, <1>2, KeepCuts DEF Drop

(* __push adds one value.                                                  *)
LEMMA PushHeight ==
  ASSUME NEW s \in Seq(Ref), NEW x, Push(s, x)
  PROVE  Len(stack') = Len(s) + 1
BY DEF Push

(* Every instruction of the heap pops what it may and pushes at most one.  *)
LEMMA PushOnly ==
  ASSUME DInv, UNCHANGED control, NEW x, Push(stack, x)
  PROVE  Implements
<1>1. View /\ Depths
  BY HaveView, HaveDepths DEF DInv
<1>2. Len(stack') = Len(stack) + 1
  BY <1>1, PushHeight DEF Depths
<1>3. Len(stack') \in Nat /\ Len(stack') >= Floor
  BY <1>1, <1>2 DEF View, Depths
<1>. QED  BY <1>3, ValueStep

(* An instruction that pops n values and pushes one.                       *)
LEMMA PopPush ==
  ASSUME DInv, UNCHANGED control, NEW n \in Nat, CanPop(n), NEW x, Push(Drop(n), x)
  PROVE  Implements
<1>1. View /\ Drop(n) \in Seq(Ref) /\ Len(Drop(n)) \in Nat /\ Len(Drop(n)) >= Floor
  BY HaveView, DropHeight
<1>2. Len(stack') = Len(Drop(n)) + 1
  BY <1>1, PushHeight
<1>3. Len(stack') \in Nat /\ Len(stack') >= Floor
  BY <1>1, <1>2 DEF View
<1>. QED  BY <1>3, ValueStep

(* An instruction that pops one value.                                     *)
LEMMA PopOne ==
  ASSUME DInv, UNCHANGED control, CanPop(1), stack' = Drop(1)
  PROVE  Implements
BY DropHeight, ValueStep

Instructions ==
  \/ PushArg \/ PopValue \/ NewLeaf \/ Intern \/ Cons
  \/ \E s \in Slots : Get(s) \/ Put(s)
  \/ \E n \in Longs : NewLong(n)
  \/ \E n \in Names : BindVar(n) \/ Resolve(n)
  \/ \E n \in FnNames : DefineFn(n)
  \/ Lambda

(* Every instruction on values is work of the running chunk.               *)
LEMMA InstructionSteps == DInv /\ Instructions => Implements
<1>. SUFFICES ASSUME DInv, Instructions PROVE Implements
  OBVIOUS
<1>1. UNCHANGED control
  BY DEF Instructions, PushArg, PopValue, NewLeaf, Intern, Cons, Get, Put, NewLong,
         BindVar, Resolve, DefineFn, Lambda, Stay
<1>2. CASE PushArg \/ NewLeaf \/ Intern \/ (\E n \in Longs : NewLong(n))
           \/ (\E n \in Names : Resolve(n))
  <2>1. PICK x : Push(stack, x)
    BY <1>2 DEF PushArg, NewLeaf, Intern, NewLong, Resolve
  <2>. QED  BY <1>1, <2>1, PushOnly
<1>3. CASE PopValue \/ (\E s \in Slots : Put(s)) \/ (\E n \in Names : BindVar(n))
           \/ (\E n \in FnNames : DefineFn(n))
  <2>1. stack' = Drop(1)
    BY <1>3 DEF PopValue, Put, BindVar, DefineFn
  <2>2. CanPop(1)
    <3>1. CanPop(2) => CanPop(1)
      BY HaveView, HaveDepths DEF DInv, View, Depths, CanPop
    <3>. QED  BY <1>3, <3>1 DEF PopValue, Put, BindVar, DefineFn
  <2>. QED  BY <1>1, <2>1, <2>2, PopOne
<1>4. CASE Cons
  <2>1. PICK x : Push(Drop(2), x)
    BY <1>4 DEF Cons
  <2>2. CanPop(2)
    BY <1>4 DEF Cons
  <2>. QED  BY <1>1, <2>1, <2>2, PopPush
<1>5. CASE Lambda \/ (\E s \in Slots : Get(s))
  <2>1. CanPop(1) /\ \E x : Push(Drop(1), x)
    BY <1>5 DEF Lambda, Get
  <2>. QED  BY <1>1, <2>1, PopPush
<1>. QED  BY <1>2, <1>3, <1>4, <1>5 DEF Instructions

(* call() and vm_eval(): a chunk is entered where its values will begin.   *)
LEMMA EnterStep ==
  ASSUME DInv, NEW f \in Frame, frames' = Append(frames, f), UNCHANGED traps,
         NEW a \in Nat, CanPop(1 + a), stack' = Drop(1),
         f.base = Len(stack) - 1, f.argc = a,
         f.lvl \in {Len(cstack), Len(cstack) + 1}, Len(cstack') = f.lvl,
         CallOf(f).outer = Len(cstack)
  PROVE  Implements
<1>1. View /\ Depths /\ Levels /\ IInv
  BY HaveView, HaveDepths DEF DInv
<1>2. /\ Len(stack) - 1 \in Floor .. Len(stack) /\ Len(stack) - 1 - a \in Floor .. Len(stack) - 1
      /\ Len(stack) - 1 \in Nat
  BY <1>1 DEF CanPop, View, Depths
<1>3. Len(stack') = Len(stack) - 1
  <2>1. CanPop(1)
    BY <1>1, <1>2 DEF CanPop, View
  <2>. QED  BY <2>1, DropHeight
<1>4. CallOf(f) = [base |-> Len(stack) - 1, back |-> Len(stack) - 1 - a, own |-> f.lvl,
                   outer |-> Len(cstack)]
  BY DEF CallOf
<1>5. CallsOf(frames)' = Append(CallsOf(frames), CallOf(f))
  BY <1>1, CallsAppended DEF Depths
<1>6. HandlersOf(traps)' = HandlersOf(traps)
  OBVIOUS
<1>7. M!Call
  BY <1>1, <1>2, <1>3, <1>4, <1>5, <1>6 DEF M!Call, View
<1>8. Levels'
  <2>1. /\ Len(frames') = Len(frames) + 1 /\ frames'[Len(frames) + 1] = f
        /\ \A i \in 1 .. Len(frames) : frames'[i] = frames[i]
    BY <1>1, AppendProp DEF Depths
  <2>2. frames'[1].lvl = 1 /\ frames'[1].base = 0
    BY <1>1, <2>1 DEF Levels, Depths
  <2>3. ASSUME NEW i \in 2 .. Len(frames')
        PROVE  CallOf(frames'[i]).outer = frames'[i - 1].lvl
    <3>1. CASE i = Len(frames) + 1
      <4>1. frames'[i] = f /\ i - 1 = Len(frames) /\ Len(frames) \in 1 .. Len(frames)
        BY <1>1, <2>1, <3>1 DEF Depths
      <4>. QED  BY <1>1, <2>1, <4>1 DEF Levels
    <3>2. CASE i \in 2 .. Len(frames)
      BY <1>1, <2>1, <3>2 DEF Levels, Depths
    <3>. QED  BY <1>1, <2>1, <3>1, <3>2 DEF Depths
  <2>4. Len(cstack') = frames'[Len(frames')].lvl
    BY <2>1
  <2>5. \A i \in 1 .. Len(traps) : traps[i].depth \in 1 .. Len(frames)
    BY <1>1 DEF Levels, Depths
  <2>6. \A i \in 1 .. Len(traps) : traps[i].lvl = frames'[traps[i].depth].lvl
    BY <1>1, <2>1, <2>5 DEF Levels
  <2>7. \A i \in 2 .. Len(traps) : traps[i].depth \in 2 .. Len(frames')
    BY <1>1, <2>1 DEF Levels, Depths
  <2>. QED  BY <1>1, <2>2, <2>3, <2>4, <2>6, <2>7 DEF Levels
<1>. QED  BY <1>7, <1>8 DEF Implements, M!Next

(* call and vm_eval enter a chunk as EnterStep describes.                  *)
LEMMA CallSteps == DInv /\ (Eval \/ \E a \in 0 .. 1 : Call(a)) => Implements
<1>. SUFFICES ASSUME DInv, Eval \/ \E a \in 0 .. 1 : Call(a) PROVE Implements
  OBVIOUS
<1>1. View /\ Depths /\ Levels /\ IInv /\ stack \in Seq(Ref)
  BY HaveView, HaveDepths DEF DInv, Depths
<1>2. CASE Eval
  <2>1. PICK x \in Literals(Top) :
          frames' = Append(frames, [code |-> Nil, literal |-> x, base |-> Len(stack) - 1,
                                    argc |-> 0, lvl |-> Len(cstack), dead |-> {}])
    BY <1>2 DEF Eval
  <2>. DEFINE f == [code |-> Nil, literal |-> x, base |-> Len(stack) - 1,
                    argc |-> 0, lvl |-> Len(cstack), dead |-> {}]
  <2>2. CanPop(1) /\ stack' = Drop(1) /\ traps' = traps /\ cstack' = cstack
    BY <1>2 DEF Eval
  <2>3. Len(stack) - 1 \in Nat /\ Top \in Live
    BY <1>1, <2>2, PopTypes DEF IInv, StackLive
  <2>4. x \in Live
    BY <1>1, <2>3, LiteralsLive
  <2>5. f \in Frame
    BY <1>1, <2>3, <2>4, LiveRef DEF Frame, Depths, Ref, IInv
  <2>6. f.base = Len(stack) - 1 /\ f.argc = 0 /\ f.lvl = Len(cstack) /\ CallOf(f).outer = Len(cstack)
    BY DEF CallOf
  <2>. HIDE DEF f
  <2>7. frames' = Append(frames, f)
    BY <2>1 DEF f
  <2>8. 0 \in Nat /\ CanPop(1 + 0)
    BY <2>2
  <2>. QED  BY <2>2, <2>5, <2>6, <2>7, <2>8, EnterStep
<1>3. ASSUME NEW a \in 0 .. 1, Call(a) PROVE Implements
  <2>. DEFINE f == [code |-> Top, literal |-> Nil, base |-> Len(stack) - 1,
                    argc |-> a, lvl |-> Len(cstack) + 1, dead |-> {}]
  <2>1. /\ frames' = Append(frames, f) /\ CanPop(1 + a) /\ stack' = Drop(1) /\ traps' = traps
        /\ cstack' = Append(cstack, env[Top]) /\ Top # Nil
    BY <1>3 DEF Call
  <2>2. Len(stack) - (1 + a) \in Nat /\ Top \in Ref /\ a \in Nat
    BY <1>1, <2>1, PopTypes DEF IInv
  <2>3. f \in Frame
    BY <1>1, <2>2 DEF Frame, Depths, Ref
  <2>4. /\ f.base = Len(stack) - 1 /\ f.argc = a /\ f.lvl = Len(cstack) + 1
        /\ CallOf(f).outer = Len(cstack)
    BY <1>1, <2>1 DEF CallOf, Depths
  <2>. HIDE DEF f
  <2>5. Len(cstack') = f.lvl
    BY <1>1, <2>1, <2>4 DEF Depths
  <2>. QED  BY <2>1, <2>2, <2>3, <2>4, <2>5, EnterStep
<1>. QED  BY <1>2, <1>3

(* What a cut of the active chunks and catch forms leaves of the levels.   *)
LEMMA LevelsCut ==
  ASSUME IInv, Levels, NEW n \in 1 .. Len(frames), NEW m \in 1 .. Len(traps),
         frames' = Keep(frames, n), traps' = Keep(traps, m),
         Len(cstack') = frames[n].lvl, \A i \in 2 .. m : traps[i].depth <= n
  PROVE  Levels'
<1>1. Depths
  BY HaveDepths
<1>2. Len(frames') = n /\ \A i \in 1 .. n : frames'[i] = frames[i]
  <2>1. frames \in Seq(Frame) /\ n \in 0 .. Len(frames)
    BY <1>1 DEF Depths
  <2>. QED  BY <2>1, KeepCuts
<1>3. Len(traps') = m /\ \A i \in 1 .. m : traps'[i] = traps[i]
  <2>1. traps \in Seq(Trap) /\ m \in 0 .. Len(traps)
    BY <1>1 DEF Depths
  <2>. QED  BY <2>1, KeepCuts
<1>4. \A i \in 2 .. n : CallOf(frames'[i]).outer = frames'[i - 1].lvl
  BY <1>1, <1>2 DEF Levels, Depths
<1>5. \A i \in 2 .. m : traps[i].depth \in 2 .. n
  BY <1>1 DEF Levels, Depths
<1>6. \A i \in 1 .. m : traps'[i].lvl = frames'[traps'[i].depth].lvl
  <2>1. ASSUME NEW i \in 1 .. m PROVE traps[i].depth \in 1 .. n
    BY <1>1, <1>5 DEF Levels
  <2>. QED  BY <1>1, <1>2, <1>3, <2>1 DEF Levels, Depths
<1>7. 1 \in 1 .. m /\ 1 \in 1 .. n
  BY <1>1 DEF Depths
<1>8. traps'[1] = traps[1] /\ frames'[1] = frames[1] /\ frames'[n] = frames[n]
  BY <1>2, <1>3, <1>7
<1>9. /\ frames'[1].lvl = 1 /\ frames'[1].base = 0
      /\ traps'[1].depth = 1 /\ traps'[1].off = 1 /\ traps'[1].lvl = 1
      /\ Len(cstack') = frames'[Len(frames')].lvl
  BY <1>2, <1>8 DEF Levels
<1>10. \A i \in 2 .. Len(traps') : traps'[i].depth \in 2 .. Len(frames')
  BY <1>2, <1>3, <1>5
<1>. QED  BY <1>2, <1>3, <1>4, <1>6, <1>9, <1>10 DEF Levels

(* exit: the chunk has no catch form left when it returns.                 *)
LEMMA ReturnImplements == DInv /\ Return => Implements
<1>. SUFFICES ASSUME DInv, Return PROVE Implements
  OBVIOUS
<1>1. View /\ Depths /\ Levels /\ IInv /\ M!Inv
  BY HaveView, HaveDepths DEF DInv
<1>2. CASE Len(frames) = 1
  <2>0. Len(traps) = 1
    <3>. SUFFICES ASSUME Len(traps) > 1 PROVE FALSE
      BY <1>1 DEF Depths
    <3>. QED  BY <1>1, <1>2 DEF Levels, Depths
  <2>1. stack' = << >> /\ UNCHANGED control
    <3>1. Len(stack) = 1
      BY <1>1, <1>2 DEF Return, AtExit, Levels, Here, LastOf
    <3>2. [traps EXCEPT ![1].off = 1] = traps
      <4>1. traps[1] \in Trap /\ traps[1].off = 1
        <5>1. 1 \in DOMAIN traps
          BY <2>0
        <5>2. traps \in Seq(Trap) /\ traps[1].off = 1
          BY <1>1 DEF Depths, Levels
        <5>. QED  BY <5>1, <5>2
      <4>2. [traps[1] EXCEPT !.off = 1] = traps[1]
        BY <4>1 DEF Trap
      <4>. QED  BY <1>1, <2>0, <4>2 DEF Depths
    <3>3. traps' = [traps EXCEPT ![1].off = 1] /\ stack' = << >> /\ UNCHANGED <<frames, cstack>>
      BY <1>2, <2>0, <3>1 DEF Return
    <3>. QED  BY <3>2, <3>3 DEF control
  <2>2. Floor <= 0
    BY <1>1, <1>2, <2>0 DEF Levels, Floor, Here, LastOf
  <2>3. Len(stack') = 0
    BY <2>1
  <2>. QED  BY <1>1, <2>1, <2>2, <2>3, ValueStep DEF View
<1>3. CASE Len(frames) > 1
  <2>. DEFINE F == Len(frames)
              back == Here.base - Here.argc
  <2>1. /\ F \in 2 .. F /\ F - 1 \in 1 .. F /\ Here = frames[F]
        /\ Here.base \in Nat /\ Here.argc \in Nat /\ Here.argc <= Here.base /\ Here.lvl \in Nat
    BY <1>1, <1>3 DEF Depths, Here, LastOf
  <2>2. /\ Len(stack) = Here.base + 1
        /\ LastOf(traps).depth < F \/ F = 1
    BY DEF Return, AtExit
  <2>3. /\ stack' = Append(Keep(stack, back), Top)
        /\ frames' = Keep(frames, F - 1)
        /\ cstack' = IF Here.code = Nil THEN cstack ELSE Keep(cstack, Len(cstack) - 1)
        /\ traps' = traps
    <3>1. F \in Nat /\ F > 1
      BY <1>1, <1>3 DEF Depths
    <3>2. F # 1
      <4>. HIDE DEF F
      <4>. QED  BY <3>1
    <3>3. ~(Len(frames) = 1)
      BY <3>2
    <3>. QED  BY <3>3, Zenon DEF Return
  <2>4. ~M!Catching /\ M!Here = CallOf(Here)
    <3>1. LastOf(traps).depth # F
      <4>1. F \in Nat /\ F > 1
        BY <1>1, <1>3 DEF Depths
      <4>2. LastOf(traps).depth \in Nat
        BY <1>1 DEF Depths, LastOf
      <4>. HIDE DEF F
      <4>. QED  BY <2>2, <4>1, <4>2
    <3>. QED  BY <1>1, <1>3, <3>1 DEF View
  <2>5. back \in 0 .. Len(stack) /\ back \in Nat
    BY <2>1, <2>2
  <2>6. Len(stack') = CallOf(Here).back + 1
    <3>. HIDE DEF back
    <3>1. Keep(stack, back) \in Seq(Ref) /\ Len(Keep(stack, back)) = back
      BY <1>1, <2>5, KeepCuts DEF Depths
    <3>2. CallOf(Here).back = back
      BY DEF CallOf, back
    <3>. QED  BY <2>3, <3>1, <3>2
  <2>7. Here.lvl = Len(cstack)
    BY <1>1, <2>1 DEF Levels
  <2>8. Len(cstack') = CallOf(Here).outer
    <3>1. Len(cstack) - 1 \in 0 .. Len(cstack) /\ cstack \in Seq(Contexts)
      BY <1>1 DEF View, Depths
    <3>2. Len(Keep(cstack, Len(cstack) - 1)) = Len(cstack) - 1
      BY <3>1, KeepCuts
    <3>. QED  BY <2>3, <2>7, <3>2 DEF CallOf
  <2>9. CallsOf(frames)' = M!Cut(CallsOf(frames), Len(CallsOf(frames)) - 1)
    <3>1. Len(CallsOf(frames)) = F - 1
      BY <1>1, Mapped
    <3>2. CallsOf(Keep(frames, F - 1)) = M!Cut(CallsOf(frames), F - 1 - 1)
      BY <1>1, <2>1, CallsCut DEF Depths
    <3>. QED  BY <2>3, <3>1, <3>2
  <2>10. M!Return
    <3>1. Len(stack) = CallOf(Here).base + 1 /\ Len(cstack) = CallOf(Here).own
      BY <2>2, <2>7 DEF CallOf
    <3>2. CallsOf(frames) # << >>
      BY <1>1, <1>3 DEF View, Depths
    <3>. QED
      BY <2>3, <2>4, <2>6, <2>8, <2>9, <3>1, <3>2 DEF M!Return
  <2>11. Levels'
    <3>1. \A i \in 2 .. Len(traps) : traps[i].depth <= F - 1
      <4>. DEFINE T == Len(traps)
                  hs == HandlersOf(traps)
      <4>1. /\ \A i \in DOMAIN hs : hs[i].depth < Len(CallsOf(frames))
            /\ DOMAIN hs = 1 .. T - 1 /\ Len(CallsOf(frames)) = F - 1
            /\ \A i \in 1 .. T - 1 : hs[i] = HandlerOf(traps[i + 1])
        BY <1>1, <2>4, M!Floors, Mapped
      <4>. HIDE DEF hs
      <4>2. ASSUME NEW i \in 2 .. T PROVE traps[i].depth <= F - 1
        <5>1. i - 1 \in 1 .. T - 1 /\ (i - 1) + 1 = i /\ traps[i].depth \in Nat
          BY <1>1 DEF Depths
        <5>2. HandlerOf(traps[i]).depth < F - 1
          BY <4>1, <5>1
        <5>3. traps[i].depth - 1 < F - 1
          BY <5>2 DEF HandlerOf
        <5>. QED  BY <1>1, <5>1, <5>3 DEF Depths
      <4>. QED  BY <4>2
    <3>2. traps' = Keep(traps, Len(traps))
      <4>1. Keep(traps, Len(traps)) = traps
        BY <1>1 DEF Depths, Keep
      <4>. QED  BY <2>3, <4>1
    <3>3. CallOf(frames[F]).outer = frames[F - 1].lvl
      BY <1>1, <2>1 DEF Levels
    <3>4. Len(cstack') = frames[F - 1].lvl
      BY <2>1, <2>8, <3>3
    <3>5. Len(traps) \in 1 .. Len(traps)
      BY <1>1 DEF Depths
    <3>. QED  BY <1>1, <2>1, <2>3, <3>1, <3>2, <3>4, <3>5, LevelsCut
  <2>. QED  BY <2>10, <2>11 DEF Implements, M!Next
<1>. QED  BY <1>1, <1>2, <1>3 DEF Depths

(* catch and pop_catch.                                                    *)
LEMMA CatchImplements == DInv /\ Catch => Implements
<1>. SUFFICES ASSUME DInv, Catch PROVE Implements
  OBVIOUS
<1>. DEFINE t == [catcher |-> Top, off |-> Len(stack) - 1, lvl |-> Len(cstack),
                  depth |-> Len(frames)]
<1>1. View /\ Depths /\ Levels /\ IInv
  BY HaveView, HaveDepths DEF DInv
<1>2. /\ Len(frames) > 1 /\ CanPop(1) /\ traps' = Append(traps, t)
      /\ stack' = Append(Drop(1), Nil) /\ cstack' = cstack /\ frames' = frames
  BY DEF Catch, UserCode
<1>3. /\ Drop(1) \in Seq(Ref) /\ Len(Drop(1)) = Len(stack) - 1
      /\ Len(stack) - 1 \in Floor .. Len(stack) /\ Len(stack) - 1 \in Nat /\ Top \in Ref
  BY <1>1, <1>2, DropHeight, PopTypes DEF View, Depths, IInv
<1>4. Len(stack') = (Len(stack) - 1) + 1
  BY <1>2, <1>3
<1>5. t \in Trap
  BY <1>1, <1>3 DEF Trap, Depths
<1>6. HandlersOf(traps)' = Append(HandlersOf(traps), HandlerOf(t))
  <2>. HIDE DEF t
  <2>1. traps \in Seq(Trap) /\ Len(traps) > 0
    BY <1>1 DEF Depths
  <2>2. HandlersOf(Append(traps, t)) = Append(HandlersOf(traps), HandlerOf(t))
    BY <1>5, <2>1, HandlersAppended
  <2>. QED  BY <1>2, <2>2
<1>7. HandlerOf(t) = [off |-> Len(stack) - 1, scopes |-> Len(cstack), depth |-> Len(CallsOf(frames))]
  BY <1>1, Mapped DEF HandlerOf
<1>8. M!Catch
  <2>1. CallsOf(frames) # << >> /\ CallsOf(frames)' = CallsOf(frames)
    BY <1>1, <1>2 DEF View, Depths
  <2>. QED  BY <1>1, <1>2, <1>3, <1>4, <1>6, <1>7, <2>1 DEF M!Catch, View
<1>9. Levels'
  <2>. HIDE DEF t
  <2>1. /\ Len(traps') = Len(traps) + 1 /\ traps'[Len(traps) + 1] = t
        /\ \A i \in 1 .. Len(traps) : traps'[i] = traps[i]
    BY <1>1, <1>2, <1>5, AppendProp DEF Depths
  <2>2. t.depth = Len(frames) /\ t.lvl = Len(cstack)
    BY DEF t
  <2>3. ASSUME NEW i \in 1 .. Len(traps')
        PROVE  i = Len(traps) + 1 \/ i \in 1 .. Len(traps)
    BY <1>1, <2>1 DEF Depths
  <2>4. ASSUME NEW i \in 2 .. Len(traps') PROVE traps'[i].depth \in 2 .. Len(frames)
    <3>1. i = Len(traps) + 1 \/ i \in 2 .. Len(traps)
      BY <1>1, <2>1 DEF Depths
    <3>. QED  BY <1>1, <1>2, <2>1, <2>2, <3>1 DEF Levels, Depths
  <2>5. ASSUME NEW i \in 1 .. Len(traps') PROVE traps'[i].lvl = frames[traps'[i].depth].lvl
    BY <1>1, <2>1, <2>2, <2>3 DEF Levels
  <2>6. traps'[1].depth = 1 /\ traps'[1].off = 1 /\ traps'[1].lvl = 1
    BY <1>1, <2>1 DEF Levels, Depths
  <2>. QED  BY <1>1, <1>2, <2>4, <2>5, <2>6 DEF Levels
<1>. QED  BY <1>8, <1>9 DEF Implements, M!Next

(* pop_catch gives up the innermost catch form, which is of this chunk.    *)
LEMMA PopCatchImplements == DInv /\ PopCatch => Implements
<1>. SUFFICES ASSUME DInv, PopCatch PROVE Implements
  OBVIOUS
<1>1. View /\ Depths /\ Levels /\ IInv
  BY HaveView, HaveDepths DEF DInv
<1>2. /\ Len(frames) > 1 /\ Len(traps) > 1 /\ LastOf(traps).depth = Len(frames)
      /\ traps' = Keep(traps, Len(traps) - 1)
      /\ stack' = stack /\ cstack' = cstack /\ frames' = frames
  BY DEF PopCatch, UserCode
<1>3. Len(traps) - 1 \in 1 .. Len(traps) /\ Len(frames) \in 1 .. Len(frames)
  BY <1>1, <1>2 DEF Depths
<1>4. HandlersOf(traps)' = M!Cut(HandlersOf(traps), Len(HandlersOf(traps)) - 1)
  <2>1. Len(HandlersOf(traps)) = Len(traps) - 1
    BY <1>1, Mapped
  <2>2. HandlersOf(Keep(traps, Len(traps) - 1)) = M!Cut(HandlersOf(traps), Len(traps) - 1 - 1)
    BY <1>1, <1>3, HandlersCut DEF Depths
  <2>. QED  BY <1>2, <2>1, <2>2
<1>5. M!PopCatch
  <2>1. M!Catching
    BY <1>1, <1>2 DEF View
  <2>. QED  BY <1>2, <1>4, <2>1 DEF M!PopCatch
<1>6. Levels'
  <2>1. frames' = Keep(frames, Len(frames))
    <3>1. Keep(frames, Len(frames)) = frames
      BY <1>1 DEF Depths, Keep
    <3>. QED  BY <1>2, <3>1
  <2>2. Len(cstack') = frames[Len(frames)].lvl
    BY <1>1, <1>2 DEF Levels
  <2>3. \A i \in 2 .. Len(traps) - 1 : traps[i].depth <= Len(frames)
    BY <1>1 DEF Levels, Depths
  <2>. QED  BY <1>1, <1>2, <1>3, <2>1, <2>2, <2>3, LevelsCut
<1>. QED  BY <1>5, <1>6 DEF Implements, M!Next

(* vm_error_impl: what the trap remembers is there, and is put back.       *)
LEMMA TrapsLive ==
  ASSUME DInv, NEW i \in 2 .. Len(traps)
  PROVE  /\ traps[i].off <= Len(stack) /\ traps[i].lvl <= Len(cstack)
         /\ \A j \in 2 .. i : traps[j].depth <= traps[i].depth
<1>. DEFINE hs == HandlersOf(traps)
<1>1. Depths /\ Levels /\ IInv /\ M!Inv
  BY HaveDepths DEF DInv
<1>7. \A j \in 2 .. Len(traps) : traps[j].depth \in Nat
  <2>1. 2 .. Len(traps) \subseteq 1 .. Len(traps)
    BY <1>1 DEF Depths
  <2>. QED  BY <1>1, <2>1 DEF Depths
<1>2. /\ \A k \in 1 .. Len(traps) - 1 : hs[k] = HandlerOf(traps[k + 1])
      /\ DOMAIN hs = 1 .. Len(traps) - 1
  BY <1>1, Mapped
<1>3. /\ \A k \in DOMAIN hs : hs[k].off <= Len(stack) /\ hs[k].scopes <= Len(cstack)
      /\ \A k, l \in DOMAIN hs : k < l => hs[k].depth <= hs[l].depth
  BY <1>1 DEF M!Inv, M!Nested, M!HandlersLive, M!HandlersNest
<1>. HIDE DEF hs
<1>4. ASSUME NEW j \in 2 .. Len(traps) PROVE hs[j - 1] = HandlerOf(traps[j]) /\ j - 1 \in DOMAIN hs
  <2>1. j - 1 \in 1 .. Len(traps) - 1 /\ (j - 1) + 1 = j
    BY <1>1 DEF Depths
  <2>. QED  BY <1>2, <2>1
<1>5. ASSUME NEW j \in 2 .. i, j < i PROVE traps[j].depth <= traps[i].depth
  <2>1. j \in 2 .. Len(traps) /\ j - 1 < i - 1
    BY <1>1, <1>5 DEF Depths
  <2>2. hs[j - 1].depth <= hs[i - 1].depth
    BY <1>3, <1>4, <2>1
  <2>3. hs[j - 1].depth = traps[j].depth - 1 /\ hs[i - 1].depth = traps[i].depth - 1
    <3>1. hs[j - 1] = HandlerOf(traps[j]) /\ hs[i - 1] = HandlerOf(traps[i])
      BY <1>4, <2>1
    <3>. QED  BY <3>1 DEF HandlerOf
  <2>4. traps[j].depth \in Nat /\ traps[i].depth \in Nat
    BY <1>7, <2>1
  <2>. QED  BY <2>2, <2>3, <2>4
<1>6. traps[i].off <= Len(stack) /\ traps[i].lvl <= Len(cstack)
  <2>1. hs[i - 1] = HandlerOf(traps[i]) /\ i - 1 \in DOMAIN hs
    BY <1>4
  <2>2. hs[i - 1].off = traps[i].off /\ hs[i - 1].scopes = traps[i].lvl
    BY <2>1 DEF HandlerOf
  <2>. QED  BY <1>3, <2>1, <2>2
<1>. QED  BY <1>7, <1>5, <1>6

(* An error goes to a live catch form or to main.                          *)
LEMMA UnwindImplements == ASSUME DInv, NEW e, Unwind(e) PROVE Implements
<1>1. View /\ Depths /\ Levels /\ IInv
  BY HaveView, HaveDepths DEF DInv
<1>2. PICK i \in 1 .. Len(traps) : UnwindTo(i, e)
  BY <1>1 DEF Unwind, Depths
<1>3. cstack' = Keep(cstack, traps[i].lvl) /\ frames' = Keep(frames, traps[i].depth)
  BY <1>2 DEF UnwindTo
<1>4. CASE i = 1
  <2>1. /\ cstack' = Keep(cstack, 1) /\ frames' = Keep(frames, 1) /\ traps' = Keep(traps, 1)
        /\ stack' = << >>
    BY <1>1, <1>2, <1>4 DEF UnwindTo, Levels
  <2>2. 1 \in 1 .. Len(frames) /\ 1 \in 1 .. Len(traps) /\ 1 \in 0 .. Len(cstack)
    BY <1>1 DEF View, Depths
  <2>3. CallsOf(frames)' = << >> /\ HandlersOf(traps)' = << >>
    <3>0. frames \in Seq(Frame) /\ traps \in Seq(Trap)
      BY <1>1 DEF Depths
    <3>1. CallsOf(Keep(frames, 1)) = M!Cut(CallsOf(frames), 0)
      BY <2>2, <3>0, CallsCut
    <3>2. HandlersOf(Keep(traps, 1)) = M!Cut(HandlersOf(traps), 0)
      BY <2>2, <3>0, HandlersCut
    <3>3. M!Cut(CallsOf(frames), 0) = << >> /\ M!Cut(HandlersOf(traps), 0) = << >>
      BY DEF M!Cut
    <3>. QED  BY <2>1, <3>1, <3>2, <3>3
  <2>4. Len(cstack') = 1 /\ Len(stack') = 0
    <3>1. cstack \in Seq(Contexts)
      BY <1>1 DEF Depths
    <3>. QED  BY <2>1, <2>2, <3>1, KeepCuts
  <2>5. M!Reset
    BY <2>3, <2>4 DEF M!Reset
  <2>6. Levels'
    <3>1. Len(cstack') = frames[1].lvl /\ \A j \in 2 .. 1 : traps[j].depth <= 1
      BY <1>1, <2>4 DEF Levels
    <3>. QED  BY <1>1, <2>1, <2>2, <3>1, LevelsCut
  <2>. QED  BY <2>5, <2>6 DEF Implements, M!Next
<1>5. CASE i \in 2 .. Len(traps)
  <2>. DEFINE t == traps[i]
              h == HandlersOf(traps)[i - 1]
  <2>1. /\ t.off <= Len(stack) /\ t.lvl <= Len(cstack)
        /\ \A j \in 2 .. i : traps[j].depth <= t.depth
        /\ t.depth \in 2 .. Len(frames) /\ t.lvl = frames[t.depth].lvl
    BY <1>1, <1>5, TrapsLive DEF Levels
  <2>2. t.off \in 0 .. Len(stack) /\ t.lvl \in 0 .. Len(cstack) /\ t.depth \in 1 .. Len(frames)
    BY <1>1, <1>2, <2>1 DEF Depths
  <2>3. traps' = Keep(traps, i - 1) /\ Push(Keep(stack, t.off), e)
    BY <1>1, <1>2, <1>5 DEF UnwindTo
  <2>4. i - 1 \in 1 .. Len(traps) - 1 /\ i - 1 \in 1 .. Len(traps) /\ (i - 1) + 1 = i
    BY <1>1, <1>5 DEF Depths
  <2>5. h = HandlerOf(t) /\ i - 1 \in DOMAIN HandlersOf(traps)
    <3>1. \A j \in 1 .. Len(traps) - 1 : HandlersOf(traps)[j] = HandlerOf(traps[j + 1])
      BY <1>1, Mapped
    <3>2. DOMAIN HandlersOf(traps) = 1 .. Len(traps) - 1
      BY DEF HandlersOf
    <3>3. h = HandlerOf(traps[(i - 1) + 1])
      BY <2>4, <3>1
    <3>. QED  BY <2>4, <3>2, <3>3
  <2>6. h.off = t.off /\ h.scopes = t.lvl /\ h.depth = t.depth - 1
    BY <2>5 DEF HandlerOf
  <2>7. Len(stack') = t.off + 1
    <3>1. Keep(stack, t.off) \in Seq(Ref) /\ Len(Keep(stack, t.off)) = t.off
      BY <1>1, <2>2, KeepCuts DEF Depths
    <3>. QED  BY <2>3, <3>1, PushHeight
  <2>8. Len(cstack') = t.lvl
    BY <1>1, <1>3, <2>2, KeepCuts DEF Depths
  <2>9. CallsOf(frames)' = M!Cut(CallsOf(frames), h.depth)
    <3>1. CallsOf(Keep(frames, t.depth)) = M!Cut(CallsOf(frames), t.depth - 1)
      BY <1>1, <2>2, CallsCut DEF Depths
    <3>. QED  BY <1>3, <2>6, <3>1
  <2>10. HandlersOf(traps)' = M!Cut(HandlersOf(traps), (i - 1) - 1)
    <3>1. HandlersOf(Keep(traps, i - 1)) = M!Cut(HandlersOf(traps), (i - 1) - 1)
      BY <1>1, <2>4, HandlersCut DEF Depths
    <3>. QED  BY <2>3, <3>1
  <2>11. M!Throw(i - 1)
    <3>. HIDE DEF h, t
    <3>1. Len(stack') = h.off + 1 /\ Len(cstack') = h.scopes
      BY <2>6, <2>7, <2>8
    <3>2. \E n \in 1 .. 2 : Len(stack)' = h.off + n
      BY <3>1
    <3>. QED  BY <2>9, <2>10, <3>1, <3>2 DEF M!Throw, h
  <2>12. Levels'
    <3>1. \A j \in 2 .. i - 1 : traps[j].depth <= t.depth
      BY <1>1, <2>1, <2>4 DEF Depths
    <3>2. Len(cstack') = frames[t.depth].lvl
      BY <2>1, <2>8
    <3>. QED  BY <1>1, <1>3, <2>2, <2>3, <2>4, <3>1, <3>2, LevelsCut
  <2>. QED  BY <2>5, <2>11, <2>12 DEF Implements, M!Next
<1>. QED  BY <1>1, <1>4, <1>5 DEF Depths

(* The sweep changes of the frames only what is dead of them.              *)
LEMMA SweepIdle == DInv /\ Sweep => Implements
<1>. SUFFICES ASSUME DInv, Sweep PROVE Implements
  OBVIOUS
<1>1. Depths /\ Levels
  BY HaveDepths DEF DInv
<1>2. /\ Len(frames') = Len(frames)
      /\ \A i \in 1 .. Len(frames) : /\ CallOf(frames'[i]) = CallOf(frames[i])
                                     /\ frames'[i].lvl = frames[i].lvl
                                     /\ frames'[i].base = frames[i].base
  <2>1. frames' = [i \in 1 .. Len(frames) |->
                     [frames[i] EXCEPT !.dead = @ \cup Losses(frames[i])]]
    BY <1>1 DEF Sweep, Depths
  <2>2. Len(frames') = Len(frames)
    <3>. DEFINE n == Len(frames)
    <3>1. n \in Nat /\ DOMAIN frames' = 1 .. n /\ frames' \in Seq(Frame)
      BY <1>1, <2>1, SweepFrames DEF Depths, DInv, StackTypes
    <3>. HIDE DEF n
    <3>2. Len(frames') = n
      BY <3>1, LenProperties
    <3>. QED  BY <3>2 DEF n
  <2>3. ASSUME NEW i \in 1 .. Len(frames)
        PROVE  /\ CallOf(frames'[i]) = CallOf(frames[i])
               /\ frames'[i].lvl = frames[i].lvl /\ frames'[i].base = frames[i].base
    <3>1. frames[i] \in Frame
      BY <1>1 DEF Depths
    <3>2. /\ frames'[i].code = frames[i].code /\ frames'[i].base = frames[i].base
          /\ frames'[i].argc = frames[i].argc /\ frames'[i].lvl = frames[i].lvl
      BY <2>1, <3>1 DEF Frame
    <3>. QED  BY <3>2 DEF CallOf
  <2>. QED  BY <2>2, <2>3
<1>3. stack' = stack /\ cstack' = cstack /\ traps' = traps
  BY DEF Sweep
<1>4. CallsOf(frames)' = CallsOf(frames)
  <2>1. CallsOf(frames') = [i \in 1 .. Len(frames) - 1 |-> CallOf(frames'[i + 1])]
    BY <1>2 DEF CallsOf
  <2>2. \A i \in 1 .. Len(frames) - 1 : CallOf(frames'[i + 1]) = CallOf(frames[i + 1])
    <3>1. \A i \in 1 .. Len(frames) - 1 : i + 1 \in 1 .. Len(frames)
      BY <1>1 DEF Depths
    <3>. QED  BY <1>2, <3>1
  <2>. QED  BY <2>1, <2>2 DEF CallsOf
<1>5. UNCHANGED M!stacks
  BY <1>3, <1>4 DEF M!stacks
<1>6. Levels'
  <2>1. \A i \in 2 .. Len(frames) : i - 1 \in 1 .. Len(frames) /\ i \in 1 .. Len(frames)
    BY <1>1 DEF Depths
  <2>2. \A i \in 1 .. Len(traps) : traps[i].depth \in 1 .. Len(frames)
    BY <1>1 DEF Levels, Depths
  <2>3. 1 \in 1 .. Len(frames) /\ Len(frames) \in 1 .. Len(frames)
    BY <1>1 DEF Depths
  <2>4. ASSUME NEW i \in 2 .. Len(frames)
        PROVE  CallOf(frames'[i]).outer = frames'[i - 1].lvl
    BY <1>1, <1>2, <2>1 DEF Levels
  <2>5. ASSUME NEW i \in 1 .. Len(traps)
        PROVE  traps[i].lvl = frames'[traps[i].depth].lvl
    BY <1>1, <1>2, <2>2 DEF Levels
  <2>. QED  BY <1>1, <1>2, <1>3, <2>3, <2>4, <2>5 DEF Levels
<1>. QED  BY <1>5, <1>6 DEF Implements

(* Every step of either thread, by its action.                             *)
LEMMA NextImplements == DInv /\ [Next]_vars_all => Implements
<1>. SUFFICES ASSUME DInv, [Next]_vars_all PROVE Implements
  OBVIOUS
<1>1. CASE VmStep
  <2>1. CASE Instructions
    BY <2>1, InstructionSteps
  <2>2. CASE Eval \/ \E a \in 0 .. 1 : Call(a)
    BY <2>2, CallSteps
  <2>3. CASE Return \/ Catch \/ PopCatch
    BY <2>3, ReturnImplements, CatchImplements, PopCatchImplements
  <2>4. CASE Error \/ \E named \in {{}} \cup {{n} : n \in FnNames} : CompileFails(named)
    <3>1. \E e : Unwind(e)
      BY <2>4 DEF Error, CompileFails
    <3>. QED  BY <3>1, UnwindImplements
  <2>5. CASE Yield \/ VmLock \/ TouchFreed
    <3>1. UNCHANGED <<stack, control>>
      BY <2>5 DEF Yield, VmLock, TouchFreed
    <3>. QED  BY <3>1, IdleStep
  <2>. QED  BY <1>1, <2>1, <2>2, <2>3, <2>4, <2>5 DEF VmStep, Instructions
<1>2. CASE Sweep
  BY <1>2, SweepIdle
<1>3. CASE \/ GcLock \/ Whiten \/ ScanVars \/ ScanFns \/ ScanStack \/ ScanInterned \/ MarkDone
           \/ (\E o \in Objects : MarkOne(o)) \/ UNCHANGED vars_all
  <2>1. UNCHANGED <<stack, control>>
    BY <1>3 DEF GcLock, Whiten, ScanVars, ScanFns, ScanStack, ScanInterned, MarkDone, MarkOne,
                KeepWorld, machine, vars_all
  <2>. QED  BY <2>1, IdleStep
<1>. QED  BY <1>1, <1>2, <1>3 DEF Next, Collect

(* After bootstrap only main's frame and trap are there.                   *)
LEMMA InitDInv == Init => DInv /\ M!Init
<1>. SUFFICES ASSUME Init PROVE DInv /\ M!Init
  OBVIOUS
<1>1. /\ frames = <<ReplFrame>> /\ traps = <<ReplTrap>> /\ stack = << >> /\ cstack = <<Global>>
  BY DEF Init
<1>2. CallsOf(frames) = << >> /\ HandlersOf(traps) = << >>
  BY <1>1 DEF CallsOf, HandlersOf
<1>3. M!Init
  BY <1>1, <1>2 DEF M!Init
<1>4. Levels
  BY <1>1 DEF Levels, ReplFrame, ReplTrap
<1>. QED  BY <1>3, <1>4, InitIInv, M!InitInv DEF DInv

(* Every step keeps the invariant.                                         *)
LEMMA NextDInv == DInv /\ [Next]_vars_all => DInv' /\ [M!Next]_(M!stacks)
<1>. SUFFICES ASSUME DInv, [Next]_vars_all PROVE DInv' /\ [M!Next]_(M!stacks)
  OBVIOUS
<1>1. [M!Next]_(M!stacks) /\ Levels'
  BY NextImplements DEF Implements
<1>2. M!Inv'
  BY <1>1, M!NextInv DEF DInv
<1>. QED  BY <1>1, <1>2, NextIInv DEF DInv

-------------------------------------------------------------------------------
(* The theorems.                                                           *)

(* The invariant holds in every reachable state.                           *)
LEMMA AlwaysDInv == Spec => []DInv
BY InitDInv, NextDInv, PTL DEF Spec

(* For every program, and wherever errors strike: the main thread's steps  *)
(* on its stacks are steps of Stacks.                                      *)
THEOREM Discipline == Spec => Disciplined
<1>1. Init => Machine!Init
  BY InitDInv DEF M!Init, Machine!Init
<1>2. DInv /\ [Next]_vars_all => [Machine!Next]_(Machine!stacks)
  <2>. SUFFICES ASSUME DInv, [Next]_vars_all PROVE [Machine!Next]_(Machine!stacks)
    OBVIOUS
  <2>1. [M!Next]_(M!stacks)
    BY NextDInv
  <2>. QED
    BY <2>1 DEF M!Next, Machine!Next, M!stacks, Machine!stacks, M!Work, Machine!Work,
      M!Call, Machine!Call, M!Return, Machine!Return, M!Catch, Machine!Catch,
      M!PopCatch, Machine!PopCatch, M!Throw, Machine!Throw, M!Reset, Machine!Reset,
      M!Abandon, Machine!Abandon, M!Floor, Machine!Floor, M!ScopeFloor, Machine!ScopeFloor,
      M!Catching, Machine!Catching, M!Handler, Machine!Handler, M!Here, Machine!Here,
      M!Main, Machine!Main, M!Cut, Machine!Cut
<1>. QED  BY <1>1, <1>2, AlwaysDInv, PTL DEF Spec, Disciplined, Machine!Spec

(* vm_error_impl: every height a catch form remembers is still there when  *)
(* an error is thrown to it.  Of main's own trap this is said of the       *)
(* contexts and chunks: it remembers a value that main has dropped since.  *)
THEOREM HeightsKept == Spec => []Heights
<1>1. DInv => Heights
  <2>. SUFFICES ASSUME DInv, NEW i \in DOMAIN traps
                PROVE  /\ i > 1 => traps[i].off <= Len(stack)
                       /\ traps[i].lvl <= Len(cstack)
                       /\ traps[i].depth <= Len(frames)
    BY DEF Heights
  <2>1. View /\ Depths /\ Levels
    BY HaveView, HaveDepths DEF DInv
  <2>2. CASE i = 1
    BY <2>1, <2>2 DEF View, Depths, Levels
  <2>3. CASE i \in 2 .. Len(traps)
    BY <2>1, <2>3, TrapsLive DEF Levels, Depths
  <2>. QED  BY <2>1, <2>2, <2>3 DEF Depths
<1>. QED  BY <1>1, AlwaysDInv, PTL
===============================================================================
