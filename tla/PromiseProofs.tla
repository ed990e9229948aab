------------------------------ MODULE PromiseProofs ------------------------------
(***************************************************************************)
(* What the machine promises to the program and to the reader at the       *)
(* prompt, from the invariant of MachineProofs: that it keeps the          *)
(* discipline of Stacks, that no form goes unanswered, that the contexts   *)
(* stay within their limit and that a named function has code to its end.  *)
(***************************************************************************)
EXTENDS MachineProofs, FiniteSetTheorems

-------------------------------------------------------------------------------
(* Named functions.                                                        *)

Named ==
  /\ IsSeq(chunks)
  /\ \A f \in FnNames : \/ fns[f] = Unbound
                        \/ \E k \in 1 .. Len(chunks) : fns[f] = CodeRef(k) /\ Ended(chunks[k])

(* Chunks are only added, so the ones that have names keep them.           *)
LEMMA NamedGrows ==
  ASSUME Named, NEW x, chunks' = Append(chunks, x),
         \A f \in FnNames : \/ fns'[f] = Unbound \/ fns'[f] = fns[f]
                            \/ fns'[f] = CodeRef(Len(chunks) + 1) /\ Ended(x)
  PROVE  Named'
<1>1. /\ IsSeq(chunks) /\ Len(chunks) \in Nat /\ IsSeq(chunks') /\ Len(chunks') = Len(chunks) + 1
      /\ chunks'[Len(chunks) + 1] = x /\ \A k \in 1 .. Len(chunks) : chunks'[k] = chunks[k]
  BY SeqFacts DEF Named
<1>2. ASSUME NEW f \in FnNames, fns'[f] # Unbound
      PROVE  \E k \in 1 .. Len(chunks') : fns'[f] = CodeRef(k) /\ Ended(chunks'[k])
  <2>1. CASE fns'[f] = fns[f]
    <3>1. PICK k \in 1 .. Len(chunks) : fns[f] = CodeRef(k) /\ Ended(chunks[k])
      BY <2>1, <1>2 DEF Named
    <3>2. k \in 1 .. Len(chunks') /\ chunks'[k] = chunks[k]
      BY <1>1
    <3>. QED  BY <2>1, <3>1, <3>2
  <2>2. CASE fns'[f] = CodeRef(Len(chunks) + 1) /\ Ended(x)
    <3>1. Len(chunks) + 1 \in 1 .. Len(chunks')
      BY <1>1
    <3>. QED  BY <2>2, <3>1, <1>1
  <2>. QED  BY <2>1, <2>2, <1>2
<1>. QED  BY <1>1, <1>2 DEF Named

(* vm_compile_fn unbinds the name again if the body cannot be compiled.    *)
LEMMA CompileNames ==
  ASSUME Named, NEW fn, NEW named, NEW start, NEW rest, CompileIt(fn, named, start, rest),
         named # {} => LET c == Compilation(fn, named, start, rest) IN c.ok => Ended(c)
  PROVE  Named'
<1>1. PICK c, x : c = Compilation(fn, named, start, rest) /\ x = FnChunk(c, fn, start)
  OBVIOUS
<1>2. /\ chunks' = Append(chunks, x)
      /\ fns' = IF c.ok THEN Bound(named) ELSE Unnamed(Bound(named), named)
  BY <1>1 DEF CompileIt
<1>3. x.code = c.code
  BY <1>1 DEF FnChunk, Chunk
<1>4. named # {} /\ c.ok => Ended(x)
  BY <1>1, <1>3 DEF Ended
<1>5. \A f \in FnNames : \/ fns'[f] = Unbound \/ fns'[f] = fns[f]
                         \/ fns'[f] = CodeRef(Len(chunks) + 1) /\ Ended(x)
  BY <1>2, <1>4 DEF Unnamed, Bound
<1>. QED  BY <1>2, <1>5, NamedGrows

LEMMA NextNames ==
  ASSUME FnsEnd, Named, [Next]_vmvars
  PROVE  Named'
<1>1. CASE UNCHANGED program
  BY <1>1 DEF Named, program
<1>2. CASE CallEval
  <2>1. PICK x : chunks' = Append(chunks, x) /\ fns' = fns
    BY <1>2 DEF CallEval
  <2>. QED  BY <2>1, NamedGrows
<1>3. CASE CallCompileFn
  <2>1. PICK start \in StartLevels, rest \in StartRests : CompileIt(Arg(2), {Arg(1)[2]}, start, rest)
    BY <1>3 DEF CallCompileFn
  <2>2. Calling(Native("COMPILE-FN"))
    BY <1>3 DEF CallCompileFn
  <2>3. LET c == Compilation(Arg(2), {Arg(1)[2]}, start, rest) IN c.ok => Ended(c)
    BY <2>1, <2>2 DEF FnsEnd
  <2>. QED  BY <2>1, <2>3, CompileNames
<1>4. CASE CallCompileLambda
  <2>1. PICK start, rest : CompileIt(Arg(1), {}, start, rest)
    BY <1>4 DEF CallCompileLambda
  <2>. QED  BY <2>1, CompileNames
<1>5. CASE UNCHANGED <<chunks, fns>>
  BY <1>5 DEF Named
<1>6. CASE Instruction
  <2>1. \/ UNCHANGED <<chunks, fns>> \/ CallEval \/ CallCompileFn \/ CallCompileLambda
    BY <1>6 DEF Instruction, PushI, PopI, ChewTopI, PushFromStackI, PopToStackI, ResolveI, BindVarI,
       PushContextI, PopContextI, GoI, GoIfI, ArithI, SaveStackoffI, RestoreStackoffI, CatchI, PopCatchI,
       CallCode, CallList, CallCompare, CallBind, CallFunction, CallRead, CallPrint,
       SignalI, Signal, ExitI, Straight, Jump, program
  <2>. QED  BY <2>1, <1>2, <1>3, <1>4, <1>5
<1>7. CASE Raise \/ MainLoop \/ Break \/ Halted \/ UNCHANGED vmvars
  <2>1. UNCHANGED program
    BY <1>7 DEF Raise, RaiseToCatch, RaiseToEval, RaiseToMain, Unwind, MainLoop, Break, Stop, Halted, vmvars
  <2>. QED  BY <2>1, <1>1
<1>. QED  BY <1>6, <1>7 DEF Next, Step

(* A function that has a name has been compiled to its end, whatever the   *)
(* program: vm_compile_fn takes the name back when compiling fails.        *)
THEOREM MachineFnsRunnable == Spec /\ []FnsEnd => []FnsRunnable
<1>1. Init => Named
  <2>. SUFFICES ASSUME Init PROVE Named
    OBVIOUS
  <2>1. Inv
    BY InitInv
  <2>2. \A f \in FnNames : fns[f] = Unbound
    BY DEF Init
  <2>. QED  BY <2>1, <2>2 DEF Inv, Program, Named
<1>2. FnsEnd /\ Named /\ [Next]_vmvars => Named'
  BY NextNames
<1>3. Named => FnsRunnable
  <2>. SUFFICES ASSUME Named, NEW f \in FnNames, fns[f] # Unbound
                PROVE  Ended(chunks[fns[f][2]])
    BY DEF FnsRunnable
  <2>1. PICK k \in 1 .. Len(chunks) : fns[f] = CodeRef(k) /\ Ended(chunks[k])
    BY DEF Named
  <2>. QED  BY <2>1 DEF CodeRef
<1>. QED  BY <1>1, <1>2, <1>3, PTL DEF Spec

-------------------------------------------------------------------------------
(* The limit on contexts.                                                  *)

(* No trap would restore more contexts than a chunk may run with.          *)
LevelsBounded(ts) ==
  /\ IsSeq(ts)
  /\ \A i \in 1 .. Len(ts) :
       "lvl" \in DOMAIN ts[i] /\ ts[i].lvl \in Nat /\ ts[i].lvl - 1 <= MaxLevel
Bounded ==
  /\ IsSeq(cstack) /\ LevelsBounded(traps)
  /\ Len(cstack) - 1 <= MaxLevel + 1
  /\ mode \in {Run, Prompt} => Len(cstack) - 1 <= MaxLevel

LEMMA BoundedTraps ==
  ASSUME NEW ts, LevelsBounded(ts)
  PROVE  /\ \A n \in 0 .. Len(ts) : LevelsBounded(SubSeq(ts, 1, n))
         /\ LevelsBounded(PopTrap(ts)) /\ \A n : LevelsBounded(Orphan(ts, n))
         /\ \A t : /\ "lvl" \in DOMAIN t /\ t.lvl \in Nat /\ t.lvl - 1 <= MaxLevel
                   => LevelsBounded(Append(ts, t))
<1>1. /\ IsSeq(ts) /\ Len(ts) \in Nat /\ DOMAIN ts = 1 .. Len(ts)
      /\ \A x : /\ IsSeq(Append(ts, x)) /\ Len(Append(ts, x)) = Len(ts) + 1
                /\ Append(ts, x)[Len(ts) + 1] = x
                /\ \A i \in 1 .. Len(ts) : Append(ts, x)[i] = ts[i]
      /\ \A n \in 0 .. Len(ts) : /\ IsSeq(SubSeq(ts, 1, n)) /\ Len(SubSeq(ts, 1, n)) = n
                                 /\ \A i \in 1 .. n : SubSeq(ts, 1, n)[i] = ts[i]
  BY SeqFacts DEF LevelsBounded
<1>2. ASSUME NEW n \in 0 .. Len(ts) PROVE LevelsBounded(SubSeq(ts, 1, n))
  <2>1. \A i \in 1 .. n : i \in 1 .. Len(ts)
    BY <1>1
  <2>. QED  BY <1>1, <2>1 DEF LevelsBounded
<1>3. LevelsBounded(PopTrap(ts))
  <2>1. CASE ts = << >>
    BY <2>1 DEF PopTrap
  <2>2. CASE ts # << >>
    <3>1. PopTrap(ts) = SubSeq(ts, 1, Len(ts) - 1)
      BY <2>2 DEF PopTrap, Front
    <3>2. Len(ts) - 1 \in 0 .. Len(ts)
      <4>1. Len(ts) # 0
        BY <2>2, <1>1, EmptySeq DEF LevelsBounded, IsSeq
      <4>. QED  BY <4>1, <1>1
    <3>. QED  BY <3>1, <3>2, <1>2
  <2>. QED  BY <2>1, <2>2
<1>4. ASSUME NEW n PROVE LevelsBounded(Orphan(ts, n))
  <2>. DEFINE os == Orphan(ts, n)
  <2>1. /\ os = [i \in 1 .. Len(ts) |-> IF ts[i].frame >= n THEN [ts[i] EXCEPT !.live = FALSE] ELSE ts[i]]
    BY <1>1 DEF Orphan
  <2>2. IsSeq(os) /\ Len(os) = Len(ts)
    <3>1. PICK k \in Nat : k = Len(ts)
      BY <1>1
    <3>2. os \in [1 .. k -> {os[i] : i \in 1 .. k}]
      BY <2>1, <3>1
    <3>3. os \in Seq({os[i] : i \in 1 .. k}) /\ Len(os) = k
      BY <3>1, <3>2
    <3>. QED  BY <3>1, <3>3 DEF IsSeq
  <2>3. ASSUME NEW i \in 1 .. Len(ts)
        PROVE  "lvl" \in DOMAIN os[i] /\ os[i].lvl \in Nat /\ os[i].lvl - 1 <= MaxLevel
    <3>1. "lvl" \in DOMAIN ts[i] /\ ts[i].lvl \in Nat /\ ts[i].lvl - 1 <= MaxLevel
      BY DEF LevelsBounded
    <3>2. PICK t : t = ts[i]
      OBVIOUS
    <3>3. os[i] = t \/ os[i] = [t EXCEPT !.live = FALSE]
      BY <2>1, <3>2
    <3>4. PICK u : u = [t EXCEPT !.live = FALSE]
      OBVIOUS
    <3>5. DOMAIN u = DOMAIN t /\ u.lvl = t.lvl
      BY <3>1, <3>2, <3>4
    <3>. QED  BY <3>1, <3>2, <3>3, <3>4, <3>5
  <2>. QED  BY <2>2, <2>3 DEF LevelsBounded
<1>5. ASSUME NEW t, "lvl" \in DOMAIN t, t.lvl \in Nat, t.lvl - 1 <= MaxLevel
      PROVE  LevelsBounded(Append(ts, t))
  <2>1. \A i \in 1 .. Len(Append(ts, t)) : i \in 1 .. Len(ts) \/ i = Len(ts) + 1
    BY <1>1
  <2>2. \A i \in 1 .. Len(Append(ts, t)) : Append(ts, t)[i] = t \/ \E j \in 1 .. Len(ts) : Append(ts, t)[i] = ts[j]
    BY <1>1, <2>1
  <2>. QED  BY <1>1, <1>5, <2>2 DEF LevelsBounded
<1>. QED  BY <1>2, <1>3, <1>4, <1>5

(* Cutting the contexts, or leaving them as they are.                      *)
LEMMA BoundedContexts ==
  ASSUME Bounded
  PROVE  /\ Len(cstack) \in Nat
         /\ \A n \in 0 .. Len(cstack) : IsSeq(SubSeq(cstack, 1, n)) /\ Len(SubSeq(cstack, 1, n)) = n
         /\ \A x : IsSeq(Append(cstack, x)) /\ Len(Append(cstack, x)) = Len(cstack) + 1
         /\ Len(cstack) > 0 => IsSeq(Front(cstack)) /\ Len(Front(cstack)) = Len(cstack) - 1
<1>1. /\ Len(cstack) \in Nat
      /\ \A n \in 0 .. Len(cstack) : IsSeq(SubSeq(cstack, 1, n)) /\ Len(SubSeq(cstack, 1, n)) = n
      /\ \A x : IsSeq(Append(cstack, x)) /\ Len(Append(cstack, x)) = Len(cstack) + 1
  BY SeqFacts DEF Bounded
<1>2. Len(cstack) > 0 => Len(cstack) - 1 \in 0 .. Len(cstack)
  BY <1>1
<1>. QED  BY <1>1, <1>2 DEF Front

(* A chunk starts within the limit, or the machine reports the overflow.   *)
LEMMA StartBounded ==
  ASSUME Bounded, mode = Run, IsSeq(cstack'), Len(cstack') \in {Len(cstack), Len(cstack) + 1},
         LevelsBounded(traps'), NEW chunk, NEW kind, NEW argc, NEW height, NEW entry,
         Start(chunk, kind, argc, Len(cstack'), height, entry)
  PROVE  Bounded'
<1>1. Len(cstack) \in Nat /\ Len(cstack) - 1 <= MaxLevel /\ MaxLevel \in Nat /\ Len(cstack') \in Nat
  BY BoundedContexts, VmAssumption DEF Bounded
<1>2. CASE TooDeep(Len(cstack'))
  <2>1. mode' \notin {Run, Prompt}
    BY <1>2, RaisingFacts DEF Start
  <2>. QED  BY <2>1, <1>1 DEF Bounded
<1>3. CASE ~TooDeep(Len(cstack'))
  <2>1. Len(cstack') - 1 <= MaxLevel
    BY <1>1, <1>3 DEF TooDeep
  <2>. QED  BY <2>1, <1>1 DEF Bounded
<1>. QED  BY <1>2, <1>3

LEMMA InstructionBounded ==
  ASSUME Bounded, Shallow, Instruction
  PROVE  Bounded'
<1>. DEFINE L == Len(cstack)
<1>1. L \in Nat /\ MaxLevel \in Nat /\ L - 1 <= MaxLevel + 1
  BY BoundedContexts, VmAssumption DEF Bounded
<1>2. mode = Run /\ L - 1 <= MaxLevel
  BY DEF Instruction, PushI, PopI, ChewTopI, PushFromStackI, PopToStackI, ResolveI, BindVarI,
     PushContextI, PopContextI, GoI, GoIfI, ArithI, SaveStackoffI, RestoreStackoffI, CatchI, PopCatchI,
     CallCode, CallList, CallCompare, Compares, CallBind, CallFunction, CallRead, CallPrint, CallEval,
     CallCompileFn, CallCompileLambda, SignalI, ExitI, Computes, Calling, Executing, Bounded
<1>3. \A owner, catcher, off, frame :
        LET t == Trap(owner, catcher, off, frame) IN "lvl" \in DOMAIN t /\ t.lvl = L
  BY DEF Trap
<1>4. CASE PushContextI
  <2>1. L - 1 < MaxLevel /\ IsSeq(cstack') /\ Len(cstack') = L + 1 /\ traps' = traps /\ mode' = mode
    BY <1>4, BoundedContexts DEF PushContextI, Straight, Shallow
  <2>. QED  BY <2>1, <1>1 DEF Bounded
<1>5. CASE PopContextI
  <2>1. IsSeq(cstack') /\ Len(cstack') = L - 1 /\ traps' = traps /\ mode' = mode
    BY <1>5, <1>1, BoundedContexts DEF PopContextI, Straight
  <2>. QED  BY <2>1, <1>1, <1>2 DEF Bounded
<1>6. CASE CatchI
  <2>1. cstack' = cstack /\ mode' = mode /\ LevelsBounded(traps')
    BY <1>6, <1>1, <1>2, <1>3, BoundedTraps DEF CatchI, context, Bounded
  <2>. QED  BY <2>1, <1>1, <1>2 DEF Bounded
<1>7. CASE PopCatchI
  <2>1. cstack' = cstack /\ mode' = mode /\ LevelsBounded(traps')
    BY <1>7, BoundedTraps DEF PopCatchI, context, Bounded
  <2>. QED  BY <2>1, <1>1, <1>2 DEF Bounded
<1>8. CASE CallCode
  <2>1. IsSeq(cstack') /\ Len(cstack') = L + 1 /\ LevelsBounded(traps')
    BY <1>8, BoundedContexts DEF CallCode, Bounded
  <2>2. PICK chunk, kind, argc, height, entry : Start(chunk, kind, argc, Len(cstack'), height, entry)
    BY <1>8 DEF CallCode
  <2>. QED  BY <2>1, <2>2, <1>2, StartBounded
<1>9. CASE CallEval
  <2>1. cstack' = cstack
    BY <1>9 DEF CallEval
  <2>2. \/ /\ LevelsBounded(traps')
           /\ \E chunk, kind, argc, height, entry : Start(chunk, kind, argc, Len(cstack), height, entry)
        \/ LevelsBounded(traps') /\ mode' = Raising(SigError)
    <3>1. PICK start, c :
            IF c.ok
              THEN /\ traps' = Append(traps, Trap("eval", Nil, Popped(1), Len(frames) + 1))
                   /\ Start(Len(chunks) + 1, "eval", 0, Len(cstack), Popped(2), start)
              ELSE /\ mode' = Raising(SigError) /\ UNCHANGED <<frames, traps>>
      BY <1>9 DEF CallEval
    <3>2. CASE c.ok
      <4>1. LevelsBounded(Append(traps, Trap("eval", Nil, Popped(1), Len(frames) + 1)))
        BY <1>1, <1>2, <1>3, BoundedTraps DEF Bounded
      <4>. QED  BY <3>1, <3>2, <4>1
    <3>3. CASE ~c.ok
      BY <3>1, <3>3 DEF Bounded
    <3>. QED  BY <3>2, <3>3
  <2>3. CASE mode' = Raising(SigError) /\ LevelsBounded(traps')
    BY <2>1, <2>3, RaisingFacts DEF Bounded
  <2>4. CASE /\ LevelsBounded(traps')
             /\ \E chunk, kind, argc, height, entry : Start(chunk, kind, argc, Len(cstack), height, entry)
    <3>1. PICK chunk, kind, argc, height, entry : Start(chunk, kind, argc, Len(cstack'), height, entry)
      BY <2>1, <2>4
    <3>2. IsSeq(cstack') /\ Len(cstack') = L
      BY <2>1 DEF Bounded
    <3>. QED  BY <2>4, <3>1, <3>2, <1>2, StartBounded
  <2>. QED  BY <2>2, <2>3, <2>4
<1>10. CASE CallCompileFn \/ CallCompileLambda
  <2>1. cstack' = cstack /\ traps' = traps /\ (mode' = mode \/ mode' = Raising(SigError))
    BY <1>10 DEF CallCompileFn, CallCompileLambda, CompileIt, context
  <2>. QED  BY <2>1, RaisingFacts DEF Bounded
<1>11. CASE SignalI
  <2>1. cstack' = cstack /\ traps' = traps /\ \E e : mode' = Raising(e)
    BY <1>11 DEF SignalI, Signal, context
  <2>. QED  BY <2>1, RaisingFacts DEF Bounded
<1>12. CASE ExitI
  <2>1. LevelsBounded(traps')
    BY <1>12, BoundedTraps DEF ExitI, Bounded
  <2>2. IsSeq(cstack') /\ (Len(cstack') = L \/ Len(cstack') = L - 1)
    <3>1. cstack' = cstack \/ (L > 1 /\ cstack' = Front(cstack))
      BY <1>12 DEF ExitI
    <3>. QED  BY <3>1, <1>1, BoundedContexts DEF Bounded
  <2>. QED  BY <2>1, <2>2, <1>1, <1>2 DEF Bounded
<1>13. CASE UNCHANGED <<cstack, traps, mode>>
  BY <1>13 DEF Bounded
<1>14. \/ PushContextI \/ PopContextI \/ CatchI \/ PopCatchI \/ CallCode \/ CallEval
       \/ CallCompileFn \/ CallCompileLambda \/ SignalI \/ ExitI \/ UNCHANGED <<cstack, traps, mode>>
  BY DEF Instruction, PushI, PopI, ChewTopI, PushFromStackI, PopToStackI, ResolveI, BindVarI,
     GoI, GoIfI, ArithI, SaveStackoffI, RestoreStackoffI,
     CallList, CallCompare, CallBind, CallFunction, CallRead, CallPrint, Straight, Jump, context
<1>. QED  BY <1>4, <1>5, <1>6, <1>7, <1>8, <1>9, <1>10, <1>11, <1>12, <1>13, <1>14

(* An error goes back to a level at which a chunk was running.             *)
LEMMA RaiseBounded ==
  ASSUME Bounded, NEW e, RaiseToCatch(e) \/ RaiseToEval(e) \/ RaiseToMain(e)
  PROVE  Bounded'
<1>. DEFINE k == Catcher(e)
<1>1. IsSeq(traps) /\ Len(traps) \in Nat /\ DOMAIN traps = 1 .. Len(traps) /\ Len(cstack) \in Nat
  BY SeqFacts DEF Bounded, LevelsBounded
<1>2. k \in 1 .. Len(traps)
  <2>1. PICK S : S = {i \in DOMAIN traps : Wants(i, e)}
    OBVIOUS
  <2>2. S \subseteq 1 .. Len(traps) /\ S # {} /\ k = Max(S)
    BY <2>1, <1>1 DEF RaiseToCatch, RaiseToEval, RaiseToMain, Caught, Catcher
  <2>. QED  BY <2>2, <1>1, MaxFacts
<1>3. /\ traps[k].lvl <= Len(cstack) /\ cstack' = SubSeq(cstack, 1, traps[k].lvl)
      /\ traps' = SubSeq(traps, 1, k - 1)
  <2>1. Unwind(traps[k])
    BY DEF RaiseToCatch, RaiseToEval, RaiseToMain
  <2>2. Caught(e)
    BY DEF RaiseToCatch, RaiseToEval, RaiseToMain
  <2>3. mode[2] = e
    BY <2>2, RaisingFacts DEF Caught
  <2>. QED  BY <2>1, <2>3 DEF Unwind
<1>4. traps[k].lvl \in Nat /\ traps[k].lvl - 1 <= MaxLevel
  BY <1>2 DEF Bounded, LevelsBounded
<1>5. IsSeq(cstack') /\ Len(cstack') = traps[k].lvl
  BY <1>1, <1>3, <1>4, SeqFacts DEF Bounded
<1>6. LevelsBounded(traps')
  <2>1. k - 1 \in 0 .. Len(traps)
    BY <1>1, <1>2
  <2>. QED  BY <2>1, <1>3, BoundedTraps DEF Bounded
<1>7. MaxLevel \in Nat
  BY VmAssumption
<1>. QED  BY <1>4, <1>5, <1>6, <1>7 DEF Bounded

(* Recursion as deep as it likes: calls, evals and errors keep the context *)
(* stack within what ___vm tests, if no chunk opens a context of its own   *)
(* at the limit.                                                           *)
THEOREM MachineDepthBounded == Spec /\ []Shallow => []DepthBounded
<1>1. Init => Bounded
  <2>. SUFFICES ASSUME Init PROVE Bounded
    OBVIOUS
  <2>1. Inv
    BY InitInv
  <2>2. Len(cstack) = 1 /\ Len(traps) = 0 /\ MaxLevel \in Nat
    BY VmAssumption DEF Init
  <2>. QED  BY <2>1, <2>2 DEF Inv, Contexts, Talk, Bounded, LevelsBounded
<1>2. ASSUME Bounded, Shallow, [Next]_vmvars PROVE Bounded'
  <2>1. CASE Instruction
    BY <2>1, <1>2, InstructionBounded
  <2>2. CASE Raise
    BY <2>2, <1>2, RaiseBounded DEF Raise
  <2>3. CASE MainLoop
    <3>1. cstack' = cstack /\ Len(cstack) \in Nat /\ Len(cstack) - 1 <= MaxLevel
      BY <2>3, <1>2, BoundedContexts DEF MainLoop, context, Bounded
    <3>2. \A owner, catcher, off, frame :
            LET t == Trap(owner, catcher, off, frame) IN "lvl" \in DOMAIN t /\ t.lvl = Len(cstack)
      BY DEF Trap
    <3>3. LevelsBounded(traps')
      BY <2>3, <3>1, <3>2, <1>2, BoundedTraps DEF MainLoop, Bounded
    <3>. QED  BY <3>1, <3>3, <1>2 DEF Bounded
  <2>4. CASE Break
    <3>1. cstack' = cstack /\ traps' = traps /\ mode' \in {Undefined, Aborted}
      BY <2>4 DEF Break, Stop, context
    <3>. QED  BY <3>1, <1>2, RaisingFacts DEF Bounded
  <2>5. CASE Halted \/ UNCHANGED vmvars
    BY <2>5, <1>2 DEF Halted, vmvars, context, Bounded
  <2>. QED  BY <2>1, <2>2, <2>3, <2>4, <2>5, <1>2 DEF Next, Step
<1>3. Bounded => DepthBounded
  BY DEF Bounded, DepthBounded
<1>. QED  BY <1>1, <1>2, <1>3, PTL DEF Spec

-------------------------------------------------------------------------------
(* The chunk of the main loop: push READ, call it, push EVAL, call it,     *)
(* push PRINT, call it, exit.                                              *)

(* A compilation that no error has stopped.                                *)
Going(c) == {"code", "labels", "level", "ok"} \subseteq DOMAIN c /\ c.ok = TRUE /\ IsSeq(c.code)
Has(code, i, op, x) == code[i][1] = op /\ code[i][2] = x
Keeps(c, d) ==
  /\ Going(d) /\ d.labels = c.labels
  /\ \A h \in 1 .. Len(c.code) : \A op, x : Has(c.code, h, op, x) => Has(d.code, h, op, x)
Emitted(c, op, x, d) ==
  Keeps(c, d) /\ Len(d.code) = Len(c.code) + 1 /\ Has(d.code, Len(c.code) + 1, op, x)
Called(c, v, n, d) ==
  /\ Keeps(c, d) /\ Len(d.code) = Len(c.code) + 2
  /\ Has(d.code, Len(c.code) + 1, "push", v) /\ Has(d.code, Len(c.code) + 2, "call", n)

LEMMA EmitFacts ==
  ASSUME NEW c, Going(c), NEW op, NEW x, NEW effect
  PROVE  Emitted(c, op, x, Emit(c, op, x, effect))
<1>. PICK d : d = Emit(c, op, x, effect)
  OBVIOUS
<1>1. d = [c EXCEPT !.code = Append(c.code, <<op, x, c.level>>), !.level = c.level + effect]
  BY DEF Emit, Going
<1>2. /\ DOMAIN d = DOMAIN c /\ d.ok = TRUE /\ d.labels = c.labels
      /\ d.code = Append(c.code, <<op, x, c.level>>)
  BY <1>1 DEF Going
<1>3. /\ Going(d) /\ Len(d.code) = Len(c.code) + 1
      /\ d.code[Len(c.code) + 1] = <<op, x, c.level>>
      /\ \A i \in 1 .. Len(c.code) : d.code[i] = c.code[i]
  BY <1>2, SeqFacts DEF Going
<1>. QED  BY <1>2, <1>3 DEF Emitted, Keeps, Has

(* One turn's worth: a native function is pushed and called.               *)
LEMMA CallingFacts ==
  ASSUME NEW c, Going(c), NEW v, NEW n
  PROVE  Called(c, v, n, CallFn(Push(c, v), n))
<1>. PICK b, d : b = Push(c, v) /\ d = CallFn(b, n)
  OBVIOUS
<1>1. Emitted(c, "push", v, b)
  BY EmitFacts DEF Push
<1>2. Going(b)
  BY <1>1 DEF Emitted, Keeps
<1>3. Emitted(b, "call", n, d)
  BY <1>2, EmitFacts DEF CallFn
<1>4. PICK k, i, j : k = Len(c.code) /\ i = Len(b.code) /\ j = Len(d.code)
  OBVIOUS
<1>5. k \in Nat /\ i = k + 1 /\ j = k + 2
  BY <1>1, <1>3, <1>4, SeqFacts DEF Emitted, Going
<1>6. /\ Has(b.code, i, "push", v) /\ Has(d.code, j, "call", n) /\ d.labels = c.labels
      /\ \A h \in 1 .. k : \A op, x : Has(c.code, h, op, x) => Has(b.code, h, op, x)
      /\ \A h \in 1 .. i : \A op, x : Has(b.code, h, op, x) => Has(d.code, h, op, x)
  BY <1>1, <1>3, <1>4, <1>5 DEF Emitted, Keeps
<1>7. i \in 1 .. i /\ \A h \in 1 .. k : h \in 1 .. i
  BY <1>5
<1>8. /\ Has(d.code, i, "push", v)
      /\ \A h \in 1 .. k : \A op, x : Has(c.code, h, op, x) => Has(d.code, h, op, x)
  BY <1>6, <1>7
<1>9. Going(d)
  BY <1>3 DEF Emitted, Keeps
<1>. QED  BY <1>4, <1>5, <1>6, <1>8, <1>9 DEF Called, Keeps

(* READ with no argument, EVAL and PRINT with one.                         *)
LEMMA ReplCode ==
  /\ DOMAIN ReplChunk.labels = {} /\ DOMAIN ReplChunk.code = 1 .. 7
  /\ Has(ReplChunk.code, 1, "push", Native("READ")) /\ Has(ReplChunk.code, 2, "call", 0)
  /\ Has(ReplChunk.code, 3, "push", Native("EVAL")) /\ Has(ReplChunk.code, 4, "call", 1)
  /\ Has(ReplChunk.code, 5, "push", Native("PRINT")) /\ Has(ReplChunk.code, 6, "call", 1)
  /\ Has(ReplChunk.code, 7, "exit", 0)
<1>0. PICK c0, c1, c2, c3, c4 :
       /\ c0 = NewChunk(<<NoVars>>, << >>, << >>, 0, 0, FALSE)
       /\ c1 = CallFn(Push(c0, Native("READ")), 0) /\ c2 = CallFn(Push(c1, Native("EVAL")), 1)
       /\ c3 = CallFn(Push(c2, Native("PRINT")), 1) /\ c4 = Exit(c3)
  OBVIOUS
<1>1. Going(c0) /\ Len(c0.code) = 0 /\ DOMAIN c0.labels = {}
  <2>1. << >> \in Seq({}) /\ Len(<< >>) = 0
    OBVIOUS
  <2>2. /\ {"code", "labels", "level", "ok"} \subseteq DOMAIN c0 /\ c0.ok = TRUE
        /\ c0.code = << >> /\ c0.labels = << >>
    BY <1>0 DEF NewChunk
  <2>. QED  BY <2>1, <2>2 DEF IsSeq, Going
<1>2. /\ Going(c1) /\ Len(c1.code) = 2 /\ c1.labels = c0.labels
      /\ Has(c1.code, 1, "push", Native("READ")) /\ Has(c1.code, 2, "call", 0)
  <2>1. Called(c0, Native("READ"), 0, c1)
    <3>1. Going(c0)
      BY <1>1
    <3>. QED  BY <1>0, <3>1, CallingFacts
  <2>. QED  BY <2>1, <1>1 DEF Called, Keeps
<1>3. /\ Going(c2) /\ Len(c2.code) = 4 /\ c2.labels = c1.labels
      /\ Has(c2.code, 3, "push", Native("EVAL")) /\ Has(c2.code, 4, "call", 1)
      /\ \A i \in 1 .. 2 : \A op, x : Has(c1.code, i, op, x) => Has(c2.code, i, op, x)
  <2>1. Called(c1, Native("EVAL"), 1, c2)
    <3>1. Going(c1)
      BY <1>2
    <3>. QED  BY <1>0, <3>1, CallingFacts
  <2>. QED  BY <2>1, <1>2 DEF Called, Keeps
<1>4. /\ Going(c3) /\ Len(c3.code) = 6 /\ c3.labels = c2.labels
      /\ Has(c3.code, 5, "push", Native("PRINT")) /\ Has(c3.code, 6, "call", 1)
      /\ \A i \in 1 .. 4 : \A op, x : Has(c2.code, i, op, x) => Has(c3.code, i, op, x)
  <2>1. Called(c2, Native("PRINT"), 1, c3)
    <3>1. Going(c2)
      BY <1>3
    <3>. QED  BY <1>0, <3>1, CallingFacts
  <2>. QED  BY <2>1, <1>3 DEF Called, Keeps
<1>5. /\ IsSeq(c4.code) /\ Len(c4.code) = 7 /\ c4.labels = c3.labels /\ Has(c4.code, 7, "exit", 0)
      /\ \A i \in 1 .. 6 : \A op, x : Has(c3.code, i, op, x) => Has(c4.code, i, op, x)
  <2>1. Emitted(c3, "exit", 0, c4)
    <3>1. Going(c3)
      BY <1>4
    <3>. QED  BY <1>0, <3>1, EmitFacts DEF Exit
  <2>. QED  BY <2>1, <1>4 DEF Emitted, Keeps, Going
<1>6. ReplChunk.code = c4.code /\ ReplChunk.labels = c4.labels
  BY <1>0 DEF ReplChunk, Chunk
<1>7. DOMAIN c4.code = 1 .. 7
  BY <1>5, SeqFacts
<1>. QED  BY <1>1, <1>2, <1>3, <1>4, <1>5, <1>6, <1>7

(* When the frame of the loop is running, what it is about to do.          *)
AtLoop ==
  /\ F.pc \in 1 .. 7
  /\ F.pc \in {1, 3, 5} => Op = "push"
  /\ F.pc \in {2, 4, 6} => Op = "call"
  /\ F.pc = 2 => Top = Native("READ")
  /\ F.pc = 4 => Top = Native("EVAL")
  /\ F.pc = 6 => Top = Native("PRINT")
  /\ F.pc = 7 => Op = "exit"
LEMMA LoopFrame ==
  ASSUME Inv, chunks[1] = ReplChunk, NEW P, N > 0, Frames(chunks, freed, frames, P), Stacked(P)
  PROVE  frames[1].chunk = 1 /\ frames[1].kind = "repl" /\ DOMAIN Plan(chunks[1]) \subseteq 1 .. 7
         /\ \A i \in 2 .. N : frames[i].kind # "repl"
<1>1. N \in Nat /\ N = Len(P) /\ 1 \in 1 .. N
  BY DEF Frames, N
<1>2. \A i \in 1 .. N : Placed(chunks, frames[i], P[i]) /\ (P[i].kind = "repl" <=> i = 1)
  BY <1>1 DEF Frames, N, Stacked
<1>3. \A i \in 1 .. N : frames[i].kind = "repl" <=> i = 1
  BY <1>2 DEF Placed
<1>4. frames[1].chunk = 1 /\ Level(chunks[1])
  BY <1>1, <1>2 DEF Placed
<1>5. DOMAIN Plan(chunks[1]) \subseteq DOMAIN chunks[1].code
  BY <1>4 DEF Level, IsPlan
<1>6. \A i \in 2 .. N : i \in 1 .. N /\ i # 1
  BY <1>1
<1>. QED  BY <1>1, <1>3, <1>4, <1>5, <1>6, ReplCode

LEMMA LoopFacts ==
  ASSUME Inv, chunks[1] = ReplChunk, mode = Run, N = 1
  PROVE  AtLoop /\ F = frames[1] /\ F.kind = "repl" /\ \E P : Standing(P)
<1>1. \A P : Frames(chunks, freed, frames, P) /\ Stacked(P) =>
        F = frames[1] /\ F.kind = "repl" /\ C = ReplChunk /\ DOMAIN Plan(C) \subseteq 1 .. 7
  <2>. SUFFICES ASSUME NEW P, Frames(chunks, freed, frames, P), Stacked(P)
                PROVE  F = frames[1] /\ F.kind = "repl" /\ C = ReplChunk /\ DOMAIN Plan(C) \subseteq 1 .. 7
    OBVIOUS
  <2>1. F = frames[1]
    BY RunFacts
  <2>. QED  BY <2>1, LoopFrame DEF C
<1>2. PICK P : \/ Standing(P)
               \/ Running(P) /\ F.pc - 1 \in DOMAIN Plan(C) /\ \E v : Branching(chunks, F, Top, v)
  BY Instructions
<1>3. F = frames[1] /\ F.kind = "repl" /\ C = ReplChunk /\ DOMAIN Plan(C) \subseteq 1 .. 7
  BY <1>1, <1>2 DEF Standing, Running, Good
<1>4. Standing(P)
  <2>1. \A i \in 1 .. 7 : C.code[i][1] # "catch"
    <3>. SUFFICES ASSUME NEW i \in 1 .. 7 PROVE C.code[i][1] # "catch"
      OBVIOUS
    <3>1. i = 1 \/ i = 2 \/ i = 3 \/ i = 4 \/ i = 5 \/ i = 6 \/ i = 7
      OBVIOUS
    <3>. QED  BY <3>1, <1>3, ReplCode DEF Has
  <2>. QED  BY <2>1, <1>2, <1>3 DEF Branching, C
<1>5. F.pc \in 1 .. 7 /\ Planned(chunks, F, Top, V) /\ Op = C.code[F.pc][1]
  BY <1>3, <1>4, StandFacts DEF Standing
<1>6. Known(C, F.pc) \in {AnyValue, Top}
  BY <1>5 DEF Planned, C
<1>7. Targets(C) = {1}
  BY <1>3, ReplCode DEF Targets
<1>8. ASSUME NEW i \in {2, 4, 6}, F.pc = i PROVE Top = C.code[i - 1][2]
  <2>1. C.code[i - 1][1] = "push" /\ C.code[i - 1][2] # AnyValue /\ i > 1 /\ i # 1
    BY <1>3, ReplCode DEF Has, Native, AnyValue
  <2>. QED  BY <2>1, <1>6, <1>7, <1>8 DEF Known
<1>9. /\ F.pc = 2 => Top = Native("READ") /\ Op = "call"
      /\ F.pc = 4 => Top = Native("EVAL") /\ Op = "call"
      /\ F.pc = 6 => Top = Native("PRINT") /\ Op = "call"
  BY <1>3, <1>5, <1>8, ReplCode DEF Has
<1>10. (F.pc = 1 \/ F.pc = 3 \/ F.pc = 5 => Op = "push") /\ (F.pc = 7 => Op = "exit")
  BY <1>3, <1>5, ReplCode DEF Has
<1>. QED  BY <1>3, <1>4, <1>5, <1>9, <1>10 DEF AtLoop

-------------------------------------------------------------------------------
(* What is typed, and what is answered.                                    *)

(* A form is in evaluation while its answer is out; then the frame of the  *)
(* loop waits behind its call of EVAL or stands between READ and PRINT.    *)
Owed == Len(answers) >= next - 1
Turn ==
  /\ chunks[1] = ReplChunk /\ IsSeq(answers)
  /\ Len(answers) >= next - 2
  /\ mode = Prompt => Owed
  /\ N > 1 => frames[1].pc = 5
  /\ mode = Run /\ N = 1 /\ frames[1].pc \in {1, 2, 7} => Owed

LEMMA Running1 ==
  ASSUME Inv, mode = Run
  PROVE  N \in Nat /\ N > 0 /\ frames \in Seq(FrameRecs) /\ F = frames[N] /\ N = Len(frames)
<1>1. PICK P : Running(P)
  BY DEF Inv, Shape
<1>. QED  BY <1>1 DEF Running, Frames, N, F, Last

(* What an instruction can do to the frames.                               *)
Moves ==
  \/ frames' = frames
  \/ \E g : frames' = [frames EXCEPT ![Len(frames)] = g]
  \/ \E g, h : frames' = Append([frames EXCEPT ![Len(frames)] = g], h)
  \/ Executing("exit") /\ frames' = Front(frames)
LEMMA InstructionMoves ==
  ASSUME Instruction PROVE Moves
<1>1. ASSUME NEW n, Goto(n) PROVE \E g : frames' = [frames EXCEPT ![Len(frames)] = g]
  BY <1>1 DEF Goto
<1>2. NextI => Moves
  BY <1>1 DEF NextI, Moves
<1>3. ASSUME NEW chunk, NEW kind, NEW argc, NEW lvl, NEW height, NEW entry,
             Start(chunk, kind, argc, lvl, height, entry)
      PROVE  Moves
  <2>1. PICK gs : gs = [frames EXCEPT ![Len(frames)].pc = @ + 1]
    OBVIOUS
  <2>2. \E g : gs = [frames EXCEPT ![Len(frames)] = g]
    BY <2>1
  <2>3. NextI \/ \E h : frames' = Append(gs, h)
    BY <2>1, <1>3 DEF Start
  <2>. QED  BY <2>2, <2>3, <1>2 DEF Moves
<1>4. SaveStackoffI \/ CatchI => \E g : frames' = [frames EXCEPT ![Len(frames)] = g]
  BY DEF SaveStackoffI, CatchI
<1>5. GoI \/ GoIfI => Moves
  BY <1>1, <1>2 DEF GoI, GoIfI, Moves
<1>6. CallCode => Moves
  BY <1>3 DEF CallCode
<1>7. CallEval => Moves
  <2>. SUFFICES ASSUME CallEval PROVE Moves
    OBVIOUS
  <2>1. \/ \E chunk, kind, argc, lvl, height, entry : Start(chunk, kind, argc, lvl, height, entry)
        \/ frames' = frames
    BY DEF CallEval
  <2>. QED  BY <2>1, <1>3 DEF Moves
<1>8. CallCompileFn \/ CallCompileLambda => NextI \/ frames' = frames
  BY DEF CallCompileFn, CallCompileLambda, CompileIt
<1>9. SignalI => frames' = frames
  BY DEF SignalI, Signal
<1>10. ExitI => Executing("exit") /\ frames' = Front(frames)
  BY DEF ExitI
<1>11. CASE \/ PushI \/ PopI \/ ChewTopI \/ PushFromStackI \/ PopToStackI \/ ResolveI \/ BindVarI
            \/ PushContextI \/ PopContextI \/ ArithI \/ RestoreStackoffI \/ PopCatchI
            \/ CallList \/ CallCompare \/ CallBind \/ CallFunction \/ CallRead \/ CallPrint
  BY <1>2, <1>11 DEF PushI, PopI, ChewTopI, PushFromStackI, PopToStackI, ResolveI, BindVarI, PushContextI,
     PopContextI, ArithI, RestoreStackoffI, PopCatchI, CallList, CallCompare, CallBind, CallFunction,
     CallRead, CallPrint, Straight
<1>12. \/ PushI \/ PopI \/ ChewTopI \/ PushFromStackI \/ PopToStackI \/ ResolveI \/ BindVarI
       \/ PushContextI \/ PopContextI \/ ArithI \/ RestoreStackoffI \/ PopCatchI
       \/ CallList \/ CallCompare \/ CallBind \/ CallFunction \/ CallRead \/ CallPrint
       \/ SaveStackoffI \/ CatchI \/ GoI \/ GoIfI \/ CallCode \/ CallEval
       \/ CallCompileFn \/ CallCompileLambda \/ SignalI \/ ExitI
  BY DEF Instruction
<1>13. CASE SaveStackoffI \/ CatchI
  BY <1>13, <1>4 DEF Moves
<1>14. CASE CallCompileFn \/ CallCompileLambda
  BY <1>14, <1>2, <1>8 DEF Moves
<1>15. CASE SignalI \/ ExitI
  BY <1>15, <1>9, <1>10 DEF Moves
<1>. QED  BY <1>2, <1>5, <1>6, <1>7, <1>11, <1>12, <1>13, <1>14, <1>15

(* The frame of the loop stays below the ones above it.                    *)
LEMMA InnerMoves ==
  ASSUME frames \in Seq(FrameRecs), N > 1, Moves
  PROVE  N' \in Nat /\ N' > 0 /\ frames'[1] = frames[1]
<1>0. N = Len(frames)
  BY DEF N
<1>1. N \in Nat /\ N = Len(frames) /\ 1 \in 1 .. N /\ 1 # N
  BY <1>0
<1>2. ASSUME NEW g, NEW gs, gs = [frames EXCEPT ![Len(frames)] = g]
      PROVE  gs \in Seq(FrameRecs \cup {g}) /\ Len(gs) = N /\ gs[1] = frames[1]
  BY <1>1, <1>2
<1>3. CASE frames' = frames
  BY <1>1, <1>3 DEF N
<1>4. CASE \E g : frames' = [frames EXCEPT ![Len(frames)] = g]
  BY <1>1, <1>2, <1>4 DEF N
<1>5. CASE \E g, h : frames' = Append([frames EXCEPT ![Len(frames)] = g], h)
  <2>1. PICK g, h, gs : gs = [frames EXCEPT ![Len(frames)] = g] /\ frames' = Append(gs, h)
    BY <1>5
  <2>2. IsSeq(gs) /\ Len(gs) = N /\ gs[1] = frames[1]
    BY <2>1, <1>2 DEF IsSeq
  <2>3. Len(frames') = N + 1 /\ frames'[1] = frames[1]
    BY <2>1, <2>2, <1>1, SeqFacts
  <2>. QED  BY <2>3, <1>1 DEF N
<1>6. CASE frames' = Front(frames)
  <2>1. frames' = SubSeq(frames, 1, N - 1) /\ N - 1 \in 0 .. Len(frames) /\ 1 \in 1 .. N - 1
    BY <1>1, <1>6 DEF Front
  <2>2. IsSeq(frames)
    BY DEF IsSeq
  <2>3. Len(frames') = N - 1 /\ frames'[1] = frames[1]
    BY <2>1, <2>2, SeqFacts
  <2>. QED  BY <2>3, <1>1 DEF N
<1>. QED  BY <1>3, <1>4, <1>5, <1>6 DEF Moves

(* What an instruction can do to the input, the output and the mode.       *)
LEMMA InstructionTalk ==
  ASSUME Instruction
  PROVE  /\ \/ UNCHANGED <<next, answers>>
            \/ Calling(Native("READ")) /\ next' = next + 1 /\ answers' = answers
            \/ next' = next /\ \E a : answers' = Append(answers, a)
         /\ \/ mode' = mode \/ \E e : mode' = Raising(e)
            \/ Executing("exit") /\ F.kind = "repl" /\ mode' = Prompt
         /\ mode = Run
<1>1. CASE \/ PushI \/ PopI \/ ChewTopI \/ PushFromStackI \/ PopToStackI \/ ResolveI \/ BindVarI
           \/ PushContextI \/ PopContextI \/ ArithI \/ RestoreStackoffI
           \/ CallList \/ CallCompare \/ CallBind \/ CallFunction
  BY <1>1 DEF PushI, PopI, ChewTopI, PushFromStackI, PopToStackI, ResolveI, BindVarI, PushContextI,
     PopContextI, ArithI, RestoreStackoffI, CallList, CallCompare, Compares, CallBind, CallFunction,
     Straight, io, Computes, Calling, Executing
<1>2. CASE SaveStackoffI \/ CatchI \/ PopCatchI \/ GoI \/ GoIfI
  BY <1>2 DEF SaveStackoffI, CatchI, PopCatchI, GoI, GoIfI, Jump, io, Executing
<1>3. CASE CallRead
  BY <1>3 DEF CallRead, Calling, Executing
<1>4. CASE CallPrint
  <2>1. next' = next /\ mode' = mode /\ mode = Run /\ answers' = Append(answers, <<"value", Arg(1)>>)
    BY <1>4 DEF CallPrint, Calling, Executing
  <2>. QED  BY <2>1
<1>5. CASE CallCode \/ CallEval
  BY <1>5 DEF CallCode, CallEval, Start, Calling, Executing, io
<1>6. CASE CallCompileFn \/ CallCompileLambda
  BY <1>6 DEF CallCompileFn, CallCompileLambda, CompileIt, Calling, Executing, io
<1>7. CASE SignalI
  BY <1>7 DEF SignalI, Signal, Calling, Compares, Computes, Executing, io
<1>8. CASE ExitI
  BY <1>8 DEF ExitI, Executing, io
<1>. QED  BY <1>1, <1>2, <1>3, <1>4, <1>5, <1>6, <1>7, <1>8 DEF Instruction

LEMMA InstructionChunks ==
  ASSUME Instruction PROVE chunks' = chunks \/ \E x : chunks' = Append(chunks, x)
<1>1. CASE CallEval
  BY <1>1 DEF CallEval
<1>2. CASE CallCompileFn \/ CallCompileLambda
  BY <1>2 DEF CallCompileFn, CallCompileLambda, CompileIt
<1>3. CASE ExitI \/ SignalI \/ CallCode
  BY <1>3 DEF ExitI, SignalI, Signal, CallCode, program
<1>4. \/ CallEval \/ CallCompileFn \/ CallCompileLambda \/ ExitI \/ SignalI \/ CallCode
      \/ UNCHANGED program
  BY DEF Instruction, PushI, PopI, ChewTopI, PushFromStackI, PopToStackI, ResolveI, BindVarI,
     PushContextI, PopContextI, GoI, GoIfI, ArithI, SaveStackoffI, RestoreStackoffI, CatchI, PopCatchI,
     CallList, CallCompare, CallBind, CallFunction, CallRead, CallPrint, Straight, Jump
<1>5. CASE UNCHANGED program
  BY <1>5 DEF program
<1>. QED  BY <1>1, <1>2, <1>3, <1>4, <1>5

(* What the loop itself does.                                              *)
LEMMA LoopActs ==
  ASSUME AtLoop, Instruction
  PROVE  PushI \/ CallRead \/ CallPrint \/ CallEval \/ (SignalI /\ Op = "call") \/ ExitI
<1>1. Op \in {"push", "call", "exit"}
  BY DEF AtLoop
<1>2. Op = "call" => F.pc \in {2, 4, 6} /\ Top \in {Native("READ"), Native("EVAL"), Native("PRINT")}
  BY DEF AtLoop
<1>3. /\ Native("READ") \notin {Native(f) : f \in {"LIST", ">", "<", "BIND", "FUNCTION", "COMPILE-FN", "COMPILE-LAMBDA"}}
      /\ Native("EVAL") \notin {Native(f) : f \in {"LIST", ">", "<", "BIND", "FUNCTION", "COMPILE-FN", "COMPILE-LAMBDA"}}
      /\ Native("PRINT") \notin {Native(f) : f \in {"LIST", ">", "<", "BIND", "FUNCTION", "COMPILE-FN", "COMPILE-LAMBDA"}}
  BY DEF Native
<1>4. \A f : Native(f)[1] # "code"
  BY DEF Native
<1>5. ~ (PopI \/ ChewTopI \/ PushFromStackI \/ PopToStackI \/ ResolveI \/ BindVarI)
  BY <1>1 DEF PopI, ChewTopI, PushFromStackI, PopToStackI, ResolveI, BindVarI, Executing
<1>6. ~ (PushContextI \/ PopContextI \/ GoI \/ GoIfI \/ ArithI \/ SaveStackoffI \/ RestoreStackoffI)
  BY <1>1 DEF PushContextI, PopContextI, GoI, GoIfI, ArithI, SaveStackoffI, RestoreStackoffI,
     Computes, Executing
<1>7. ~ (CatchI \/ PopCatchI)
  BY <1>1 DEF CatchI, PopCatchI, Executing
<1>8. ~ (CallCode \/ CallList \/ CallBind \/ CallFunction \/ CallCompileFn \/ CallCompileLambda)
  BY <1>2, <1>3, <1>4 DEF CallCode, CallList, CallBind, CallFunction, CallCompileFn,
     CallCompileLambda, Calling, Executing
<1>9. ~ CallCompare
  BY <1>2, <1>3 DEF CallCompare, Compares, Calling, Executing
<1>10. SignalI => Op = "call"
  BY <1>1 DEF SignalI, Computes, Compares, Calling, Executing
<1>. QED  BY <1>2, <1>5, <1>6, <1>7, <1>8, <1>9, <1>10 DEF Instruction

(* The loop's frame at work: one step of a turn.                           *)
LEMMA LoopTurns ==
  ASSUME Inv, Turn, mode = Run, N = 1, Instruction
  PROVE  Turn'
<1>1. AtLoop /\ F = frames[1] /\ F.kind = "repl"
  BY LoopFacts DEF Turn
<1>2. PushI \/ CallRead \/ CallPrint \/ CallEval \/ (SignalI /\ Op = "call") \/ ExitI
  BY <1>1, LoopActs
<1>3. N = 1 /\ frames \in Seq(FrameRecs) /\ N = Len(frames) /\ F.pc \in 1 .. 7
  BY <1>1, Running1 DEF AtLoop
<1>4. /\ next \in Nat /\ Len(answers) \in Nat /\ IsSeq(answers)
      /\ \A a : IsSeq(Append(answers, a)) /\ Len(Append(answers, a)) = Len(answers) + 1
  <2>1. next \in 1 .. Len(session) + 2 /\ Len(session) \in Nat
    BY VmAssumption DEF Inv, Talk
  <2>. QED  BY <2>1, SeqFacts DEF Turn
<1>5. chunks'[1] = ReplChunk
  <2>1. IsSeq(chunks) /\ Len(chunks) \in Nat /\ 1 \in 1 .. Len(chunks)
    BY SeqFacts DEF Inv, Program
  <2>2. chunks' = chunks \/ \E x : chunks' = Append(chunks, x)
    BY <1>2 DEF PushI, CallRead, CallPrint, CallEval, SignalI, Signal, ExitI, Straight, program
  <2>. QED  BY <2>1, <2>2, SeqFacts DEF Turn
<1>6. NextI => N' = 1 /\ frames'[1].pc = F.pc + 1
  <2>. SUFFICES ASSUME NextI PROVE N' = 1 /\ frames'[1].pc = F.pc + 1
    OBVIOUS
  <2>1. Goto(F.pc + 1) /\ F.pc + 1 \in Nat
    BY <1>3 DEF NextI
  <2>2. Touched /\ F'.pc = F.pc + 1
    BY <2>1, <1>3, GotoFacts
  <2>3. Len(frames') = 1 /\ F' = frames'[1]
    BY <2>2, <1>3 DEF Touched, F, Last
  <2>. QED  BY <2>2, <2>3 DEF N
<1>7. CASE PushI
  <2>1. NextI /\ UNCHANGED <<next, answers, mode>> /\ Op = "push"
    BY <1>7 DEF PushI, Straight, Executing, io
  <2>2. F.pc \notin {2, 4, 6, 7}
    BY <2>1, <1>1 DEF AtLoop
  <2>3. F.pc \in {1, 3, 5}
    BY <2>2, <1>3
  <2>4. frames'[1].pc \in {2, 4, 6} /\ (frames'[1].pc = 2 => F.pc = 1)
    BY <2>3, <1>3, <1>6, <2>1
  <2>. QED  BY <2>1, <2>4, <1>1, <1>3, <1>4, <1>5, <1>6, RaisingFacts DEF Turn, Owed
<1>8. /\ Calling(Native("READ")) => F.pc = 2
      /\ Calling(Native("EVAL")) => F.pc = 4
      /\ Calling(Native("PRINT")) => F.pc = 6
      /\ Executing("exit") => F.pc = 7
  BY <1>1, <1>3 DEF Calling, Executing, AtLoop, Native
<1>9. CASE CallRead
  <2>1. F.pc = 2 /\ NextI /\ next' = next + 1 /\ answers' = answers /\ mode' = Run
    BY <1>8, <1>9 DEF CallRead
  <2>2. Owed
    BY <2>1, <1>1, <1>3 DEF Turn
  <2>. QED  BY <2>1, <2>2, <1>4, <1>5, <1>6, RaisingFacts DEF Turn, Owed
<1>10. CASE CallPrint
  <2>1. F.pc = 6 /\ NextI /\ next' = next /\ mode' = Run
        /\ answers' = Append(answers, <<"value", Arg(1)>>)
    BY <1>8, <1>10 DEF CallPrint
  <2>2. IsSeq(answers') /\ Len(answers') = Len(answers) + 1
    BY <2>1, <1>4
  <2>. QED  BY <2>1, <2>2, <1>4, <1>5, <1>6, RaisingFacts DEF Turn, Owed
<1>11. CASE SignalI /\ Op = "call"
  <2>1. /\ frames' = frames /\ answers' = answers /\ \E e : mode' = Raising(e)
        /\ next' = next \/ (Calling(Native("READ")) /\ next' = next + 1)
    BY <1>11 DEF SignalI, Signal, io
  <2>2. mode' \notin {Run, Prompt}
    BY <2>1, RaisingFacts
  <2>3. Calling(Native("READ")) => Owed
    BY <1>1, <1>3, <1>8 DEF Turn
  <2>4. Len(answers') >= next' - 2
    <3>1. CASE next' = next
      BY <3>1, <2>1 DEF Turn
    <3>2. CASE next' = next + 1 /\ Owed
      BY <3>2, <2>1, <1>4 DEF Owed
    <3>. QED  BY <3>1, <3>2, <2>1, <2>3
  <2>5. N' = 1
    BY <2>1, <1>3 DEF N
  <2>. QED  BY <2>1, <2>2, <2>4, <2>5, <1>4, <1>5 DEF Turn
<1>12. CASE ExitI
  <2>1. F.pc = 7 /\ frames' = Front(frames) /\ next' = next /\ answers' = answers
    BY <1>8, <1>12 DEF ExitI, io
  <2>2. Owed
    BY <2>1, <1>1, <1>3 DEF Turn
  <2>3. N' = 0
    BY <2>1, <1>3 DEF N, Front
  <2>. QED  BY <2>1, <2>2, <2>3, <1>4, <1>5 DEF Turn, Owed
<1>13. CASE CallEval
  <2>1. F.pc = 4 /\ next' = next /\ answers' = answers
    BY <1>8, <1>13 DEF CallEval, io
  <2>2. mode' # Prompt
    <3>1. mode' = mode \/ \E e : mode' = Raising(e)
      BY <1>13 DEF CallEval, Start
    <3>. QED  BY <3>1, RaisingFacts
  <2>3. CASE NextI
    BY <2>1, <2>2, <2>3, <1>4, <1>5, <1>6 DEF Turn, Owed
  <2>4. CASE frames' = frames /\ mode' = Raising(SigError)
    <3>1. N' = 1 /\ mode' # Run
      BY <2>4, <1>3, RaisingFacts DEF N
    <3>. QED  BY <2>1, <2>2, <3>1, <1>4, <1>5 DEF Turn
  <2>5. CASE mode' = mode /\ \E h : frames' = Append([frames EXCEPT ![Len(frames)].pc = @ + 1], h)
    <3>1. PICK gs, h : gs = [frames EXCEPT ![Len(frames)].pc = @ + 1] /\ frames' = Append(gs, h)
      BY <2>5
    <3>2. frames[1] \in FrameRecs
      <4>1. Len(frames) = 1 /\ frames \in Seq(FrameRecs)
        BY <1>3
      <4>. QED  BY <4>1
    <3>3. gs = [frames EXCEPT ![1] = [frames[1] EXCEPT !.pc = 5]]
      <4>1. Len(frames) = 1 /\ frames[1].pc = 4
        BY <2>1, <1>1, <1>3
      <4>2. gs = [frames EXCEPT ![1].pc = @ + 1]
        BY <3>1, <4>1
      <4>3. gs = [frames EXCEPT ![1] = [frames[1] EXCEPT !.pc = frames[1].pc + 1]]
        BY <4>2
      <4>. QED  BY <4>1, <4>3
    <3>4. IsSeq(gs) /\ Len(gs) = 1 /\ gs[1] = [frames[1] EXCEPT !.pc = 5]
      <4>1. gs \in Seq(FrameRecs \cup {[frames[1] EXCEPT !.pc = 5]}) /\ Len(gs) = 1
            /\ gs[1] = [frames[1] EXCEPT !.pc = 5]
        BY <3>3, <1>3
      <4>. QED  BY <4>1 DEF IsSeq
    <3>5. [frames[1] EXCEPT !.pc = 5].pc = 5
      BY <3>2 DEF FrameRecs
    <3>6. Len(frames') = 2 /\ frames'[1].pc = 5
      <4>1. IsSeq(gs) /\ 1 \in 1 .. Len(gs)
        BY <3>4
      <4>2. Len(frames') = Len(gs) + 1 /\ frames'[1] = gs[1]
        BY <4>1, <3>1, SeqFacts
      <4>. QED  BY <4>2, <3>4, <3>5
    <3>7. N' = 2
      BY <3>6 DEF N
    <3>. QED  BY <2>1, <2>2, <3>6, <3>7, <1>4, <1>5 DEF Turn
  <2>6. \/ NextI
        \/ frames' = frames /\ mode' = Raising(SigError)
        \/ mode' = mode /\ \E h : frames' = Append([frames EXCEPT ![Len(frames)].pc = @ + 1], h)
    BY <1>13 DEF CallEval, Start
  <2>. QED  BY <2>3, <2>4, <2>5, <2>6
<1>. QED  BY <1>2, <1>7, <1>9, <1>10, <1>11, <1>12, <1>13

(* What is run above the loop asks for nothing and keeps what is owed.     *)
LEMMA InnerTurns ==
  ASSUME Inv, Turn, mode = Run, N > 1, OnlyLoopReads, Instruction
  PROVE  Turn'
<1>1. N \in Nat /\ frames \in Seq(FrameRecs) /\ N = Len(frames) /\ F = frames[N]
  BY Running1
<1>2. /\ next \in Nat /\ Len(answers) \in Nat /\ IsSeq(answers)
      /\ \A a : IsSeq(Append(answers, a)) /\ Len(Append(answers, a)) = Len(answers) + 1
  <2>1. next \in 1 .. Len(session) + 2 /\ Len(session) \in Nat
    BY VmAssumption DEF Inv, Talk
  <2>. QED  BY <2>1, SeqFacts DEF Turn
<1>3. chunks'[1] = ReplChunk
  <2>1. IsSeq(chunks) /\ Len(chunks) \in Nat /\ 1 \in 1 .. Len(chunks)
    BY SeqFacts DEF Inv, Program
  <2>2. chunks' = chunks \/ \E x : chunks' = Append(chunks, x)
    BY InstructionChunks
  <2>3. chunks'[1] = chunks[1]
    BY <2>1, <2>2, SeqFacts
  <2>. QED  BY <2>3 DEF Turn
<1>4. N' \in Nat /\ N' > 0 /\ frames'[1].pc = 5
  <2>1. frames'[1] = frames[1] /\ N' \in Nat /\ N' > 0
    BY <1>1, InstructionMoves, InnerMoves
  <2>. QED  BY <2>1 DEF Turn
<1>5. F.kind # "repl"
  <2>1. PICK P : Running(P)
    BY DEF Inv, Shape
  <2>2. \A i \in 2 .. N : frames[i].kind # "repl"
    BY <2>1, LoopFrame DEF Running, Good, Turn
  <2>. QED  BY <2>2, <1>1
<1>6. mode' # Prompt
  <2>1. mode' = mode \/ \E e : mode' = Raising(e)
    BY <1>5, InstructionTalk
  <2>. QED  BY <2>1, RaisingFacts
<1>7. IsSeq(answers') /\ Len(answers') >= next' - 2
  <2>1. ~Calling(Native("READ"))
    BY <1>1 DEF OnlyLoopReads
  <2>2. UNCHANGED <<next, answers>> \/ (next' = next /\ \E a : answers' = Append(answers, a))
    BY <2>1, InstructionTalk
  <2>3. Len(answers) >= next - 2
    BY DEF Turn
  <2>4. CASE UNCHANGED <<next, answers>>
    BY <2>3, <2>4, <1>2
  <2>5. CASE next' = next /\ \E a : answers' = Append(answers, a)
    <3>1. IsSeq(answers') /\ Len(answers') = Len(answers) + 1
      BY <2>5, <1>2
    <3>. QED  BY <3>1, <2>3, <2>5, <1>2
  <2>. QED  BY <2>2, <2>4, <2>5
<1>. QED  BY <1>3, <1>4, <1>6, <1>7 DEF Turn

(* The loop has no catch form: what is caught is caught above it.          *)
LEMMA CaughtAbove ==
  ASSUME Inv, chunks[1] = ReplChunk, NEW P, Stopped(P), NEW e, RaiseToCatch(e)
  PROVE  traps[Catcher(e)].frame \in 2 .. N /\ N \in Nat
<1>. DEFINE k == Catcher(e)
            n == traps[k].frame
<1>1. Caught(e) /\ traps[k].owner = "catch"
  BY DEF RaiseToCatch
<1>2. ~Pending(P, traps, Len(cstack))
  BY <1>1, PendingCatches
<1>3. N > 0 /\ Frames(chunks, freed, frames, P) /\ Rests(chunks, F, P[N]) /\ Good(P, traps)
  BY <1>2 DEF Stopped
<1>4. Stacked(P) /\ Len(P) = N /\ N \in Nat
  BY <1>3 DEF Good, Frames, N
<1>5. k \in 1 .. Len(traps)
  BY <1>1, CatcherFacts
<1>6. n \in 1 .. N /\ P[n].catch # 0
  BY <1>1, <1>3, <1>4, <1>5 DEF Good, TrapsFit, TrapFits
<1>7. n # 1
  <2>. SUFFICES ASSUME n = 1 PROVE FALSE
    OBVIOUS
  <2>1. 1 \in 1 .. N /\ P[1].catch # 0
    BY <1>6
  <2>2. PICK c, i : c = chunks[frames[1].chunk] /\ i = P[1].catch
    OBVIOUS
  <2>3. i \in DOMAIN Plan(c) /\ c.code[i][1] = "catch"
    BY <1>3, <1>4, <2>1, <2>2, CatchingFrame
  <2>4. c = ReplChunk /\ i \in 1 .. 7
    BY <1>3, <1>4, <2>2, <2>3, LoopFrame
  <2>5. i = 1 \/ i = 2 \/ i = 3 \/ i = 4 \/ i = 5 \/ i = 6 \/ i = 7
    BY <2>4
  <2>. QED  BY <2>3, <2>4, <2>5, ReplCode DEF Has
<1>. QED  BY <1>4, <1>6, <1>7

(* An error leaves the loop where it waits, or ends its turn aloud.        *)
LEMMA RaiseTurns ==
  ASSUME Inv, Turn, NEW e, RaiseToCatch(e) \/ RaiseToEval(e) \/ RaiseToMain(e)
  PROVE  Turn'
<1>. DEFINE t == traps[Catcher(e)]
<1>1. Caught(e) /\ Unwind(t)
  BY DEF RaiseToCatch, RaiseToEval, RaiseToMain
<1>2. chunks' = chunks
  BY <1>1 DEF Unwind, program
<1>3. mode \notin {Run, Prompt, Done}
  BY <1>1, CatcherFacts
<1>4. PICK P : Stopped(P)
  BY <1>3 DEF Inv, Shape
<1>5. N = Len(frames) /\ N \in Nat /\ frames \in Seq(FrameRecs) /\ Stacked(P) /\ Len(P) = N /\ N > 0
  BY <1>4 DEF Stopped, Good, Pending, Frames, N
<1>6. IsSeq(frames)
  BY <1>5 DEF IsSeq
<1>7. CASE RaiseToCatch(e)
  <2>1. /\ mode' = Run /\ UNCHANGED io
        /\ \E at : frames' = [SubSeq(frames, 1, t.frame) EXCEPT ![t.frame].pc = at + 1]
    BY <1>7 DEF RaiseToCatch
  <2>2. t.frame \in 2 .. N
    BY <1>4, <1>7, CaughtAbove DEF Turn
  <2>3. PICK fs, n, g : /\ n = t.frame /\ fs = SubSeq(frames, 1, n)
                        /\ frames' = [fs EXCEPT ![n] = g]
    BY <2>1
  <2>4. n \in 0 .. Len(frames) /\ 1 \in 1 .. n /\ 1 # n /\ n > 1 /\ n \in Nat
    BY <2>2, <2>3, <1>5
  <2>5. IsSeq(fs) /\ Len(fs) = n /\ fs[1] = frames[1]
    BY <2>3, <2>4, <1>6, SeqFacts
  <2>6. PICK S : fs \in Seq(S)
    BY <2>5 DEF IsSeq
  <2>7. frames' \in Seq(S \cup {g}) /\ Len(frames') = n /\ frames'[1] = fs[1]
    <3>1. frames' = [fs EXCEPT ![n] = g] /\ n \in 1 .. Len(fs) /\ 1 \in 1 .. Len(fs) /\ n # 1
      BY <2>3, <2>4, <2>5
    <3>2. frames' \in Seq(S \cup {g}) /\ Len(frames') = Len(fs) /\ frames'[1] = fs[1]
      BY <3>1, <2>6
    <3>. QED  BY <3>2, <2>5
  <2>8. frames[1].pc = 5
    BY <2>2, <1>5 DEF Turn
  <2>. QED  BY <2>1, <2>4, <2>5, <2>7, <2>8, <1>2, RaisingFacts DEF Turn, N, io
<1>8. CASE RaiseToEval(e)
  <2>1. mode' = mode /\ UNCHANGED io /\ frames' = SubSeq(frames, 1, t.frame - 1) /\ t.owner = "eval"
    BY <1>8 DEF RaiseToEval
  <2>2. t.frame \in 2 .. N + 1
    <3>1. Catcher(e) \in 1 .. Len(traps) /\ IsSeq(traps) /\ Len(traps) \in Nat
      BY <1>1, CatcherFacts
    <3>2. CASE Good(P, traps)
      BY <2>1, <3>1, <3>2, <1>5 DEF Good, TrapsFit, TrapFits
    <3>3. CASE Pending(P, traps, Len(cstack))
      <4>1. Catcher(e) = Len(traps)
        BY <3>3, <1>1, PendingCatches
      <4>. QED  BY <4>1, <3>3, <1>5 DEF Pending
    <3>. QED  BY <3>2, <3>3, <1>4 DEF Stopped
  <2>3. PICK n : n = t.frame - 1
    OBVIOUS
  <2>4. n \in 0 .. Len(frames) /\ n \in 1 .. N /\ 1 \in 1 .. n
    BY <2>2, <2>3, <1>5
  <2>5. Len(frames') = n /\ frames'[1] = frames[1]
    BY <2>1, <2>3, <2>4, <1>6, SeqFacts
  <2>6. n > 1 => frames[1].pc = 5
    BY <2>4, <1>5 DEF Turn
  <2>. QED  BY <2>1, <2>4, <2>5, <2>6, <1>2, <1>3 DEF Turn, N, io
<1>9. CASE RaiseToMain(e)
  <2>1. frames' = << >> /\ next' = next /\ mode' \in {Done, Prompt} /\ \E a : answers' = Append(answers, a)
    BY <1>9 DEF RaiseToMain, Reported
  <2>2. IsSeq(answers') /\ Len(answers') = Len(answers) + 1 /\ Len(answers) \in Nat
    BY <2>1, SeqFacts DEF Turn
  <2>3. next \in Nat
    BY VmAssumption DEF Inv, Talk
  <2>4. Len(answers') >= next' - 1
    BY <2>1, <2>2, <2>3 DEF Turn
  <2>5. N' = 0
    BY <2>1 DEF N
  <2>. QED  BY <2>1, <2>2, <2>3, <2>4, <2>5, <1>2, RaisingFacts DEF Turn, Owed
<1>. QED  BY <1>7, <1>8, <1>9

LEMMA NextTurns ==
  ASSUME Inv, Turn, OnlyLoopReads, [Next]_vmvars
  PROVE  Turn'
<1>1. CASE Instruction
  <2>1. mode = Run
    BY <1>1, InstructionTalk
  <2>2. N = 1 \/ N > 1
    BY <2>1, Running1
  <2>. QED  BY <1>1, <2>1, <2>2, LoopTurns, InnerTurns
<1>2. CASE Raise
  BY <1>2, RaiseTurns DEF Raise
<1>3. CASE MainLoop
  <2>1. /\ mode = Prompt /\ mode' = Run /\ chunks' = chunks /\ next' = next /\ answers' = answers
        /\ \E g : frames' = <<g>>
    BY <1>3 DEF MainLoop, program, io
  <2>2. N' = 1 /\ Owed
    BY <2>1 DEF N, Turn
  <2>. QED  BY <2>1, <2>2, RaisingFacts DEF Turn, Owed
<1>4. CASE Break \/ Halted \/ UNCHANGED vmvars
  <2>1. UNCHANGED <<chunks, next, answers, frames>> /\ (mode' = mode \/ mode' \in {Undefined, Aborted})
    BY <1>4 DEF Break, Stop, Halted, vmvars, program, io
  <2>. QED  BY <2>1, RaisingFacts DEF Turn, Owed, N
<1>. QED  BY <1>1, <1>2, <1>3, <1>4 DEF Next, Step

(* No form goes unanswered: when the loop asks for the next one, every one *)
(* it read before has printed a value or an error, however deep in calls,  *)
(* evals and catch forms the error arose.                                  *)
THEOREM MachineNoneSilent == Spec /\ []Verified /\ []OnlyLoopReads => []NoneSilent
<1>1. Init => Turn
  <2>. SUFFICES ASSUME Init PROVE Turn
    OBVIOUS
  <2>1. /\ answers = << >> /\ next = 1 /\ chunks = <<ReplChunk>> /\ frames = << >>
    BY DEF Init
  <2>2. IsSeq(answers) /\ Len(answers) = 0
    <3>1. << >> \in Seq({}) /\ Len(<< >>) = 0
      OBVIOUS
    <3>. QED  BY <2>1, <3>1 DEF IsSeq
  <2>. QED  BY <2>1, <2>2 DEF Turn, Owed, N
<1>2. Inv /\ Turn /\ OnlyLoopReads /\ [Next]_vmvars => Turn'
  BY NextTurns
<1>3. Turn => NoneSilent
  BY DEF Turn, Owed, NoneSilent
<1>. QED  BY <1>1, <1>2, <1>3, MachineInvariant, PTL DEF Spec

-------------------------------------------------------------------------------
(* The discipline of Stacks, step by step.                                 *)

(* Counting the members of a set of numbers up to n.                       *)
LEMMA CountStep ==
  ASSUME NEW S, S \subseteq Nat, NEW n \in Nat, IsFiniteSet({i \in S : i <= n})
  PROVE  /\ IsFiniteSet({i \in S : i <= n + 1})
         /\ CountTo(S, n) \in Nat
         /\ CountTo(S, n + 1) = CountTo(S, n) + (IF n + 1 \in S THEN 1 ELSE 0)
<1>. DEFINE A == {i \in S : i <= n}
            B == {i \in S : i <= n + 1}
<1>0. \A i \in S : (i <= n + 1 <=> i <= n \/ i = n + 1) /\ ~(n + 1 <= n)
  OBVIOUS
<1>1. CASE n + 1 \in S
  <2>1. B = A \cup {n + 1} /\ n + 1 \notin A
    BY <1>0, <1>1, Zenon
  <2>. HIDE DEF A, B
  <2>2. IsFiniteSet(B) /\ Cardinality(B) = Cardinality(A) + 1 /\ Cardinality(A) \in Nat
    BY <2>1, FS_AddElement, FS_CardinalityType DEF A
  <2>. QED  BY <2>2, <1>1 DEF CountTo, A, B
<1>2. CASE n + 1 \notin S
  <2>1. B = A
    BY <1>0, <1>2, Zenon
  <2>2. Cardinality(A) \in Nat
    BY FS_CardinalityType
  <2>. QED  BY <2>1, <2>2, <1>2 DEF CountTo
<1>. QED  BY <1>1, <1>2

(* Induction up to m, by a least counterexample.                           *)
Upto(S, m) == m \in Nat /\ S \subseteq 1 .. m
LEMMA CountFinite ==
  ASSUME NEW S, NEW m, Upto(S, m)
  PROVE  \A n \in Nat : IsFiniteSet({i \in S : i <= n}) /\ CountTo(S, n) \in Nat
<1>0. m \in Nat /\ S \subseteq 1 .. m
  BY DEF Upto
<1>1. ASSUME NEW n \in Nat PROVE IsFiniteSet({i \in S : i <= n})
  <2>1. IsFiniteSet(1 .. m)
    BY <1>0, FS_Interval
  <2>2. {i \in S : i <= n} \subseteq 1 .. m
    BY <1>0
  <2>. QED  BY <2>1, <2>2, FS_Subset
<1>. QED  BY <1>1, FS_CardinalityType DEF CountTo

(* How the count grows, one number at a time.                              *)
LEMMA CountFacts ==
  ASSUME NEW S, NEW m, Upto(S, m)
  PROVE  /\ \A n \in Nat : CountTo(S, n) \in Nat
         /\ CountTo(S, 0) = 0 /\ CountTo(S, m) = Cardinality(S)
         /\ \A n \in Nat : CountTo(S, n + 1) = CountTo(S, n) + (IF n + 1 \in S THEN 1 ELSE 0)
<1>0. m \in Nat /\ S \subseteq 1 .. m
  BY DEF Upto
<1>1. \A n \in Nat : CountTo(S, n) \in Nat
  BY CountFinite
<1>2. {i \in S : i <= 0} = {} /\ {i \in S : i <= m} = S
  <2>1. \A i \in S : ~(i <= 0) /\ i <= m
    BY <1>0
  <2>. QED  BY <2>1, Zenon
<1>3. CountTo(S, 0) = 0 /\ CountTo(S, m) = Cardinality(S)
  BY <1>2, FS_EmptySet DEF CountTo
<1>4. ASSUME NEW n \in Nat
      PROVE  CountTo(S, n + 1) = CountTo(S, n) + (IF n + 1 \in S THEN 1 ELSE 0)
  <2>1. S \subseteq Nat
    BY <1>0
  <2>. QED  BY <2>1, CountFinite, CountStep
<1>. QED  BY <1>1, <1>3, <1>4

(* Counts do not fall.                                                     *)
LEMMA CountGrows ==
  ASSUME NEW S, NEW m, Upto(S, m), NEW a \in Nat, NEW b \in Nat, a <= b
  PROVE  /\ CountTo(S, a) <= CountTo(S, b)
         /\ b \in S /\ a < b => CountTo(S, a) < CountTo(S, b)
<1>. DEFINE G(n) == CountTo(S, n)
<1>1. \A n \in Nat : G(n) \in Nat /\ G(n + 1) = G(n) + (IF n + 1 \in S THEN 1 ELSE 0)
  BY CountFacts
<1>. HIDE DEF G
<1>2. \A n \in Nat : a <= n => G(a) <= G(n)
  <2>. DEFINE Z == {n \in Nat : a <= n /\ ~(G(a) <= G(n))}
  <2>. SUFFICES ASSUME Z # {} PROVE FALSE
    OBVIOUS
  <2>1. PICK z \in Z : \A y \in Z : z <= y
    BY Least
  <2>2. z \in Nat /\ a <= z /\ ~(G(a) <= G(z))
    OBVIOUS
  <2>3. z # a
    BY <2>2, <1>1
  <2>4. z - 1 \in Nat /\ a <= z - 1 /\ z - 1 \notin Z
    BY <2>1, <2>2, <2>3
  <2>5. G(a) <= G(z - 1)
    BY <2>4
  <2>6. G(z - 1 + 1) = G(z - 1) + (IF z - 1 + 1 \in S THEN 1 ELSE 0) /\ z - 1 + 1 = z
    BY <2>4, <2>2, <1>1
  <2>. QED  BY <2>2, <2>4, <2>5, <2>6, <1>1
<1>3. ASSUME b \in S, a < b PROVE G(a) < G(b)
  <2>1. b - 1 \in Nat /\ a <= b - 1 /\ b - 1 + 1 = b
    BY <1>3
  <2>2. G(a) <= G(b - 1) /\ G(b) = G(b - 1) + 1
    <3>1. G(a) <= G(b - 1)
      BY <2>1, <1>2
    <3>2. G(b - 1 + 1) = G(b - 1) + (IF b - 1 + 1 \in S THEN 1 ELSE 0)
      BY <2>1, <1>1
    <3>. QED  BY <3>1, <3>2, <2>1, <1>3
  <2>. QED  BY <2>1, <2>2, <1>1
<1>. QED  BY <1>2, <1>3 DEF G

(* Every count is reached by a member.                                     *)
LEMMA CountReached ==
  ASSUME NEW S, NEW m, Upto(S, m), NEW k \in 1 .. Cardinality(S)
  PROVE  \E i \in S : CountTo(S, i) = k
<1>0. m \in Nat /\ S \subseteq 1 .. m
  BY DEF Upto
<1>. DEFINE G(n) == CountTo(S, n)
            Z == {n \in Nat : k <= G(n)}
<1>1. /\ \A n \in Nat : G(n) \in Nat /\ G(n + 1) = G(n) + (IF n + 1 \in S THEN 1 ELSE 0)
      /\ G(0) = 0 /\ G(m) = Cardinality(S)
  BY CountFacts
<1>. HIDE DEF G
<1>2. m \in Z
  BY <1>0, <1>1
<1>3. PICK z \in Z : \A y \in Z : z <= y
  <2>1. Z \subseteq Nat /\ Z # {}
    BY <1>2
  <2>. HIDE DEF Z
  <2>. QED  BY <2>1, Least
<1>4. z \in Nat /\ k <= G(z)
  OBVIOUS
<1>5. z # 0 /\ k \in Nat /\ k > 0
  BY <1>1, <1>4
<1>6. z - 1 \in Nat /\ z - 1 \notin Z
  BY <1>3, <1>4, <1>5
<1>7. ~(k <= G(z - 1)) /\ G(z - 1) \in Nat
  BY <1>6, <1>1
<1>8. G(z) = G(z - 1) + (IF z \in S THEN 1 ELSE 0)
  <2>1. G(z - 1 + 1) = G(z - 1) + (IF z - 1 + 1 \in S THEN 1 ELSE 0) /\ z - 1 + 1 = z
    BY <1>4, <1>6, <1>1
  <2>. QED  BY <2>1
<1>9. z \in S /\ G(z) = k
  BY <1>4, <1>5, <1>7, <1>8
<1>. QED  BY <1>9 DEF G

-------------------------------------------------------------------------------
(* Handlers.                                                               *)

(* Two sequences with the same elements.                                   *)
LEMMA Alike ==
  ASSUME NEW s, NEW t, IsSeq(s), IsSeq(t), Len(s) = Len(t), \A i \in 1 .. Len(s) : s[i] = t[i]
  PROVE  s = t
<1>1. DOMAIN s = 1 .. Len(s) /\ s = [i \in DOMAIN s |-> s[i]]
  BY SeqFacts
<1>2. DOMAIN t = 1 .. Len(t) /\ t = [i \in DOMAIN t |-> t[i]]
  BY SeqFacts
<1>. QED  BY <1>1, <1>2

(* A function on 1 .. n is a sequence.                                     *)
LEMMA FunSeq ==
  ASSUME NEW n \in Nat, NEW f, DOMAIN f = 1 .. n, f = [i \in 1 .. n |-> f[i]]
  PROVE  IsSeq(f) /\ Len(f) = n
<1>1. f \in [1 .. n -> {f[i] : i \in 1 .. n}]
  OBVIOUS
<1>2. f \in Seq({f[i] : i \in 1 .. n}) /\ Len(f) = n
  BY <1>1
<1>. QED  BY <1>2 DEF IsSeq

(* The handlers are the traps of catch forms, counted from below.          *)
LEMMA HandlerFacts ==
  ASSUME NEW ts, IsSeq(ts)
  PROVE  LET S == CatchTraps(ts)
             H == HandlersOf(ts)
         IN /\ Upto(S, Len(ts)) /\ Len(ts) \in Nat /\ S \subseteq 1 .. Len(ts)
            /\ IsSeq(H) /\ Len(H) \in Nat /\ Len(H) = CountTo(S, Len(ts))
            /\ \A i \in S : CountTo(S, i) \in 1 .. Len(H) /\ H[CountTo(S, i)] = HandlerOf(ts[i])
            /\ \A k \in 1 .. Len(H) : \E i \in S : CountTo(S, i) = k /\ H[k] = HandlerOf(ts[i])
<1>. DEFINE S == CatchTraps(ts)
            H == HandlersOf(ts)
<1>1. Len(ts) \in Nat /\ S \subseteq 1 .. Len(ts)
  BY SeqFacts DEF CatchTraps
<1>2. PICK m : m = Len(ts)
  OBVIOUS
<1>3. PICK n : n = Cardinality(S)
  OBVIOUS
<1>4. Upto(S, m) /\ m \in Nat /\ S \subseteq 1 .. m /\ n = CountTo(S, m) /\ n \in Nat
  <2>1. Upto(S, m)
    BY <1>1, <1>2 DEF Upto
  <2>. QED  BY <2>1, <1>1, <1>2, <1>3, CountFacts
<1>5. /\ DOMAIN H = 1 .. n /\ H = [k \in 1 .. n |-> H[k]]
      /\ \A k \in 1 .. n : H[k] = HandlerOf(ts[CHOOSE i \in S : CountTo(S, i) = k])
  BY <1>3 DEF HandlersOf
<1>. HIDE DEF S, H
<1>6. IsSeq(H) /\ Len(H) = n
  BY <1>4, <1>5, FunSeq
<1>7. ASSUME NEW i \in S, NEW j \in S, CountTo(S, i) = CountTo(S, j) PROVE i = j
  <2>1. i \in Nat /\ j \in Nat /\ CountTo(S, i) \in Nat
    BY <1>4, CountFacts
  <2>2. ~(i < j)
    <3>. SUFFICES ASSUME i < j PROVE FALSE
      OBVIOUS
    <3>1. CountTo(S, i) < CountTo(S, j)
      BY <2>1, <1>4, CountGrows
    <3>. QED  BY <3>1, <2>1, <1>7
  <2>3. ~(j < i)
    <3>. SUFFICES ASSUME j < i PROVE FALSE
      OBVIOUS
    <3>1. CountTo(S, j) < CountTo(S, i)
      BY <2>1, <1>4, CountGrows
    <3>. QED  BY <3>1, <2>1, <1>7
  <2>. QED  BY <2>1, <2>2, <2>3
<1>8. ASSUME NEW i \in S PROVE CountTo(S, i) \in 1 .. n
  <2>1. i \in Nat /\ i <= m /\ 0 < i /\ 0 \in Nat
    BY <1>4
  <2>2. CountTo(S, i) \in Nat /\ CountTo(S, 0) = 0
    BY <2>1, <1>4, CountFacts
  <2>3. CountTo(S, 0) < CountTo(S, i)
    BY <2>1, <1>4, CountGrows
  <2>4. CountTo(S, i) <= CountTo(S, m)
    BY <2>1, <1>4, CountGrows
  <2>. QED  BY <2>2, <2>3, <2>4, <1>4
<1>9. ASSUME NEW i \in S, NEW k, k = CountTo(S, i), k \in 1 .. n PROVE H[k] = HandlerOf(ts[i])
  <2>1. (CHOOSE j \in S : CountTo(S, j) = k) = i
    BY <1>7, <1>9
  <2>. QED  BY <2>1, <1>5, <1>9
<1>10. ASSUME NEW k \in 1 .. n PROVE \E i \in S : CountTo(S, i) = k /\ H[k] = HandlerOf(ts[i])
  <2>1. PICK i \in S : CountTo(S, i) = k
    BY <1>3, <1>4, CountReached
  <2>. QED  BY <2>1, <1>9
<1>. QED  BY <1>1, <1>2, <1>4, <1>6, <1>8, <1>9, <1>10 DEF S, H

(* The handlers of the first traps are the first handlers.                 *)
LEMMA HandlerPrefix ==
  ASSUME NEW ts, IsSeq(ts), NEW us, IsSeq(us), Len(us) <= Len(ts),
         \A i \in 1 .. Len(us) : us[i] = ts[i]
  PROVE  LET n == CountTo(CatchTraps(ts), Len(us)) IN
         /\ n \in 0 .. Len(HandlersOf(ts)) /\ Len(HandlersOf(us)) = n
         /\ HandlersOf(us) = SubSeq(HandlersOf(ts), 1, n)
<1>. DEFINE K == CatchTraps(ts)
            L == CatchTraps(us)
            H == HandlersOf(ts)
            G == HandlersOf(us)
<1>1. PICK m, l : m = Len(ts) /\ l = Len(us)
  OBVIOUS
<1>2. /\ Upto(K, m) /\ m \in Nat /\ K \subseteq 1 .. m /\ l \in Nat /\ L \subseteq 1 .. l /\ l <= m
      /\ IsSeq(H) /\ Len(H) \in Nat /\ Len(H) = CountTo(K, m)
      /\ IsSeq(G) /\ Len(G) \in Nat /\ Len(G) = CountTo(L, l)
  BY <1>1, HandlerFacts
<1>3. /\ \A i \in K : H[CountTo(K, i)] = HandlerOf(ts[i])
      /\ \A k \in 1 .. Len(G) : \E i \in L : CountTo(L, i) = k /\ G[k] = HandlerOf(us[i])
  BY HandlerFacts
<1>4. \A j \in 1 .. l : j \in L <=> j \in K
  <2>1. DOMAIN us = 1 .. l /\ DOMAIN ts = 1 .. m /\ \A j \in 1 .. l : j \in 1 .. m
    BY <1>1, <1>2, SeqFacts
  <2>. QED  BY <2>1, <1>1 DEF CatchTraps
<1>. HIDE DEF K, L, H, G
<1>5. ASSUME NEW i \in 0 .. l PROVE CountTo(L, i) = CountTo(K, i)
  <2>1. \A j \in K \cup L : j <= i => j \in 1 .. l
    BY <1>2
  <2>2. {j \in L : j <= i} = {j \in K : j <= i}
    BY <2>1, <1>4, Zenon
  <2>. QED  BY <2>2 DEF CountTo
<1>6. PICK n : n = CountTo(K, l)
  OBVIOUS
<1>7. n \in Nat /\ n <= Len(H) /\ Len(G) = n
  <2>1. CountTo(K, l) <= CountTo(K, m)
    BY <1>2, CountGrows
  <2>2. l \in 0 .. l
    BY <1>2
  <2>3. CountTo(L, l) = CountTo(K, l)
    BY <2>2, <1>5
  <2>. QED  BY <2>1, <2>3, <1>2, <1>6
<1>8. n \in 0 .. Len(H)
  BY <1>2, <1>7
<1>9. /\ IsSeq(SubSeq(H, 1, n)) /\ Len(SubSeq(H, 1, n)) = n
      /\ \A k \in 1 .. n : SubSeq(H, 1, n)[k] = H[k]
  BY <1>2, <1>8, SeqFacts
<1>10. ASSUME NEW k \in 1 .. n PROVE G[k] = H[k]
  <2>1. PICK i \in L : CountTo(L, i) = k /\ G[k] = HandlerOf(us[i])
    BY <1>3, <1>7
  <2>2. i \in 1 .. l /\ i \in 0 .. l
    BY <1>2
  <2>3. i \in K /\ us[i] = ts[i] /\ CountTo(K, i) = k
    BY <2>1, <2>2, <1>1, <1>4, <1>5
  <2>. QED  BY <2>1, <2>3, <1>3
<1>11. G = SubSeq(H, 1, n)
  BY <1>2, <1>7, <1>9, <1>10, Alike
<1>. QED  BY <1>1, <1>6, <1>7, <1>8, <1>11 DEF K, H, G

(* One trap more.                                                          *)
LEMMA AddHandler ==
  ASSUME NEW ts, IsSeq(ts), NEW t, NEW us, us = Append(ts, t)
  PROVE  /\ t.owner # "catch" => HandlersOf(us) = HandlersOf(ts)
         /\ t.owner = "catch" => HandlersOf(us) = Append(HandlersOf(ts), HandlerOf(t))
<1>. DEFINE K == CatchTraps(us)
            H == HandlersOf(us)
            G == HandlersOf(ts)
<1>1. PICK l, m : l = Len(ts) /\ m = l + 1
  OBVIOUS
<1>2. l \in Nat /\ IsSeq(us) /\ Len(us) = m /\ us[m] = t /\ \A i \in 1 .. l : us[i] = ts[i]
  BY <1>1, SeqFacts
<1>3. /\ CountTo(K, l) \in 0 .. Len(H) /\ Len(G) = CountTo(K, l) /\ G = SubSeq(H, 1, CountTo(K, l))
  <2>1. Len(ts) <= Len(us) /\ \A i \in 1 .. Len(ts) : ts[i] = us[i]
    BY <1>1, <1>2
  <2>. QED  BY <2>1, <1>1, <1>2, HandlerPrefix
<1>4. /\ Upto(K, m) /\ m \in Nat /\ K \subseteq 1 .. m /\ IsSeq(H) /\ Len(H) \in Nat /\ Len(H) = CountTo(K, m)
      /\ \A i \in K : H[CountTo(K, i)] = HandlerOf(us[i])
      /\ IsSeq(G)
  BY <1>1, <1>2, HandlerFacts
<1>5. m \in K <=> t.owner = "catch"
  <2>1. m \in DOMAIN us
    BY <1>1, <1>2, SeqFacts
  <2>. QED  BY <2>1, <1>2 DEF CatchTraps
<1>. HIDE DEF K, H, G
<1>6. CountTo(K, m) = CountTo(K, l) + (IF m \in K THEN 1 ELSE 0)
  <2>1. CountTo(K, l + 1) = CountTo(K, l) + (IF l + 1 \in K THEN 1 ELSE 0)
    BY <1>2, <1>4, CountFacts
  <2>. QED  BY <2>1, <1>1
<1>7. PICK n : n = CountTo(K, l)
  OBVIOUS
<1>8. n \in Nat /\ n \in 0 .. Len(H) /\ Len(G) = n /\ \A k \in 1 .. n : G[k] = H[k]
  <2>1. n \in 0 .. Len(H) /\ Len(G) = n /\ G = SubSeq(H, 1, n)
    BY <1>3, <1>7
  <2>2. \A k \in 1 .. n : SubSeq(H, 1, n)[k] = H[k]
    BY <2>1, <1>4, SeqFacts
  <2>. QED  BY <2>1, <2>2, <1>4
<1>9. CASE t.owner # "catch"
  <2>1. Len(H) = n
    BY <1>4, <1>5, <1>6, <1>7, <1>8, <1>9
  <2>2. G = H
    BY <2>1, <1>4, <1>8, Alike
  <2>. QED  BY <2>2, <1>9 DEF G, H
<1>10. CASE t.owner = "catch"
  <2>1. m \in K /\ CountTo(K, m) = n + 1 /\ Len(H) = n + 1
    BY <1>4, <1>5, <1>6, <1>7, <1>8, <1>10
  <2>2. H[n + 1] = HandlerOf(t)
    BY <2>1, <1>2, <1>4
  <2>3. PICK A : A = Append(G, HandlerOf(t))
    OBVIOUS
  <2>4. /\ IsSeq(A) /\ Len(A) = n + 1 /\ A[n + 1] = HandlerOf(t)
        /\ \A k \in 1 .. n : A[k] = G[k]
    BY <2>3, <1>4, <1>8, SeqFacts
  <2>5. \A k \in 1 .. n + 1 : k \in 1 .. n \/ k = n + 1
    BY <1>8
  <2>6. \A k \in 1 .. Len(H) : H[k] = A[k]
    BY <2>1, <2>2, <2>4, <2>5, <1>8
  <2>7. H = A
    BY <2>1, <2>4, <2>6, <1>4, Alike
  <2>. QED  BY <2>3, <2>7, <1>10 DEF G, H
<1>. QED  BY <1>9, <1>10

(* One trap less.                                                          *)
LEMMA DropHandler ==
  ASSUME NEW ts, IsSeq(ts), Len(ts) > 0, NEW us, us = SubSeq(ts, 1, Len(ts) - 1)
  PROVE  LET t == ts[Len(ts)]
             H == HandlersOf(ts)
         IN /\ t.owner # "catch" => HandlersOf(us) = H
            /\ t.owner = "catch" => /\ Len(H) > 0 /\ H[Len(H)] = HandlerOf(t)
                                    /\ HandlersOf(us) = SubSeq(H, 1, Len(H) - 1)
<1>. DEFINE K == CatchTraps(ts)
            H == HandlersOf(ts)
            G == HandlersOf(us)
<1>1. PICK l, m : m = Len(ts) /\ l = m - 1
  OBVIOUS
<1>2. m \in Nat /\ l \in Nat /\ l + 1 = m /\ l \in 0 .. Len(ts)
  BY <1>1, SeqFacts
<1>3. IsSeq(us) /\ Len(us) = l /\ \A i \in 1 .. l : us[i] = ts[i]
  BY <1>1, <1>2, SeqFacts
<1>4. CountTo(K, l) \in 0 .. Len(H) /\ G = SubSeq(H, 1, CountTo(K, l))
  <2>1. Len(us) <= Len(ts) /\ \A i \in 1 .. Len(us) : us[i] = ts[i]
    BY <1>1, <1>2, <1>3
  <2>. QED  BY <2>1, <1>3, HandlerPrefix
<1>5. /\ Upto(K, m) /\ K \subseteq 1 .. m /\ IsSeq(H) /\ Len(H) \in Nat /\ Len(H) = CountTo(K, m)
      /\ \A i \in K : CountTo(K, i) \in 1 .. Len(H) /\ H[CountTo(K, i)] = HandlerOf(ts[i])
  BY <1>1, HandlerFacts
<1>6. m \in K <=> ts[m].owner = "catch"
  <2>1. m \in DOMAIN ts
    BY <1>1, <1>2, SeqFacts
  <2>. QED  BY <2>1 DEF CatchTraps
<1>. HIDE DEF K, H, G
<1>7. CountTo(K, m) = CountTo(K, l) + (IF m \in K THEN 1 ELSE 0)
  <2>1. CountTo(K, l + 1) = CountTo(K, l) + (IF l + 1 \in K THEN 1 ELSE 0)
    BY <1>2, <1>5, CountFacts
  <2>. QED  BY <2>1, <1>2
<1>8. PICK n : n = CountTo(K, l)
  OBVIOUS
<1>9. n \in Nat /\ G = SubSeq(H, 1, n)
  BY <1>4, <1>8
<1>10. CASE ts[m].owner # "catch"
  <2>1. Len(H) = n
    BY <1>5, <1>6, <1>7, <1>8, <1>9, <1>10
  <2>2. n \in 0 .. Len(H)
    BY <2>1, <1>9
  <2>3. IsSeq(G) /\ Len(G) = n /\ \A i \in 1 .. n : G[i] = H[i]
    BY <2>2, <1>5, <1>9, SeqFacts
  <2>4. G = H
    BY <2>1, <2>3, <1>5, Alike
  <2>. QED  BY <2>4, <1>1, <1>10 DEF G, H
<1>11. CASE ts[m].owner = "catch"
  <2>1. Len(H) = n + 1 /\ m \in K
    BY <1>5, <1>6, <1>7, <1>8, <1>9, <1>11
  <2>2. H[Len(H)] = HandlerOf(ts[m])
    BY <2>1, <1>5
  <2>3. Len(H) > 0 /\ Len(H) - 1 = n
    BY <2>1, <1>9
  <2>. QED  BY <2>2, <2>3, <1>1, <1>9, <1>11 DEF G, H
<1>. QED  BY <1>1, <1>10, <1>11

-------------------------------------------------------------------------------
(* Calls.                                                                  *)

(* A call for every frame but that of main.                                *)
LEMMA CallShape ==
  ASSUME NEW cs, NEW fs, IsSeq(fs)
  PROVE  LET A == CallsOf(cs, fs) IN
         /\ IsSeq(A) /\ Len(fs) \in Nat /\ Len(A) = IF Len(fs) > 0 THEN Len(fs) - 1 ELSE 0
         /\ \A i \in 1 .. Len(fs) - 1 : A[i] = CallOf(cs, fs[i + 1])
         /\ A = << >> <=> Len(fs) <= 1
<1>. DEFINE A == CallsOf(cs, fs)
<1>1. Len(fs) \in Nat
  BY SeqFacts
<1>2. PICK n : n = IF Len(fs) > 0 THEN Len(fs) - 1 ELSE 0
  OBVIOUS
<1>3. n \in Nat /\ 1 .. n = 1 .. Len(fs) - 1
  BY <1>1, <1>2
<1>4. /\ DOMAIN A = 1 .. n /\ A = [i \in 1 .. n |-> A[i]]
      /\ \A i \in 1 .. Len(fs) - 1 : A[i] = CallOf(cs, fs[i + 1])
  BY <1>3 DEF CallsOf
<1>. HIDE DEF A
<1>5. IsSeq(A) /\ Len(A) = n
  BY <1>3, <1>4, FunSeq
<1>6. A = << >> <=> n = 0
  <2>1. PICK S : A \in Seq(S)
    BY <1>5 DEF IsSeq
  <2>. QED  BY <2>1, <1>5, EmptySeq
<1>7. n = 0 <=> Len(fs) <= 1
  <2>1. PICK l \in Nat : l = Len(fs)
    BY <1>1
  <2>2. n = IF l > 0 THEN l - 1 ELSE 0
    BY <2>1, <1>2
  <2>3. n = 0 <=> l <= 1
    BY <2>2
  <2>. QED  BY <2>1, <2>3
<1>8. A = << >> <=> Len(fs) <= 1
  BY <1>6, <1>7
<1>. QED  BY <1>1, <1>2, <1>4, <1>5, <1>8 DEF A

(* What a call is does not depend on what its frame has come to.           *)
Alikes(cs, fs, ds, gs, n) ==
  \A i \in 2 .. n : Same(fs[i], gs[i]) /\ ds[fs[i].chunk] = cs[fs[i].chunk]

FirstCalls(cs, fs, gs) == SubSeq(CallsOf(cs, fs), 1, Len(gs) - 1)
(* The calls of the first frames are the first calls.                      *)
LEMMA CallPrefix ==
  ASSUME NEW cs, NEW fs, NEW ds, NEW gs, IsSeq(fs), IsSeq(gs), Len(gs) \in 1 .. Len(fs),
         Alikes(cs, fs, ds, gs, Len(gs))
  PROVE  /\ Len(gs) - 1 \in 0 .. Len(CallsOf(cs, fs))
         /\ CallsOf(ds, gs) = FirstCalls(cs, fs, gs)
         /\ Len(gs) = Len(fs) => CallsOf(ds, gs) = CallsOf(cs, fs)
<1>. DEFINE A == CallsOf(cs, fs)
            B == CallsOf(ds, gs)
<1>1. PICK n, m : n = Len(gs) - 1 /\ m = Len(fs) - 1
  OBVIOUS
<1>2. n \in Nat /\ m \in Nat /\ n <= m /\ Len(gs) = n + 1 /\ Len(fs) = m + 1 /\ Len(gs) > 0 /\ Len(fs) > 0
  BY <1>1, SeqFacts
<1>3. /\ IsSeq(A) /\ Len(A) = m /\ \A i \in 1 .. m : A[i] = CallOf(cs, fs[i + 1])
  BY <1>1, <1>2, CallShape
<1>4. IsSeq(B) /\ Len(B) = n /\ \A i \in 1 .. n : B[i] = CallOf(ds, gs[i + 1])
  BY <1>1, <1>2, CallShape
<1>. HIDE DEF A, B
<1>5. ASSUME NEW i \in 1 .. n PROVE B[i] = A[i]
  <2>1. i + 1 \in 2 .. Len(gs) /\ i \in 1 .. m
    BY <1>2
  <2>2. PICK f, g : f = fs[i + 1] /\ g = gs[i + 1]
    OBVIOUS
  <2>3. Same(f, g) /\ ds[f.chunk] = cs[f.chunk]
    BY <2>1, <2>2 DEF Alikes
  <2>4. CallOf(ds, g) = CallOf(cs, f)
    BY <2>3 DEF CallOf, Same
  <2>. QED  BY <2>1, <2>2, <2>4, <1>3, <1>4
<1>6. n \in 0 .. Len(A)
  BY <1>2, <1>3
<1>7. PICK D : D = SubSeq(A, 1, n)
  OBVIOUS
<1>8. IsSeq(D) /\ Len(D) = n /\ \A i \in 1 .. n : D[i] = A[i]
  BY <1>3, <1>6, <1>7, SeqFacts
<1>9. B = D
  BY <1>4, <1>5, <1>8, Alike
<1>10. ASSUME Len(gs) = Len(fs) PROVE B = A
  <2>1. n = m
    BY <1>1, <1>10
  <2>. QED  BY <2>1, <1>3, <1>4, <1>5, Alike
<1>. QED  BY <1>1, <1>6, <1>7, <1>9, <1>10 DEF A, B, FirstCalls

(* As many frames, or none.                                                *)
LEMMA CallsStay ==
  ASSUME NEW cs, NEW fs, IsSeq(fs), NEW ds, NEW gs, IsSeq(gs), Len(gs) = Len(fs),
         Alikes(cs, fs, ds, gs, Len(fs))
  PROVE  CallsOf(ds, gs) = CallsOf(cs, fs)
<1>1. Len(fs) \in Nat
  BY SeqFacts
<1>2. CASE Len(fs) > 0
  <2>1. Len(gs) \in 1 .. Len(fs) /\ Alikes(cs, fs, ds, gs, Len(gs))
    BY <1>1, <1>2
  <2>. QED  BY <2>1, CallPrefix
<1>3. CASE Len(fs) = 0
  <2>1. CallsOf(cs, fs) = << >>
    BY <1>3, CallShape
  <2>2. CallsOf(ds, gs) = << >>
    BY <1>3, CallShape
  <2>. QED  BY <2>1, <2>2
<1>. QED  BY <1>1, <1>2, <1>3

(* One more frame is one more call.                                        *)
LEMMA AddCall ==
  ASSUME NEW cs, NEW fs, IsSeq(fs), Len(fs) > 0, NEW ds, NEW gs, IsSeq(gs), Len(gs) = Len(fs) + 1,
         Alikes(cs, fs, ds, gs, Len(fs))
  PROVE  CallsOf(ds, gs) = Append(CallsOf(cs, fs), CallOf(ds, gs[Len(fs) + 1]))
<1>. DEFINE A == CallsOf(cs, fs)
            B == CallsOf(ds, gs)
<1>1. PICK m : m = Len(fs) - 1
  OBVIOUS
<1>2. m \in Nat /\ Len(fs) = m + 1 /\ Len(gs) = m + 2 /\ Len(gs) > 0
  BY <1>1, SeqFacts
<1>3. IsSeq(A) /\ Len(A) = m /\ \A i \in 1 .. m : A[i] = CallOf(cs, fs[i + 1])
  BY <1>1, <1>2, CallShape
<1>4. IsSeq(B) /\ Len(B) = m + 1 /\ \A i \in 1 .. m + 1 : B[i] = CallOf(ds, gs[i + 1])
  <2>1. Len(gs) - 1 = m + 1
    BY <1>2
  <2>. QED  BY <2>1, <1>2, CallShape
<1>. HIDE DEF A, B
<1>5. ASSUME NEW i \in 1 .. m PROVE B[i] = A[i]
  <2>1. i + 1 \in 2 .. Len(fs) /\ i \in 1 .. m + 1
    BY <1>2
  <2>2. PICK f, g : f = fs[i + 1] /\ g = gs[i + 1]
    OBVIOUS
  <2>3. Same(f, g) /\ ds[f.chunk] = cs[f.chunk]
    BY <2>1, <2>2 DEF Alikes
  <2>4. CallOf(ds, g) = CallOf(cs, f)
    BY <2>3 DEF CallOf, Same
  <2>. QED  BY <2>1, <2>2, <2>4, <1>3, <1>4
<1>6. PICK x : x = CallOf(ds, gs[Len(fs) + 1])
  OBVIOUS
<1>7. B[m + 1] = x
  <2>1. m + 1 \in 1 .. m + 1 /\ m + 1 + 1 = Len(fs) + 1
    BY <1>2
  <2>. QED  BY <2>1, <1>4, <1>6
<1>8. PICK D : D = Append(A, x)
  OBVIOUS
<1>9. IsSeq(D) /\ Len(D) = m + 1 /\ D[m + 1] = x /\ \A i \in 1 .. m : D[i] = A[i]
  BY <1>3, <1>8, SeqFacts
<1>10. \A i \in 1 .. m + 1 : i \in 1 .. m \/ i = m + 1
  BY <1>2
<1>11. \A i \in 1 .. m + 1 : B[i] = D[i]
  BY <1>5, <1>7, <1>9, <1>10
<1>12. B = D
  BY <1>4, <1>9, <1>11, Alike
<1>. QED  BY <1>6, <1>8, <1>12 DEF A, B

-------------------------------------------------------------------------------
(* The stacks of the machine as Stacks sees them.                          *)

Calls == CallsOf(chunks, frames)
Handlers == HandlersOf(traps)
(* A frame without a catch form keeps nothing but what it found.           *)
Bare(q) == q.catch = 0 => q.low = q.base /\ q.lows = q.own

LEMMA BareFrame ==
  ASSUME NEW cs, NEW f, NEW v, NEW q, q.base \in Int, q.own \in Int, Seen(cs, f, v, q)
  PROVE  Bare(q)
<1>. SUFFICES ASSUME q.catch = 0 PROVE q.low = q.base /\ q.lows = q.own
  BY DEF Bare
<1>1. v.catch = 0 /\ q.low = q.base + Low(PlanIn(cs, f), v) /\ q.lows = q.own + LowScopes(PlanIn(cs, f), v)
  BY DEF Seen
<1>2. Low(PlanIn(cs, f), v) = 0 /\ LowScopes(PlanIn(cs, f), v) = 0
  BY <1>1 DEF Low, LowScopes
<1>. QED  BY <1>1, <1>2

(* The handlers of a frame that has a catch form end with that form's.     *)
LEMMA HandlerOfFrame ==
  ASSUME NEW P, NEW ts, Good(P, ts), Len(P) > 0
  PROVE  LET H == HandlersOf(ts)
             n == Len(P)
         IN /\ P[n].catch # 0 => H # << >> /\ H[Len(H)] = [off |-> P[n].low, scopes |-> P[n].lows, depth |-> n - 1]
            /\ P[n].catch = 0 /\ H # << >> => H[Len(H)].depth # n - 1
<1>. DEFINE H == HandlersOf(ts)
<1>1. PICK n, m : n = Len(P) /\ m = Len(ts)
  OBVIOUS
<1>2. /\ n \in Nat /\ n \in 1 .. n /\ IsSeq(ts) /\ m \in Nat /\ m > 0 /\ m \in 1 .. m
      /\ \A i \in 1 .. m : TrapFits(ts[i], P)
  BY <1>1, SeqFacts, FrameFacts DEF Good, TrapsFit
<1>3. ASSUME P[n].catch # 0
      PROVE  H # << >> /\ H[Len(H)] = [off |-> P[n].low, scopes |-> P[n].lows, depth |-> n - 1]
  <2>1. PICK t : t = ts[m]
    OBVIOUS
  <2>2. t.frame = n /\ t.owner = "catch"
    BY <2>1, <1>1, <1>3, LastTrap
  <2>3. t.off = P[n].low /\ t.lvl = P[n].lows
    BY <2>1, <2>2, <1>2 DEF TrapFits
  <2>4. Len(H) > 0 /\ H[Len(H)] = HandlerOf(t)
    <3>1. PICK us : us = SubSeq(ts, 1, Len(ts) - 1)
      OBVIOUS
    <3>. QED  BY <3>1, <2>1, <2>2, <1>1, <1>2, DropHandler
  <2>5. HandlerOf(t) = [off |-> P[n].low, scopes |-> P[n].lows, depth |-> n - 1]
    BY <2>2, <2>3 DEF HandlerOf
  <2>6. H # << >>
    BY <2>4
  <2>. QED  BY <2>4, <2>5, <2>6
<1>4. ASSUME P[n].catch = 0, H # << >>, H[Len(H)].depth = n - 1 PROVE FALSE
  <2>1. /\ IsSeq(H) /\ Len(H) \in Nat
        /\ CatchTraps(ts) \subseteq 1 .. m
        /\ \A k \in 1 .. Len(H) : \E i \in CatchTraps(ts) : H[k] = HandlerOf(ts[i])
    BY <1>1, <1>2, HandlerFacts
  <2>. HIDE DEF H
  <2>2. Len(H) # 0
    <3>1. PICK S : H \in Seq(S)
      BY <2>1 DEF IsSeq
    <3>. QED  BY <3>1, <1>4, EmptySeq
  <2>3. PICK i \in CatchTraps(ts) : H[Len(H)] = HandlerOf(ts[i])
    <3>1. Len(H) \in 1 .. Len(H)
      BY <2>1, <2>2
    <3>. QED  BY <3>1, <2>1
  <2>4. i \in 1 .. m /\ ts[i].owner = "catch"
    BY <2>1, <2>3 DEF CatchTraps
  <2>5. ts[i].frame \in 1 .. n /\ ts[i].at = P[ts[i].frame].catch /\ ts[i].at # 0
    BY <2>4, <1>1, <1>2 DEF TrapFits
  <2>6. HandlerOf(ts[i]).depth = ts[i].frame - 1
    BY DEF HandlerOf
  <2>7. ts[i].frame = n
    BY <2>3, <2>5, <2>6, <1>2, <1>4
  <2>. QED  BY <2>5, <2>7, <1>4
<1>. QED  BY <1>1, <1>3, <1>4

(* What a chunk must leave alone, for Stacks, is what its picture says.    *)
LEMMA FloorView ==
  ASSUME NEW P, Frames(chunks, freed, frames, P), N > 0, NEW ts, Good(P, ts),
         HandlersOf(traps) = HandlersOf(ts), Bare(P[N])
  PROVE  Promised!Floor = P[N].low /\ Promised!ScopeFloor = P[N].lows
<1>. DEFINE H == HandlersOf(ts)
<1>1. PICK n : n = N
  OBVIOUS
<1>2. /\ n \in Nat /\ n > 0 /\ n \in 1 .. n /\ n = Len(P) /\ n = Len(frames) /\ IsSeq(frames)
      /\ Placed(chunks, frames[n], P[n])
  BY <1>1 DEF Frames, N, IsSeq
<1>3. /\ Len(Calls) = n - 1 /\ (Calls = << >> <=> n <= 1)
      /\ \A i \in 1 .. n - 1 : Calls[i] = CallOf(chunks, frames[i + 1])
  BY <1>2, CallShape DEF Calls
<1>4. /\ Handlers = H
      /\ P[n].catch # 0 => H # << >> /\ H[Len(H)] = [off |-> P[n].low, scopes |-> P[n].lows, depth |-> n - 1]
      /\ P[n].catch = 0 /\ H # << >> => H[Len(H)].depth # n - 1
  BY <1>2, HandlerOfFrame DEF Handlers
<1>5. /\ Promised!Floor = IF Handlers # << >> /\ Handlers[Len(Handlers)].depth = Len(Calls)
                            THEN Handlers[Len(Handlers)].off
                            ELSE (IF Calls = << >> THEN Promised!Main ELSE Calls[Len(Calls)]).base
      /\ Promised!ScopeFloor = IF Handlers # << >> /\ Handlers[Len(Handlers)].depth = Len(Calls)
                                 THEN Handlers[Len(Handlers)].scopes
                                 ELSE (IF Calls = << >> THEN Promised!Main ELSE Calls[Len(Calls)]).own
  BY DEF Promised!Floor, Promised!ScopeFloor, Promised!Catching, Promised!Handler, Promised!Here,
     Calls, Handlers
<1>6. Promised!Main.base = 0 /\ Promised!Main.own = 1
  BY DEF Promised!Main
<1>. HIDE DEF H
<1>7. CASE P[n].catch # 0
  BY <1>3, <1>4, <1>5, <1>7, <1>1
<1>8. CASE P[n].catch = 0
  <2>1. P[n].low = P[n].base /\ P[n].lows = P[n].own
    BY <1>1, <1>8 DEF Bare
  <2>2. CASE n = 1
    <3>1. P[1].base = 0 /\ P[1].own = 1
      BY <1>2, <2>2 DEF Good, Stacked
    <3>. QED  BY <3>1, <2>1, <2>2, <1>1, <1>3, <1>4, <1>5, <1>6, <1>8
  <2>3. CASE n > 1
    <3>1. n - 1 \in 1 .. n - 1 /\ n - 1 + 1 = n /\ ~(n <= 1)
      BY <2>3, <1>2
    <3>2. PICK f : f = frames[n]
      OBVIOUS
    <3>3. Calls[n - 1] = CallOf(chunks, f)
      BY <3>1, <3>2, <1>3
    <3>4. CallOf(chunks, f).base = P[n].base /\ CallOf(chunks, f).own = P[n].own
      BY <3>2, <1>2 DEF CallOf, Placed
    <3>. QED  BY <3>1, <3>3, <3>4, <2>1, <1>1, <1>3, <1>4, <1>5, <1>8
  <2>. QED  BY <2>2, <2>3, <1>2
<1>. QED  BY <1>7, <1>8

(* The same for the frame that is running ...                              *)
LEMMA RunningView ==
  ASSUME Inv, NEW P, Running(P)
  PROVE  Promised!Floor = P[N].low /\ Promised!ScopeFloor = P[N].lows
<1>1. N > 0 /\ Frames(chunks, freed, frames, P) /\ Good(P, traps) /\ Stacked(P)
  BY DEF Running, Good
<1>2. PICK v : Seen(chunks, F, v, P[N])
  BY DEF Running, Runs
<1>3. P[N].base \in Int /\ P[N].own \in Int
  BY <1>1, RunFacts
<1>4. Bare(P[N])
  BY <1>2, <1>3, BareFrame
<1>. QED  BY <1>1, <1>4, FloorView

(* ... and for the one an error has stopped.                               *)
LEMMA StoppedView ==
  ASSUME Inv, NEW P, Stopped(P)
  PROVE  Promised!Floor = P[N].low /\ Promised!ScopeFloor = P[N].lows
<1>1. N > 0 /\ Frames(chunks, freed, frames, P) /\ Stacked(P) /\ Rests(chunks, F, P[N])
  BY DEF Stopped, Good, Pending
<1>2. PICK v : Seen(chunks, F, v, P[N])
  BY <1>1 DEF Rests
<1>3. P[N].base \in Int /\ P[N].own \in Int
  BY <1>1, RunFacts
<1>4. Bare(P[N])
  BY <1>2, <1>3, BareFrame
<1>5. CASE Good(P, traps)
  BY <1>1, <1>4, <1>5, FloorView
<1>6. CASE Pending(P, traps, Len(cstack))
  <2>1. PICK us : us = SubSeq(traps, 1, Len(traps) - 1)
    OBVIOUS
  <2>2. Len(traps) > 0 /\ Good(P, us) /\ traps[Len(traps)].owner = "eval"
    BY <2>1, <1>6 DEF Pending
  <2>3. HandlersOf(us) = HandlersOf(traps)
    BY <2>1, <2>2, DropHandler DEF Inv, Talk
  <2>. QED  BY <2>2, <2>3, <1>1, <1>4, FloorView
<1>. QED  BY <1>5, <1>6 DEF Stopped

(* No stack is below what the chunk must leave alone.                      *)
Above ==
  /\ Promised!Floor \in Nat /\ Promised!Floor <= sp
  /\ Promised!ScopeFloor \in Nat /\ Promised!ScopeFloor <= Len(cstack)
(* What a frame keeps is never below nothing.                              *)
LEMMA Lowest ==
  ASSUME NEW P, Stacked(P), NEW n \in 1 .. Len(P)
  PROVE  P[n].low \in Nat /\ P[n].lows \in Nat /\ P[n].base \in Nat /\ P[n].back \in Nat /\ P[n].base <= P[n].low
<1>1. /\ P[n].base \in Int /\ P[n].back \in Int /\ P[n].low \in Int /\ P[n].lows \in Nat
      /\ P[n].back <= P[n].base /\ P[n].base <= P[n].low /\ P[n].back >= 0
  BY FrameFacts
<1>. QED  BY <1>1

(* At the prompt there is no call and no handler.                          *)
LEMMA NothingHeld ==
  ASSUME frames = << >>, traps = << >>
  PROVE  /\ Calls = << >> /\ Handlers = << >>
         /\ Promised!Floor = 0 /\ Promised!ScopeFloor = 1
<1>1. IsSeq(<< >>) /\ Len(<< >>) = 0
  <2>1. << >> \in Seq({}) /\ Len(<< >>) = 0
    OBVIOUS
  <2>. QED  BY <2>1 DEF IsSeq
<1>2. Calls = << >>
  BY <1>1, CallShape DEF Calls
<1>3. Handlers = << >>
  <2>1. PICK H : H = Handlers
    OBVIOUS
  <2>2. IsSeq(H) /\ Len(H) = CountTo(CatchTraps(traps), 0) /\ Upto(CatchTraps(traps), 0)
    BY <2>1, <1>1, HandlerFacts DEF Handlers
  <2>3. Len(H) = 0
    BY <2>2, CountFacts
  <2>4. PICK S : H \in Seq(S)
    BY <2>2 DEF IsSeq
  <2>. QED  BY <2>1, <2>3, <2>4, EmptySeq
<1>. QED  BY <1>2, <1>3 DEF Calls, Handlers, Promised!Floor, Promised!ScopeFloor, Promised!Catching,
     Promised!Here, Promised!Main

(* The invariant says so in every mode.                                    *)
LEMMA AboveFloor == Inv => Above
<1>. SUFFICES ASSUME Inv PROVE Above
  OBVIOUS
<1>0. sp \in Nat /\ Len(cstack) \in Nat /\ Len(cstack) > 0
  BY SeqFacts, VmAssumption DEF Inv, Memory, Contexts
<1>1. CASE mode = Run
  <2>1. PICK P : Running(P)
    BY <1>1 DEF Inv, Shape
  <2>2. N > 0 /\ Stacked(P) /\ Frames(chunks, freed, frames, P)
    BY <2>1 DEF Running, Good
  <2>3. N \in 1 .. Len(P)
    BY <2>2, RunFacts
  <2>4. P[N].low \in Nat /\ P[N].lows \in Nat
    BY <2>2, <2>3, Lowest
  <2>. QED  BY <2>1, <2>4, RunningKeeps, RunningView DEF Above
<1>2. CASE mode \notin {Run, Prompt, Done}
  <2>1. PICK P : Stopped(P)
    BY <1>2 DEF Inv, Shape
  <2>2. N > 0 /\ Stacked(P) /\ Frames(chunks, freed, frames, P)
    BY <2>1 DEF Stopped, Good, Pending
  <2>3. N \in 1 .. Len(P)
    BY <2>2, RunFacts
  <2>4. P[N].low \in Nat /\ P[N].lows \in Nat
    BY <2>2, <2>3, Lowest
  <2>5. P[N].low <= sp /\ P[N].lows <= Len(cstack)
    BY <2>1 DEF Stopped
  <2>. QED  BY <2>1, <2>4, <2>5, StoppedView DEF Above
<1>3. CASE mode \in {Prompt, Done}
  <2>1. Clean
    BY <1>3 DEF Inv, Shape
  <2>. QED  BY <2>1, <1>0, NothingHeld DEF Clean, Above
<1>. QED  BY <1>1, <1>2, <1>3

(* A step that leaves calls and catch forms alone.                         *)
LEMMA WorkStep ==
  ASSUME Inv, Above', UNCHANGED <<Calls, Handlers>>, Calls = << >> => Len(cstack') = Len(cstack),
         sp' \in Nat, Len(cstack') \in Nat
  PROVE  Promised!Work
<1>1. Promised!Floor' = Promised!Floor /\ Promised!ScopeFloor' = Promised!ScopeFloor
  BY DEF Promised!Floor, Promised!ScopeFloor, Promised!Catching, Promised!Handler, Promised!Here,
     Promised!Main, Calls, Handlers
<1>. QED  BY <1>1 DEF Promised!Work, Above, Calls, Handlers

-------------------------------------------------------------------------------
(* Instructions that neither start nor end a chunk.                        *)

(* The innermost frame goes on; what it is stays.                          *)
GoesOn == frames' = frames \/ \E g : Same(F, g) /\ frames' = [frames EXCEPT ![Len(frames)] = g]

(* The ways an instruction goes on in its frame.                           *)
LEMMA Onward ==
  ASSUME F \in FrameRecs
  PROVE  /\ \A n : Goto(n) => GoesOn
         /\ NextI => GoesOn
         /\ SaveStackoffI \/ CatchI => GoesOn
<1>1. /\ \A n : Same(F, [F EXCEPT !.pc = n])
      /\ Same(F, [F EXCEPT !.saved_off = sp, !.pc = F.pc + 1])
      /\ Same(F, [F EXCEPT !.bs_saved = F.pc, !.pc = F.pc + 1])
  BY DEF Same, FrameRecs
<1>2. ASSUME NEW n, Goto(n) PROVE GoesOn
  <2>1. frames' = [frames EXCEPT ![Len(frames)] = [F EXCEPT !.pc = n]]
    BY <1>2 DEF Goto, F, Last
  <2>. QED  BY <2>1, <1>1 DEF GoesOn
<1>3. SaveStackoffI => GoesOn
  <2>. SUFFICES ASSUME SaveStackoffI PROVE GoesOn
    OBVIOUS
  <2>1. frames' = [frames EXCEPT ![Len(frames)] = [F EXCEPT !.saved_off = sp, !.pc = F.pc + 1]]
    BY DEF SaveStackoffI, F, Last
  <2>. QED  BY <2>1, <1>1 DEF GoesOn
<1>4. CatchI => GoesOn
  <2>. SUFFICES ASSUME CatchI PROVE GoesOn
    OBVIOUS
  <2>1. frames' = [frames EXCEPT ![Len(frames)] = [F EXCEPT !.bs_saved = F.pc, !.pc = F.pc + 1]]
    BY DEF CatchI, F, Last
  <2>. QED  BY <2>1, <1>1 DEF GoesOn
<1>. QED  BY <1>2, <1>3, <1>4 DEF NextI

(* All but a call, an eval and an exit do that.                            *)
LEMMA InstructionStays ==
  ASSUME Instruction, F \in FrameRecs, ~CallCode, ~CallEval, ~ExitI
  PROVE  GoesOn /\ (UNCHANGED traps \/ CatchI \/ PopCatchI)
<1>1. CASE \/ PushI \/ PopI \/ ChewTopI \/ PushFromStackI \/ PopToStackI \/ ResolveI \/ BindVarI
           \/ PushContextI \/ PopContextI \/ ArithI \/ RestoreStackoffI
           \/ CallList \/ CallCompare \/ CallBind \/ CallFunction \/ CallRead \/ CallPrint
  <2>1. NextI /\ UNCHANGED traps
    BY <1>1 DEF PushI, PopI, ChewTopI, PushFromStackI, PopToStackI, ResolveI, BindVarI, PushContextI,
       PopContextI, ArithI, RestoreStackoffI, CallList, CallCompare, CallBind, CallFunction,
       CallRead, CallPrint, Straight
  <2>. QED  BY <2>1, Onward
<1>2. CASE GoI \/ GoIfI
  <2>1. (NextI \/ \E n : Goto(n)) /\ UNCHANGED traps
    BY <1>2 DEF GoI, GoIfI, Jump
  <2>. QED  BY <2>1, Onward
<1>3. CASE SaveStackoffI \/ CatchI \/ PopCatchI
  <2>1. UNCHANGED traps \/ CatchI \/ PopCatchI
    BY <1>3 DEF SaveStackoffI
  <2>2. PopCatchI => NextI
    BY DEF PopCatchI
  <2>. QED  BY <2>1, <2>2, <1>3, Onward
<1>4. CASE CallCompileFn \/ CallCompileLambda
  <2>1. (NextI \/ frames' = frames) /\ UNCHANGED traps
    BY <1>4 DEF CallCompileFn, CallCompileLambda, CompileIt
  <2>. QED  BY <2>1, Onward DEF GoesOn
<1>5. CASE SignalI
  BY <1>5 DEF SignalI, Signal, GoesOn
<1>. QED  BY <1>1, <1>2, <1>3, <1>4, <1>5 DEF Instruction

(* Then no call starts and none ends.                                      *)
LEMMA GoesOnCalls ==
  ASSUME Inv, NEW P, N > 0, Frames(chunks, freed, frames, P), Stacked(P), GoesOn, Grown(chunks, chunks')
  PROVE  Calls' = Calls
<1>1. N \in Nat /\ N = Len(frames) /\ IsSeq(frames) /\ F = frames[N] /\ N \in 1 .. N
  BY RunFacts DEF N, IsSeq
<1>2. \A i \in 1 .. N : chunks'[frames[i].chunk] = chunks[frames[i].chunk]
  BY <1>1 DEF Frames, Placed, Grown
<1>3. IsSeq(frames') /\ Len(frames') = N /\ \A i \in 1 .. N : Same(frames[i], frames'[i])
  <2>1. CASE frames' = frames
    BY <2>1, <1>1 DEF Same
  <2>2. CASE \E g : Same(F, g) /\ frames' = [frames EXCEPT ![Len(frames)] = g]
    <3>1. PICK g : Same(F, g) /\ frames' = [frames EXCEPT ![N] = g]
      BY <2>2, <1>1
    <3>2. PICK S : frames \in Seq(S)
      BY <1>1 DEF IsSeq
    <3>3. frames' \in Seq(S \cup {g}) /\ Len(frames') = N
      BY <3>1, <3>2, <1>1
    <3>4. \A i \in 1 .. N : frames'[i] = IF i = N THEN g ELSE frames[i]
      BY <3>1, <3>2, <1>1
    <3>5. \A i \in 1 .. N : Same(frames[i], frames'[i])
      <4>1. \A f : Same(f, f)
        BY DEF Same
      <4>. QED  BY <4>1, <3>1, <3>4, <1>1
    <3>. QED  BY <3>3, <3>5 DEF IsSeq
  <2>. QED  BY <2>1, <2>2 DEF GoesOn
<1>4. Alikes(chunks, frames, chunks', frames', N)
  <2>1. \A i \in 2 .. N : i \in 1 .. N
    BY <1>1
  <2>. QED  BY <2>1, <1>2, <1>3 DEF Alikes
<1>5. CallsOf(chunks', frames') = CallsOf(chunks, frames)
  BY <1>1, <1>3, <1>4, CallsStay
<1>. QED  BY <1>5 DEF Calls

(* The loop opens and closes no context.                                   *)
LEMMA LoopContexts ==
  ASSUME Inv, chunks[1] = ReplChunk, mode = Run, N = 1, Instruction
  PROVE  cstack' = cstack /\ ~CatchI /\ ~PopCatchI /\ ~CallCode
<1>1. AtLoop /\ F.kind = "repl"
  BY LoopFacts
<1>2. PushI \/ CallRead \/ CallPrint \/ CallEval \/ (SignalI /\ Op = "call") \/ ExitI
  BY <1>1, LoopActs
<1>3. Op \in {"push", "call", "exit"}
  BY <1>1 DEF AtLoop
<1>4. ~CatchI /\ ~PopCatchI
  BY <1>3 DEF CatchI, PopCatchI, Executing
<1>5. ~CallCode
  <2>1. CallCode => Op = "call" /\ Top[1] = "code"
    BY DEF CallCode, Executing
  <2>2. Op = "call" => Top \in {Native("READ"), Native("EVAL"), Native("PRINT")}
    BY <1>1 DEF AtLoop
  <2>3. \A f : Native(f)[1] # "code"
    BY DEF Native
  <2>. QED  BY <2>1, <2>2, <2>3
<1>6. PushI \/ CallRead \/ CallPrint => cstack' = cstack
  BY DEF PushI, CallRead, CallPrint, context
<1>7. CallEval => cstack' = cstack
  BY DEF CallEval
<1>8. SignalI => cstack' = cstack
  BY DEF SignalI, Signal, context
<1>9. ExitI => cstack' = cstack
  BY <1>1 DEF ExitI
<1>. QED  BY <1>2, <1>4, <1>5, <1>6, <1>7, <1>8, <1>9

(* While code runs there is a frame, that of main or one above it.         *)
LEMMA Fewest ==
  ASSUME Inv, mode = Run
  PROVE  N \in Nat /\ N > 0 /\ N = Len(frames) /\ IsSeq(frames) /\ (Calls = << >> <=> N = 1) /\ Len(Calls) = N - 1
<1>1. N \in Nat /\ N > 0 /\ N = Len(frames) /\ IsSeq(frames)
  BY Running1 DEF IsSeq
<1>2. /\ Calls = << >> <=> N <= 1
      /\ Len(Calls) = IF N > 0 THEN N - 1 ELSE 0
  BY <1>1, CallShape DEF Calls
<1>. QED  BY <1>1, <1>2

Sized == sp \in Nat /\ Len(cstack) \in Nat
(* The two heights are numbers.                                            *)
LEMMA InvSized == Inv => Sized
  BY SeqFacts, VmAssumption DEF Inv, Memory, Contexts, Sized

(* A chunk that was there stays what it was.                               *)
LEMMA ChunksGrow ==
  ASSUME Inv, chunks' = chunks \/ \E x : chunks' = Append(chunks, x)
  PROVE  Grown(chunks, chunks') /\ IsSeq(chunks) /\ Len(chunks) \in Nat /\ DOMAIN chunks = 1 .. Len(chunks)
<1>1. IsSeq(chunks) /\ Len(chunks) \in Nat /\ DOMAIN chunks = 1 .. Len(chunks)
  BY SeqFacts DEF Inv, Program
<1>2. CASE chunks' = chunks
  BY <1>1, <1>2 DEF Grown
<1>3. CASE \E x : chunks' = Append(chunks, x)
  <2>1. PICK x, cs : chunks' = cs /\ cs = Append(chunks, x)
    BY <1>3
  <2>2. /\ IsSeq(cs) /\ Len(cs) = Len(chunks) + 1
        /\ \A k \in 1 .. Len(chunks) : cs[k] = chunks[k]
    <3>1. IsSeq(chunks)
      BY <1>1
    <3>. QED  BY <3>1, <2>1, SeqFacts
  <2>3. DOMAIN cs = 1 .. Len(chunks) + 1
    BY <2>2, SeqFacts
  <2>4. \A k \in 1 .. Len(chunks) : k \in 1 .. Len(chunks) + 1
    BY <1>1
  <2>. QED  BY <2>1, <2>2, <2>3, <2>4, <1>1 DEF Grown
<1>. QED  BY <1>2, <1>3

(* Those instructions are work of the running chunk.                       *)
LEMMA PlainWork ==
  ASSUME Inv, Inv', chunks[1] = ReplChunk, Instruction, ~CallCode, ~CallEval, ~ExitI, ~CatchI, ~PopCatchI
  PROVE  Promised!Work
<1>1. mode = Run
  BY InstructionTalk
<1>2. PICK P : Running(P)
  BY <1>1 DEF Inv, Shape
<1>3. N > 0 /\ Frames(chunks, freed, frames, P) /\ Stacked(P) /\ F \in FrameRecs
  BY <1>2, RunFacts DEF Running, Good
<1>4. GoesOn /\ UNCHANGED traps
  BY <1>3, InstructionStays
<1>5. Grown(chunks, chunks')
  <2>1. chunks' = chunks \/ \E x : chunks' = Append(chunks, x)
    BY InstructionChunks
  <2>. QED  BY <2>1, ChunksGrow
<1>6. UNCHANGED <<Calls, Handlers>>
  BY <1>3, <1>4, <1>5, GoesOnCalls DEF Handlers
<1>7. Above' /\ sp' \in Nat /\ Len(cstack') \in Nat
  <2>1. Above'
    BY AboveFloor, PTL
  <2>2. Sized'
    BY InvSized, PTL
  <2>. QED  BY <2>1, <2>2 DEF Sized
<1>8. Calls = << >> => Len(cstack') = Len(cstack)
  BY <1>1, Fewest, LoopContexts
<1>. QED  BY <1>6, <1>7, <1>8, WorkStep

-------------------------------------------------------------------------------
(* Catch forms.                                                            *)

(* What the plan of the instruction says about the floor.                  *)
LEMMA StandingView ==
  ASSUME Inv, NEW P, Standing(P)
  PROVE  Promised!Floor = P[N].low /\ Promised!ScopeFloor = P[N].lows
<1>1. Running(P)
  BY DEF Standing, Running, Runs
<1>. QED  BY <1>1, RunningView

(* The handlers are a sequence.                                            *)
LEMMA HandlersShape ==
  ASSUME Inv
  PROVE  IsSeq(traps) /\ Len(traps) \in Nat /\ IsSeq(Handlers) /\ Len(Handlers) \in Nat
         /\ (Handlers = << >> <=> Len(Handlers) = 0)
<1>1. IsSeq(traps) /\ Len(traps) \in Nat
  BY SeqFacts DEF Inv, Talk
<1>2. IsSeq(Handlers) /\ Len(Handlers) \in Nat
  BY <1>1, HandlerFacts DEF Handlers
<1>3. PICK S : Handlers \in Seq(S)
  BY <1>2 DEF IsSeq
<1>. QED  BY <1>1, <1>2, <1>3, EmptySeq

(* catch adds a handler at the height of its argument ...                  *)
LEMMA CatchCatches ==
  ASSUME Inv, chunks[1] = ReplChunk, CatchI
  PROVE  Promised!Catch
<1>1. /\ mode = Run /\ Op = "catch" /\ Replace(1, Nil) /\ UNCHANGED <<chunks, cstack>>
      /\ traps' = Append(traps, Trap("catch", Top, Popped(1), Len(frames)))
  BY DEF CatchI, Executing, context, program
<1>2. PICK P : Standing(P)
  BY <1>1, Instructions
<1>3. /\ N > 0 /\ Frames(chunks, freed, frames, P) /\ Stacked(P) /\ F \in FrameRecs
      /\ Seen(chunks, F, V, P[N]) /\ sp = P[N].base + V.height
  BY <1>2, StandFacts DEF Standing
<1>4. V.catch = 0 /\ V.height > 0 /\ V.height \in Nat /\ P[N].base \in Nat
      /\ P[N].low = P[N].base
  <2>1. V.catch = 0 /\ V.height > 0
    <3>1. PICK c, p, i : c = C /\ p = Plan(C) /\ i = F.pc
      OBVIOUS
    <3>2. IsPlan(C, Plan(C)) /\ F.pc \in DOMAIN Plan(C) /\ C.code[F.pc][1] = "catch"
      BY <1>1, <1>2, StandFacts
    <3>3. IsPlan(c, p) /\ i \in DOMAIN p /\ c.code[i][1] = "catch"
      BY <3>1, <3>2
    <3>4. p[i].catch = 0 /\ p[i].height > 0
      BY <3>3, CatchStep
    <3>. QED  BY <3>1, <3>4 DEF V
  <2>2. P[N].low = P[N].base + Low(Plan(C), V) /\ P[N].base \in Nat /\ V.height \in Nat
    BY <1>2, StandFacts
  <2>3. Low(Plan(C), V) = 0
    BY <2>1 DEF Low
  <2>. QED  BY <2>1, <2>2, <2>3
<1>5. Popped(1) = sp - 1 /\ sp - 1 \in Nat /\ Promised!Floor \in Nat /\ Promised!Floor <= sp - 1 /\ sp \in Nat
  <2>1. Promised!Floor = P[N].low
    BY <1>2, StandingView
  <2>. QED  BY <2>1, <1>3, <1>4 DEF Popped
<1>6. Calls' = Calls /\ Calls # << >> /\ Len(Calls) = N - 1 /\ N = Len(frames)
  <2>1. GoesOn /\ Grown(chunks, chunks')
    BY <1>1, <1>3, Onward DEF Grown
  <2>2. N # 1
    BY <1>1, LoopContexts DEF Instruction
  <2>. QED  BY <2>1, <2>2, <1>1, <1>3, GoesOnCalls, Fewest
<1>7. Handlers' = Append(Handlers, [off |-> sp - 1, scopes |-> Len(cstack), depth |-> Len(Calls)])
  <2>1. PICK t : t = Trap("catch", Top, Popped(1), Len(frames))
    OBVIOUS
  <2>2. t.owner = "catch" /\ HandlerOf(t) = [off |-> sp - 1, scopes |-> Len(cstack), depth |-> Len(Calls)]
    BY <2>1, <1>5, <1>6 DEF Trap, HandlerOf
  <2>3. HandlersOf(traps') = Append(HandlersOf(traps), HandlerOf(t))
    <3>1. PICK us : us = traps'
      OBVIOUS
    <3>2. IsSeq(traps) /\ us = Append(traps, t) /\ t.owner = "catch"
      BY <3>1, <2>1, <2>2, <1>1, HandlersShape
    <3>3. HandlersOf(us) = Append(HandlersOf(traps), HandlerOf(t))
      <4>1. t.owner = "catch"
        BY <3>2
      <4>2. IsSeq(traps) /\ us = Append(traps, t)
        BY <3>2
      <4>. QED  BY <4>1, <4>2, AddHandler
    <3>. QED  BY <3>1, <3>3
  <2>. QED  BY <2>2, <2>3 DEF Handlers
<1>8. sp' = sp - 1 + 1
  BY <1>1, <1>5 DEF Replace
<1>9. sp - 1 \in Promised!Floor .. sp
  BY <1>5
<1>. QED  BY <1>1, <1>6, <1>7, <1>8, <1>9 DEF Promised!Catch, Calls, Handlers

(* ... and pop_catch removes it, in the chunk that added it.               *)
LEMMA PopCatchPops ==
  ASSUME Inv, chunks[1] = ReplChunk, PopCatchI
  PROVE  Promised!PopCatch
<1>1. mode = Run /\ Op = "pop_catch" /\ UNCHANGED <<mem, sp, cstack, chunks>> /\ traps' = PopTrap(traps)
  BY DEF PopCatchI, Executing, values, context, program
<1>2. PICK P : Standing(P)
  BY <1>1, Instructions
<1>3. /\ N > 0 /\ Frames(chunks, freed, frames, P) /\ Stacked(P) /\ Good(P, traps) /\ F \in FrameRecs
      /\ Seen(chunks, F, V, P[N]) /\ Len(P) = N
  BY <1>2, StandFacts DEF Standing
<1>4. P[N].catch # 0
  <2>1. Fits(C, Plan(C), F.pc) /\ Op = C.code[F.pc][1]
    BY <1>2, StandFacts
  <2>2. V.catch # 0
    BY <2>1, <1>1 DEF Fits, V
  <2>. QED  BY <2>2, <1>3 DEF Seen
<1>5. Calls' = Calls /\ Len(Calls) = N - 1
  <2>1. GoesOn /\ Grown(chunks, chunks')
    BY <1>1, <1>3, Onward DEF Grown, PopCatchI
  <2>. QED  BY <2>1, <1>1, <1>3, GoesOnCalls, Fewest
<1>6. Handlers # << >> /\ Handlers[Len(Handlers)].depth = N - 1
  <2>1. PICK H : H = Handlers
    OBVIOUS
  <2>2. Len(P) > 0 /\ P[Len(P)].catch # 0
    BY <1>3, <1>4
  <2>3. H # << >> /\ H[Len(H)] = [off |-> P[Len(P)].low, scopes |-> P[Len(P)].lows, depth |-> Len(P) - 1]
    BY <2>1, <2>2, <1>3, HandlerOfFrame DEF Handlers
  <2>. QED  BY <2>1, <2>3, <1>3
<1>7. Handlers' = SubSeq(Handlers, 1, Len(Handlers) - 1)
  <2>1. Len(traps) \in 1 .. Len(traps) /\ traps[Len(traps)].owner = "catch"
    BY <1>3, <1>4, LastTrap
  <2>2. IsSeq(traps) /\ Len(traps) \in Nat /\ Len(traps) > 0 /\ traps # << >>
    BY <2>1, HandlersShape
  <2>3. PICK us : us = SubSeq(traps, 1, Len(traps) - 1)
    OBVIOUS
  <2>4. traps' = us
    BY <2>2, <2>3, <1>1 DEF PopTrap, Front
  <2>5. HandlersOf(us) = SubSeq(HandlersOf(traps), 1, Len(HandlersOf(traps)) - 1)
    BY <2>1, <2>2, <2>3, DropHandler
  <2>. QED  BY <2>4, <2>5 DEF Handlers
<1>. QED  BY <1>1, <1>5, <1>6, <1>7 DEF Promised!PopCatch, Promised!Catching, Promised!Handler,
     Promised!Cut, Calls, Handlers

-------------------------------------------------------------------------------
(* Calls.                                                                  *)

Enters == mode = Run => chunks[F.chunk].entry \in Int
(* Where a chunk starts to count is a number.                              *)
LEMMA InvEnters == Inv => Enters
<1>. SUFFICES ASSUME Inv, mode = Run PROVE chunks[F.chunk].entry \in Int
  BY DEF Enters
<1>1. PICK P : Running(P)
  BY DEF Inv, Shape
<1>2. Placed(chunks, F, P[N])
  BY <1>1, RunFacts DEF Running, Good
<1>. QED  BY <1>2 DEF Placed, Level, IsPlan

(* A step that changes neither calls nor handlers is work.                 *)
LEMMA WorkDone ==
  ASSUME Inv, Inv', UNCHANGED <<Calls, Handlers>>, Calls = << >> => Len(cstack') = Len(cstack)
  PROVE  Promised!Work
<1>1. Above'
  BY AboveFloor, PTL
<1>2. Sized'
  BY InvSized, PTL
<1>. QED  BY <1>1, <1>2, WorkStep DEF Sized

(* A new frame is a new call.                                              *)
LEMMA StartCalls ==
  ASSUME Inv, NEW P, Standing(P), Grown(chunks, chunks'),
         NEW g, frames' = Append([frames EXCEPT ![Len(frames)].pc = @ + 1], g)
  PROVE  Calls' = Append(Calls, CallOf(chunks', g)) /\ F' = g
<1>1. /\ N > 0 /\ N \in Nat /\ Frames(chunks, freed, frames, P) /\ N = Len(frames)
      /\ F = frames[N] /\ F \in FrameRecs /\ frames \in Seq(FrameRecs)
  BY StandFacts DEF Standing, N
<1>2. PICK h, fs : h = [F EXCEPT !.pc = @ + 1] /\ fs = [frames EXCEPT ![N] = h]
  OBVIOUS
<1>3. Same(F, h)
  BY <1>1, <1>2 DEF Same, FrameRecs
<1>4. frames' = Append(fs, g)
  BY <1>1, <1>2
<1>5. /\ fs \in Seq(FrameRecs \cup {h}) /\ Len(fs) = N
      /\ \A i \in 1 .. N : fs[i] = IF i = N THEN h ELSE frames[i]
  BY <1>1, <1>2
<1>6. \A i \in 1 .. N : Same(frames[i], fs[i])
  <2>1. \A f : Same(f, f)
    BY DEF Same
  <2>. QED  BY <2>1, <1>1, <1>3, <1>5
<1>7. PICK gs : gs = frames' /\ IsSeq(gs) /\ Len(gs) = N + 1 /\ gs[N + 1] = g
                /\ \A i \in 1 .. N : gs[i] = fs[i]
  <2>1. IsSeq(fs)
    BY <1>5 DEF IsSeq
  <2>2. PICK gs : gs = Append(fs, g)
    OBVIOUS
  <2>3. /\ IsSeq(gs) /\ Len(gs) = Len(fs) + 1 /\ gs[Len(fs) + 1] = g
        /\ \A i \in 1 .. Len(fs) : gs[i] = fs[i]
    BY <2>1, <2>2, SeqFacts
  <2>4. gs = frames' /\ Len(fs) = N
    BY <2>2, <1>4, <1>5
  <2>5. IsSeq(gs) /\ Len(gs) = N + 1 /\ gs[N + 1] = g /\ \A i \in 1 .. N : gs[i] = fs[i]
    BY <2>3, <2>4
  <2>. QED  BY <2>4, <2>5
<1>8. \A i \in 1 .. N : chunks'[frames[i].chunk] = chunks[frames[i].chunk]
  BY <1>1 DEF Frames, Placed, Grown
<1>9. Alikes(chunks, frames, chunks', gs, N)
  <2>1. \A i \in 2 .. N : i \in 1 .. N
    BY <1>1
  <2>. QED  BY <2>1, <1>6, <1>7, <1>8 DEF Alikes
<1>10. CallsOf(chunks', gs) = Append(CallsOf(chunks, frames), CallOf(chunks', g))
  <2>1. IsSeq(frames) /\ Len(frames) > 0
    BY <1>1 DEF IsSeq
  <2>2. Len(gs) = Len(frames) + 1 /\ gs[Len(frames) + 1] = g /\ Alikes(chunks, frames, chunks', gs, Len(frames))
    BY <1>1, <1>7, <1>9
  <2>3. IsSeq(gs)
    BY <1>7
  <2>4. CallsOf(chunks', gs) = Append(CallsOf(chunks, frames), CallOf(chunks', gs[Len(frames) + 1]))
    BY <2>1, <2>2, <2>3, AddCall
  <2>. QED  BY <2>2, <2>4
<1>11. F' = g
  BY <1>7 DEF F, Last
<1>. QED  BY <1>7, <1>10, <1>11 DEF Calls

(* A chunk starts, with its values at height and argc of them arguments.   *)
LEMMA StartsCall ==
  ASSUME Inv, Inv', mode = Run, NEW P, Standing(P), Grown(chunks, chunks'), Handlers' = Handlers,
         NEW chunk, NEW kind, NEW argc \in Nat, NEW lvl, NEW height \in Nat,
         Start(chunk, kind, argc, lvl, height, chunks'[chunk].entry),
         sp' = height, height <= sp, P[N].low <= height - argc, Len(cstack') = lvl,
         \/ kind = "call" /\ lvl = Len(cstack) + 1 /\ Calls # << >>
         \/ kind # "call" /\ lvl = Len(cstack)
  PROVE  Promised!Work \/ Promised!Call
<1>1. F \in FrameRecs /\ Len(cstack) \in Nat /\ P[N].low \in Int /\ sp \in Nat
  <2>1. P[N].low = P[N].base + Low(Plan(C), V) /\ P[N].base \in Nat /\ Low(Plan(C), V) \in Nat
    BY StandFacts
  <2>. QED  BY <2>1, StandFacts
<1>2. CASE TooDeep(lvl)
  <2>1. NextI
    BY <1>2 DEF Start
  <2>2. GoesOn
    BY <2>1, <1>1, Onward
  <2>3. Calls' = Calls
    <3>1. N > 0 /\ Frames(chunks, freed, frames, P) /\ Stacked(P)
      BY DEF Standing, Good
    <3>. QED  BY <3>1, <2>2, GoesOnCalls
  <2>. QED  BY <2>3, WorkDone
<1>3. CASE ~TooDeep(lvl)
  <2>1. PICK g : g = [kind |-> kind, chunk |-> chunk, pc |-> 1, argc |-> argc, bs_saved |-> 0,
                      saved_off |-> NoSave, origin |-> height - chunks'[chunk].entry, lvl |-> lvl]
    OBVIOUS
  <2>2. frames' = Append([frames EXCEPT ![Len(frames)].pc = @ + 1], g) /\ mode' = Run
    BY <2>1, <1>3 DEF Start
  <2>3. Calls' = Append(Calls, CallOf(chunks', g)) /\ F' = g
    BY <2>2, StartCalls
  <2>4. chunks'[chunk].entry \in Int
    <3>1. Enters'
      BY InvEnters, PTL
    <3>2. chunks'[F'.chunk].entry \in Int
      BY <3>1, <2>2 DEF Enters
    <3>. QED  BY <3>2, <2>1, <2>3
  <2>5. CallOf(chunks', g) = [base |-> height, back |-> height - argc, own |-> lvl, outer |-> Len(cstack)]
    <3>1. height - chunks'[chunk].entry + chunks'[chunk].entry = height
      BY <2>4
    <3>2. (IF kind = "call" THEN lvl - 1 ELSE lvl) = Len(cstack)
      BY <1>1
    <3>. QED  BY <3>1, <3>2, <2>1 DEF CallOf
  <2>6. Promised!Floor = P[N].low
    BY StandingView
  <2>7. height \in Promised!Floor .. sp /\ height - argc \in Promised!Floor .. height
    BY <2>6, <1>1
  <2>8. Promised!Call
    BY <2>3, <2>5, <2>7 DEF Promised!Call, Calls, Handlers
  <2>. QED  BY <2>8
<1>. QED  BY <1>2, <1>3

(* call of compiled code: its arguments are values of this chunk.          *)
LEMMA CallCodeCalls ==
  ASSUME Inv, Inv', Verified, chunks[1] = ReplChunk, CallCode
  PROVE  Promised!Work \/ Promised!Call
<1>1. /\ mode = Run /\ Op = "call" /\ Top[1] = "code" /\ sp' = Popped(1)
      /\ cstack' = Append(cstack, chunks[Top[2]].ctx)
      /\ Start(Top[2], "call", Operand, Len(cstack'), Popped(1), chunks[Top[2]].entry)
      /\ UNCHANGED <<chunks, traps>>
  BY DEF CallCode, Executing, Discard, program
<1>2. PICK P : Standing(P)
  BY <1>1, Instructions
<1>3. Operand \in Nat /\ V.height - (Operand + 1) >= Low(Plan(C), V)
  BY <1>1, <1>2, CallFacts DEF Callable
<1>4. /\ V.height \in Nat /\ Low(Plan(C), V) \in Nat /\ P[N].base \in Nat /\ sp \in Nat
      /\ P[N].low = P[N].base + Low(Plan(C), V) /\ sp = P[N].base + V.height
  BY <1>2, StandFacts DEF Standing
<1>5. Popped(1) = sp - 1 /\ sp - 1 \in Nat /\ P[N].low <= sp - 1 - Operand
  BY <1>3, <1>4 DEF Popped
<1>6. Grown(chunks, chunks')
  BY <1>1 DEF Grown
<1>7. Handlers' = Handlers
  BY <1>1 DEF Handlers
<1>8. Len(cstack') = Len(cstack) + 1
  BY <1>1, SeqFacts DEF Inv, Contexts
<1>9. Calls # << >>
  BY <1>1, Fewest, LoopContexts DEF Instruction
<1>10. PICK lvl, height : lvl = Len(cstack') /\ height = sp - 1
  OBVIOUS
<1>11. Start(Top[2], "call", Operand, lvl, height, chunks'[Top[2]].entry)
  BY <1>1, <1>5, <1>10
<1>12. height \in Nat /\ sp' = height /\ height <= sp /\ P[N].low <= height - Operand
  BY <1>1, <1>4, <1>5, <1>10
<1>. QED  BY <1>1, <1>2, <1>3, <1>6, <1>7, <1>8, <1>9, <1>10, <1>11, <1>12, StartsCall

(* vm_eval: the form was the last value, and the trap is no handler.       *)
LEMMA EvalCalls ==
  ASSUME Inv, Inv', Verified, chunks[1] = ReplChunk, CallEval
  PROVE  Promised!Work \/ Promised!Call
<1>1. /\ mode = Run /\ Op = "call" /\ Top = Native("EVAL") /\ Operand = 1 /\ cstack' = cstack
  BY DEF CallEval, Calling, Executing
<1>2. PICK start, c, chunk :
        /\ chunk = Chunk(c, 0, FALSE, NoContext, start)
        /\ chunks' = Append(chunks, chunk) /\ sp' = Popped(2)
        /\ IF c.ok
             THEN /\ traps' = Append(traps, Trap("eval", Nil, Popped(1), Len(frames) + 1))
                  /\ Start(Len(chunks) + 1, "eval", 0, Len(cstack), Popped(2), start)
             ELSE UNCHANGED <<frames, traps>>
  BY DEF CallEval, Discard
<1>3. PICK P : Standing(P)
  BY <1>1, Instructions
<1>4. Grown(chunks, chunks') /\ IsSeq(chunks) /\ Len(chunks) \in Nat
  BY <1>2, ChunksGrow
<1>5. CASE ~c.ok
  <2>1. UNCHANGED <<frames, traps>>
    BY <1>2, <1>5
  <2>2. N > 0 /\ Frames(chunks, freed, frames, P) /\ Stacked(P)
    BY <1>3 DEF Standing, Good
  <2>3. Calls' = Calls /\ Handlers' = Handlers
    BY <2>1, <2>2, <1>4, GoesOnCalls DEF GoesOn, Handlers
  <2>. QED  BY <2>3, <1>1, WorkDone
<1>6. CASE c.ok
  <2>1. Start(Len(chunks) + 1, "eval", 0, Len(cstack), Popped(2), start)
    BY <1>2, <1>6
  <2>2. V.height - 2 >= Low(Plan(C), V)
    <3>1. Callable(Top) /\ Operand + 1 = 2
      BY <1>1 DEF Callable, Native
    <3>2. V.height - (Operand + 1) >= Low(Plan(C), V)
      BY <3>1, <1>1, <1>3, CallFacts
    <3>. QED  BY <3>1, <3>2
  <2>3. /\ V.height \in Nat /\ Low(Plan(C), V) \in Nat /\ P[N].base \in Nat /\ sp \in Nat
        /\ P[N].low = P[N].base + Low(Plan(C), V) /\ sp = P[N].base + V.height
    BY <1>3, StandFacts DEF Standing
  <2>4. Popped(2) = sp - 2 /\ sp - 2 \in Nat /\ P[N].low <= sp - 2
    BY <2>2, <2>3 DEF Popped
  <2>5. Handlers' = Handlers
    <3>1. PICK t : t = Trap("eval", Nil, Popped(1), Len(frames) + 1)
      OBVIOUS
    <3>2. t.owner # "catch" /\ traps' = Append(traps, t)
      BY <3>1, <1>2, <1>6 DEF Trap
    <3>3. HandlersOf(traps') = HandlersOf(traps)
      BY <3>2, HandlersShape, AddHandler
    <3>. QED  BY <3>3 DEF Handlers
  <2>6. chunks'[Len(chunks) + 1].entry = start
    <3>1. chunks'[Len(chunks) + 1] = chunk
      <4>1. IsSeq(chunks)
        BY <1>4
      <4>. QED  BY <4>1, <1>2, SeqFacts
    <3>. QED  BY <3>1, <1>2 DEF Chunk
  <2>7. PICK lvl, height, id, kind, argc :
          /\ lvl = Len(cstack) /\ height = sp - 2 /\ id = Len(chunks) + 1
          /\ kind = "eval" /\ argc = 0
    OBVIOUS
  <2>8. Start(id, kind, argc, lvl, height, chunks'[id].entry)
    BY <2>1, <2>4, <2>6, <2>7
  <2>9. height \in Nat /\ sp' = height /\ height <= sp /\ P[N].low <= height - argc /\ Len(cstack') = lvl
    BY <1>1, <1>2, <2>3, <2>4, <2>7
  <2>10. argc \in Nat /\ kind # "call" /\ lvl = Len(cstack)
    BY <2>7
  <2>11. mode = Run /\ Grown(chunks, chunks')
    BY <1>1, <1>4
  <2>. QED  BY <1>3, <2>5, <2>8, <2>9, <2>10, <2>11, StartsCall
<1>. QED  BY <1>5, <1>6

-------------------------------------------------------------------------------
(* A chunk's end.                                                          *)

(* The innermost call, for Stacks, is the running frame.                   *)
LEMMA InnermostCall ==
  ASSUME Inv, mode = Run, NEW P, Standing(P), N > 1
  PROVE  /\ Calls # << >> /\ Len(Calls) = N - 1
         /\ Promised!Here = [base |-> P[N].base, back |-> P[N].back, own |-> P[N].own,
                             outer |-> IF F.kind = "call" THEN P[N].own - 1 ELSE P[N].own]
<1>1. N \in Nat /\ N = Len(frames) /\ IsSeq(frames) /\ Len(Calls) = N - 1 /\ Calls # << >>
  BY Fewest
<1>2. Placed(chunks, F, P[N]) /\ F = frames[N]
  BY StandFacts
<1>3. Calls[N - 1] = CallOf(chunks, F)
  <2>1. \A i \in 1 .. N - 1 : Calls[i] = CallOf(chunks, frames[i + 1])
    BY <1>1, CallShape DEF Calls
  <2>2. N - 1 \in 1 .. N - 1 /\ N - 1 + 1 = N
    BY <1>1
  <2>. QED  BY <2>1, <2>2, <1>2
<1>4. CallOf(chunks, F) = [base |-> P[N].base, back |-> P[N].back, own |-> P[N].own,
                           outer |-> IF F.kind = "call" THEN P[N].own - 1 ELSE P[N].own]
  BY <1>2 DEF CallOf, Placed
<1>. QED  BY <1>1, <1>3, <1>4 DEF Promised!Here, Calls

(* An exit ends the innermost call.                                        *)
LEMMA CallsLeft ==
  ASSUME Inv, mode = Run, N > 1, chunks' = chunks, frames' = Front(frames)
  PROVE  Calls' = SubSeq(Calls, 1, Len(Calls) - 1)
<1>1. N \in Nat /\ N = Len(frames) /\ IsSeq(frames) /\ Len(Calls) = N - 1
  BY Fewest
<1>2. PICK gs : gs = SubSeq(frames, 1, N - 1)
  OBVIOUS
<1>3. frames' = gs
  BY <1>1, <1>2, FrontFacts
<1>4. IsSeq(gs) /\ Len(gs) = N - 1 /\ \A i \in 1 .. N - 1 : gs[i] = frames[i]
  <2>1. IsSeq(frames) /\ N - 1 \in 0 .. Len(frames)
    BY <1>1
  <2>. QED  BY <2>1, <1>2, SeqFacts
<1>5. Alikes(chunks, frames, chunks, gs, N - 1)
  <2>1. \A i \in 2 .. N - 1 : i \in 1 .. N - 1
    BY <1>1
  <2>. QED  BY <2>1, <1>4 DEF Alikes, Same
<1>6. Len(gs) \in 1 .. Len(frames) /\ Alikes(chunks, frames, chunks, gs, Len(gs))
  BY <1>1, <1>4, <1>5
<1>7. CallsOf(chunks, gs) = FirstCalls(chunks, frames, gs)
  BY <1>1, <1>4, <1>6, CallPrefix
<1>. QED  BY <1>1, <1>3, <1>4, <1>7 DEF Calls, FirstCalls

(* A chunk that exits has no catch form left.                              *)
LEMMA NoCatching ==
  ASSUME Inv, mode = Run, NEW P, Standing(P), P[N].catch = 0
  PROVE  ~Promised!Catching
<1>1. Good(P, traps) /\ Len(P) = N /\ N > 0 /\ Len(Calls) = N - 1
  BY StandFacts, Fewest DEF Standing
<1>2. Handlers # << >> => Handlers[Len(Handlers)].depth # N - 1
  BY <1>1, HandlerOfFrame DEF Handlers
<1>. QED  BY <1>1, <1>2 DEF Promised!Catching, Promised!Handler, Calls, Handlers

(* exit, back in call(): arguments and context go, one value stays.        *)
LEMMA CallReturns ==
  ASSUME Inv, ExitI, F.kind = "call"
  PROVE  Promised!Return
<1>1. /\ mode = Run /\ Op = "exit" /\ Len(cstack) > 1 /\ Replace(1 + F.argc, Top)
      /\ cstack' = Front(cstack) /\ traps' = Orphan(traps, Len(frames))
      /\ frames' = Front(frames) /\ chunks' = chunks
  BY DEF ExitI, Executing
<1>2. PICK P : Standing(P)
  BY <1>1, Instructions
<1>3. /\ P[N].catch = 0 /\ sp = P[N].base + 1 /\ Len(cstack) = P[N].own /\ Good(P, traps)
      /\ N \in Nat /\ N > 1 /\ N = Len(frames) /\ Len(P) = N
      /\ F.kind = P[N].kind /\ P[N].back = P[N].base - F.argc /\ F.argc \in Nat
      /\ P[N].back \in Nat /\ P[N].base \in Nat /\ P[N].own \in Nat
  BY <1>1, <1>2, ExitFacts
<1>4. traps' = traps
  <2>1. Len(P) > 1 /\ P[Len(P)].kind = "call" /\ P[Len(P)].catch = 0
    BY <1>3
  <2>2. \A i \in 1 .. Len(traps) : traps[i].frame < Len(P)
    BY <2>1, <1>3, LeaveCall
  <2>3. \A i \in 1 .. Len(traps) : traps[i].frame \in Int
    BY <1>3, KeyFacts
  <2>4. IsSeq(traps) /\ Len(P) \in Int
    BY <1>3 DEF Inv, Talk
  <2>5. Orphan(traps, Len(P)) = traps
    BY <2>2, <2>3, <2>4, NoOrphans
  <2>. QED  BY <2>5, <1>1, <1>3
<1>5. sp' = P[N].back + 1
  <2>1. PICK a, b, k, d : a = F.argc /\ b = P[N].base /\ k = P[N].back /\ d = sp
    OBVIOUS
  <2>2. a \in Nat /\ b \in Nat /\ k \in Nat /\ k = b - a /\ d = b + 1
    BY <2>1, <1>3
  <2>3. sp' = (IF 1 + a < d THEN d - (1 + a) ELSE 0) + 1
    BY <2>1, <1>1 DEF Replace, Popped
  <2>4. sp' = k + 1
    BY <2>2, <2>3
  <2>. QED  BY <2>1, <2>4
<1>6. Len(cstack') = P[N].own - 1
  <2>1. IsSeq(cstack) /\ Len(cstack) \in Nat
    BY SeqFacts DEF Inv, Contexts
  <2>2. Len(cstack) - 1 \in 0 .. Len(cstack) /\ cstack' = SubSeq(cstack, 1, Len(cstack) - 1)
    BY <2>1, <1>1, FrontFacts
  <2>3. Len(cstack') = Len(cstack) - 1
    BY <2>1, <2>2, SeqFacts
  <2>. QED  BY <2>3, <1>3
<1>7. /\ Calls # << >> /\ Promised!Here.base = P[N].base /\ Promised!Here.back = P[N].back
      /\ Promised!Here.own = P[N].own /\ Promised!Here.outer = P[N].own - 1
  BY <1>1, <1>2, <1>3, InnermostCall
<1>8. ~Promised!Catching
  BY <1>1, <1>2, <1>3, NoCatching
<1>9. Calls' = SubSeq(Calls, 1, Len(Calls) - 1) /\ Handlers' = Handlers
  BY <1>1, <1>3, <1>4, CallsLeft DEF Handlers
<1>. QED  BY <1>3, <1>5, <1>6, <1>7, <1>8, <1>9 DEF Promised!Return, Promised!Cut, Calls, Handlers

(* exit, back in vm_eval, which pops its trap.                             *)
LEMMA EvalReturns ==
  ASSUME Inv, ExitI, F.kind = "eval"
  PROVE  Promised!Return
<1>1. /\ mode = Run /\ Op = "exit" /\ UNCHANGED <<sp, cstack, chunks>>
      /\ traps' = Orphan(PopTrap(traps), Len(frames)) /\ frames' = Front(frames)
  BY DEF ExitI, Executing, values
<1>2. PICK P : Standing(P)
  BY <1>1, Instructions
<1>3. /\ P[N].catch = 0 /\ sp = P[N].base + 1 /\ Len(cstack) = P[N].own /\ Good(P, traps)
      /\ N \in Nat /\ N > 1 /\ N = Len(frames) /\ Len(P) = N
      /\ F.kind = P[N].kind /\ P[N].back = P[N].base
      /\ P[N].back \in Nat /\ P[N].base \in Nat /\ P[N].own \in Nat
  <2>1. P[N].back = P[N].base - F.argc /\ F.argc = 0 /\ P[N].base \in Nat
    BY <1>1, <1>2, ExitFacts
  <2>2. P[N].back = P[N].base
    BY <2>1
  <2>. QED  BY <2>2, <1>1, <1>2, ExitFacts
<1>4. Handlers' = Handlers
  <2>1. PICK k, ts : k = Len(traps) /\ ts = SubSeq(traps, 1, k - 1)
    OBVIOUS
  <2>2. k \in 1 .. k /\ traps[k].frame = N /\ traps[k].owner = "eval"
    <3>1. Len(P) > 0 /\ P[Len(P)].kind = "eval" /\ P[Len(P)].catch = 0
      BY <1>3
    <3>2. Len(traps) \in 1 .. Len(traps) /\ traps[Len(traps)].frame = Len(P) /\ traps[Len(traps)].owner = "eval"
      BY <3>1, <1>3, LastTrap
    <3>. QED  BY <3>2, <2>1, <1>3
  <2>3. IsSeq(traps) /\ k \in Nat /\ k > 0 /\ IsSeq(ts) /\ Len(ts) = k - 1
    <3>1. IsSeq(traps) /\ k \in Nat /\ k > 0
      BY <2>1, <2>2, SeqFacts DEF Inv, Talk
    <3>2. k - 1 \in 0 .. Len(traps)
      BY <3>1, <2>1
    <3>. QED  BY <3>1, <3>2, <2>1, SeqFacts
  <2>4. PICK Q : Q = Cut(P, N - 1)
    OBVIOUS
  <2>5. Good(Q, ts) /\ Len(Q) = N - 1
    <3>1. /\ Good(Cut(P, traps[k].frame - 1), SubSeq(traps, 1, k - 1))
          /\ Len(Cut(P, traps[k].frame - 1)) = traps[k].frame - 1
      <4>1. k \in 1 .. Len(traps)
        BY <2>1, <2>2
      <4>2. Good(P, traps) /\ traps[k].owner = "eval"
        BY <1>3, <2>2
      <4>. QED  BY <4>1, <4>2, LeaveEval
    <3>. QED  BY <3>1, <2>1, <2>2, <2>4
  <2>6. \A i \in 1 .. Len(ts) : ts[i].frame \in Int /\ ts[i].frame < N
    <3>1. \A i \in 1 .. Len(ts) : ts[i].frame \in 0 .. Len(Q)
      BY <2>5, KeyFacts
    <3>. QED  BY <3>1, <2>5, <1>3
  <2>7. traps' = ts
    <3>1. PopTrap(traps) = ts
      <4>1. traps # << >>
        BY <2>1, <2>3
      <4>. QED  BY <4>1, <2>1, <2>3, FrontFacts DEF PopTrap
    <3>2. Orphan(ts, N) = ts
      BY <2>3, <2>6, <1>3, NoOrphans
    <3>. QED  BY <3>1, <3>2, <1>1, <1>3
  <2>8. HandlersOf(ts) = HandlersOf(traps)
    BY <2>1, <2>2, <2>3, DropHandler
  <2>. QED  BY <2>7, <2>8 DEF Handlers
<1>5. /\ Calls # << >> /\ Promised!Here.base = P[N].base /\ Promised!Here.back = P[N].back
      /\ Promised!Here.own = P[N].own /\ Promised!Here.outer = P[N].own
  BY <1>1, <1>2, <1>3, InnermostCall
<1>6. ~Promised!Catching
  BY <1>1, <1>2, <1>3, NoCatching
<1>7. Calls' = SubSeq(Calls, 1, Len(Calls) - 1)
  BY <1>1, <1>3, CallsLeft
<1>. QED  BY <1>1, <1>3, <1>4, <1>5, <1>6, <1>7 DEF Promised!Return, Promised!Cut, Calls, Handlers

(* Nothing runs, nothing is held.                                          *)
Empty == frames = << >> /\ traps = << >> => Calls = << >> /\ Handlers = << >>
(* The same, to be used of the next state.                                 *)
LEMMA NothingKept == Empty
BY NothingHeld DEF Empty

(* main's own chunk has no catch form.                                     *)
LEMMA LoopHandlers ==
  ASSUME Inv, chunks[1] = ReplChunk, mode = Run, N = 1
  PROVE  Calls = << >> /\ Handlers = << >>
<1>1. Calls = << >>
  BY Fewest
<1>2. PICK P : Standing(P)
  BY LoopFacts
<1>3. /\ Good(P, traps) /\ N > 0 /\ N = 1 /\ 1 \in 1 .. N /\ Len(P) = 1 /\ F = frames[1] /\ F.chunk = 1
      /\ Frames(chunks, freed, frames, P) /\ Stacked(P) /\ Rests(chunks, F, P[N])
      /\ DOMAIN Plan(chunks[1]) \subseteq 1 .. 7
  <2>1. N > 0 /\ Frames(chunks, freed, frames, P) /\ Good(P, traps) /\ Stacked(P)
    BY <1>2 DEF Standing, Good
  <2>2. Rests(chunks, F, P[N])
    BY <1>2, StandFacts DEF Standing, Rests, V
  <2>. QED  BY <2>1, <2>2, <1>2, StandFacts, LoopFrame, LoopFacts
<1>4. P[1].catch = 0
  <2>. SUFFICES ASSUME P[1].catch # 0 PROVE FALSE
    OBVIOUS
  <2>1. P[1].catch \in DOMAIN Plan(chunks[1]) /\ chunks[1].code[P[1].catch][1] = "catch"
    BY <1>3, CatchingFrame
  <2>2. PICK i \in 1 .. 7 : ReplChunk.code[i][1] = "catch"
    BY <2>1, <1>3
  <2>3. i = 1 \/ i = 2 \/ i = 3 \/ i = 4 \/ i = 5 \/ i = 6 \/ i = 7
    OBVIOUS
  <2>. QED  BY <2>2, <2>3, ReplCode DEF Has
<1>5. \A i \in 1 .. Len(traps) : TrapFits(traps[i], P)
  BY <1>3 DEF Good, TrapsFit
<1>6. \A i \in 1 .. Len(traps) : traps[i].owner # "catch"
  <2>1. ASSUME NEW i \in 1 .. Len(traps), traps[i].owner = "catch" PROVE FALSE
    <3>1. traps[i].frame \in 1 .. Len(P) /\ traps[i].at = P[traps[i].frame].catch /\ traps[i].at # 0
      BY <2>1, <1>5 DEF TrapFits
    <3>2. traps[i].frame = 1
      BY <3>1, <1>3
    <3>. QED  BY <3>1, <3>2, <1>4
  <2>. QED  BY <2>1
<1>7. Handlers = << >>
  <2>1. PICK H : H = Handlers
    OBVIOUS
  <2>2. /\ IsSeq(H) /\ Len(H) \in Nat /\ CatchTraps(traps) \subseteq 1 .. Len(traps)
        /\ \A k \in 1 .. Len(H) : \E i \in CatchTraps(traps) : CountTo(CatchTraps(traps), i) = k
    BY <2>1, HandlersShape, HandlerFacts DEF Handlers
  <2>3. CatchTraps(traps) = {}
    BY <2>2, <1>6 DEF CatchTraps
  <2>4. Len(H) = 0
    <3>1. ASSUME Len(H) > 0 PROVE FALSE
      <4>1. 1 \in 1 .. Len(H)
        BY <3>1, <2>2
      <4>. QED  BY <4>1, <2>2, <2>3
    <3>. QED  BY <3>1, <2>2
  <2>. QED  BY <2>1, <2>4, HandlersShape
<1>. QED  BY <1>1, <1>7

(* exit, back in main(): nothing is left.                                  *)
LEMMA LoopReturns ==
  ASSUME Inv, Inv', chunks[1] = ReplChunk, ExitI, F.kind = "repl"
  PROVE  Promised!Work
<1>1. mode = Run /\ mode' = Prompt /\ cstack' = cstack /\ Op = "exit"
  BY DEF ExitI, Executing
<1>2. N = 1
  <2>1. PICK P : Standing(P)
    BY <1>1, Instructions
  <2>. QED  BY <2>1, <1>1, ExitFacts
<1>3. Calls = << >> /\ Handlers = << >>
  BY <1>1, <1>2, LoopHandlers
<1>4. frames' = << >> /\ traps' = << >>
  <2>1. Clean'
    BY <1>1 DEF Inv, Shape
  <2>. QED  BY <2>1 DEF Clean
<1>5. Calls' = << >> /\ Handlers' = << >>
  <2>1. Empty'
    BY NothingKept, PTL
  <2>. QED  BY <2>1, <1>4 DEF Empty
<1>. QED  BY <1>1, <1>3, <1>5, WorkDone

-------------------------------------------------------------------------------
(* An error cuts the stacks.                                               *)

(* An error leaves the calls of the frames it leaves.                      *)
LEMMA CallsCut ==
  ASSUME IsSeq(frames), NEW gs, IsSeq(gs), Len(gs) \in 1 .. Len(frames),
         \A i \in 1 .. Len(gs) : Same(frames[i], gs[i]), frames' = gs, chunks' = chunks
  PROVE  Calls' = SubSeq(Calls, 1, Len(gs) - 1)
<1>1. Alikes(chunks, frames, chunks, gs, Len(gs))
  <2>1. \A i \in 2 .. Len(gs) : i \in 1 .. Len(gs)
    OBVIOUS
  <2>. QED  BY <2>1 DEF Alikes
<1>2. CallsOf(chunks, gs) = FirstCalls(chunks, frames, gs)
  BY <1>1, CallPrefix
<1>. QED  BY <1>2 DEF Calls, FirstCalls

(* raise() to a catch form: it goes on in its own chunk.                   *)
LEMMA CaughtThrows ==
  ASSUME Inv, NEW e, RaiseToCatch(e)
  PROVE  \E i \in DOMAIN Handlers : Promised!Throw(i)
<1>1. PICK k, t : k = Catcher(e) /\ t = traps[k]
  OBVIOUS
<1>2. /\ Caught(e) /\ t.owner = "catch" /\ Unwind(t) /\ sp' = t.off + 2
      /\ \E at : frames' = [SubSeq(frames, 1, t.frame) EXCEPT ![t.frame].pc = at + 1]
  BY <1>1 DEF RaiseToCatch
<1>3. k \in 1 .. Len(traps) /\ IsSeq(traps) /\ Len(traps) \in Nat /\ mode \notin {Run, Prompt, Done}
  BY <1>1, <1>2, CatcherFacts
<1>4. PICK P : Stopped(P)
  BY <1>3 DEF Inv, Shape
<1>5. Good(P, traps) /\ N > 0 /\ Frames(chunks, freed, frames, P) /\ Stacked(P)
  <2>1. ~Pending(P, traps, Len(cstack))
    BY <1>1, <1>2, PendingCatches
  <2>. QED  BY <2>1, <1>4 DEF Stopped, Good
<1>6. N = Len(P) /\ N = Len(frames) /\ N \in Nat /\ IsSeq(frames) /\ frames \in Seq(FrameRecs)
  BY <1>5, RunFacts DEF N, IsSeq
<1>7. t.frame \in 1 .. N /\ t.off = P[t.frame].low /\ t.lvl = P[t.frame].lows
  BY <1>1, <1>2, <1>3, <1>5, <1>6 DEF Good, TrapsFit, TrapFits
<1>8. t.off \in Nat /\ t.lvl \in Nat /\ t.lvl > 0
  <2>1. t.frame \in 1 .. Len(P)
    BY <1>6, <1>7
  <2>2. P[t.frame].low \in Nat /\ P[t.frame].lows \in Nat
    BY <2>1, <1>5, Lowest
  <2>3. P[t.frame].own \in Nat /\ P[t.frame].own > 0 /\ P[t.frame].own <= P[t.frame].lows
    BY <2>1, <1>5, FrameFacts DEF Stacked
  <2>. QED  BY <2>2, <2>3, <1>7
<1>9. /\ Len(cstack') = t.lvl /\ chunks' = chunks
      /\ traps' = SubSeq(traps, 1, k - 1) /\ IsSeq(traps') /\ Len(traps') = k - 1
  BY <1>1, <1>2, <1>8, UnwindFacts
<1>10. PICK i, H, K : K = CatchTraps(traps) /\ i = CountTo(K, k) /\ H = Handlers
  OBVIOUS
<1>11. i \in 1 .. Len(H) /\ H[i] = HandlerOf(t) /\ i - 1 = CountTo(K, k - 1) /\ IsSeq(H) /\ Len(H) \in Nat
  <2>1. k \in K
    BY <1>1, <1>2, <1>3, <1>10, SeqFacts DEF CatchTraps
  <2>2. i \in 1 .. Len(H) /\ H[i] = HandlerOf(t) /\ Upto(K, Len(traps)) /\ IsSeq(H) /\ Len(H) \in Nat
    BY <2>1, <1>1, <1>3, <1>10, HandlerFacts DEF Handlers
  <2>3. k - 1 \in Nat /\ k - 1 + 1 = k
    BY <1>3
  <2>4. CountTo(K, k - 1 + 1) = CountTo(K, k - 1) + 1 /\ CountTo(K, k - 1) \in Nat
    BY <2>1, <2>2, <2>3, CountFacts
  <2>. QED  BY <2>2, <2>3, <2>4, <1>10
<1>12. Handlers' = SubSeq(Handlers, 1, i - 1)
  <2>1. PICK us : us = traps'
    OBVIOUS
  <2>2. IsSeq(us) /\ Len(us) = k - 1 /\ Len(us) <= Len(traps) /\ \A j \in 1 .. Len(us) : us[j] = traps[j]
    <3>1. k - 1 \in 0 .. Len(traps)
      BY <1>3
    <3>. QED  BY <3>1, <2>1, <1>3, <1>9, SeqFacts
  <2>3. HandlersOf(us) = SubSeq(HandlersOf(traps), 1, CountTo(CatchTraps(traps), Len(us)))
    BY <2>2, <1>3, HandlerPrefix
  <2>. QED  BY <2>1, <2>2, <2>3, <1>10, <1>11 DEF Handlers
<1>13. Calls' = SubSeq(Calls, 1, t.frame - 1)
  <2>1. PICK n, fs, at : n = t.frame /\ fs = SubSeq(frames, 1, n) /\ frames' = [fs EXCEPT ![n].pc = at + 1]
    BY <1>2
  <2>2. n \in 1 .. N /\ fs \in Seq(FrameRecs) /\ Len(fs) = n /\ \A j \in 1 .. n : fs[j] = frames[j] /\ frames[j] \in FrameRecs
    <3>1. n \in 1 .. Len(frames) /\ n \in 0 .. Len(frames) /\ \A j \in 1 .. n : j \in 1 .. Len(frames)
      BY <2>1, <1>6, <1>7
    <3>. QED  BY <3>1, <2>1, <1>6
  <2>3. PICK g, gs : g = [frames[n] EXCEPT !.pc = at + 1] /\ gs = [fs EXCEPT ![n] = g]
    OBVIOUS
  <2>4. frames' = gs /\ Same(frames[n], g)
    <3>1. n \in 1 .. n /\ fs[n] = frames[n] /\ frames[n] \in FrameRecs
      BY <2>2
    <3>2. Same(frames[n], g)
      BY <3>1, <2>3 DEF Same, FrameRecs
    <3>3. [fs EXCEPT ![n].pc = at + 1] = gs
      BY <3>1, <2>3
    <3>. QED  BY <3>2, <3>3, <2>1
  <2>5. gs \in Seq(FrameRecs \cup {g}) /\ Len(gs) = n /\ \A j \in 1 .. n : gs[j] = IF j = n THEN g ELSE frames[j]
    BY <2>2, <2>3
  <2>6. \A j \in 1 .. n : Same(frames[j], gs[j])
    <3>1. \A f : Same(f, f)
      BY DEF Same
    <3>. QED  BY <3>1, <2>4, <2>5
  <2>7. IsSeq(gs) /\ Len(gs) \in 1 .. Len(frames) /\ \A j \in 1 .. Len(gs) : Same(frames[j], gs[j])
    BY <2>2, <2>5, <2>6, <1>6 DEF IsSeq
  <2>8. Calls' = SubSeq(Calls, 1, Len(gs) - 1)
    BY <2>4, <2>7, <1>6, <1>9, CallsCut
  <2>. QED  BY <2>1, <2>5, <2>8
<1>14. Promised!Throw(i)
  <2>1. H[i].off = t.off /\ H[i].scopes = t.lvl /\ H[i].depth = t.frame - 1
    BY <1>11 DEF HandlerOf
  <2>2. \E n \in 1 .. 2 : sp' = H[i].off + n
    BY <2>1, <1>2, <1>8
  <2>. QED  BY <2>1, <2>2, <1>9, <1>10, <1>12, <1>13 DEF Promised!Throw, Promised!Cut, Calls, Handlers
<1>15. i \in DOMAIN Handlers
  BY <1>10, <1>11, SeqFacts
<1>. QED  BY <1>14, <1>15

(* An error that leaves a vm_eval ends its chunk, and every one it called. *)
LEMMA EvalAbandons ==
  ASSUME Inv, NEW e, RaiseToEval(e), NEW P, Stopped(P), Good(P, traps)
  PROVE  \E j \in DOMAIN Calls : Promised!Abandon(j)
<1>1. PICK k, t : k = Catcher(e) /\ t = traps[k]
  OBVIOUS
<1>2. /\ Caught(e) /\ t.owner = "eval" /\ Unwind(t) /\ sp' = t.off
      /\ frames' = SubSeq(frames, 1, t.frame - 1)
  BY <1>1 DEF RaiseToEval
<1>3. k \in 1 .. Len(traps) /\ IsSeq(traps) /\ Len(traps) \in Nat
  BY <1>1, <1>2, CatcherFacts
<1>4. /\ N > 0 /\ Frames(chunks, freed, frames, P) /\ Stacked(P)
      /\ N = Len(P) /\ N = Len(frames) /\ N \in Nat /\ IsSeq(frames)
  <2>1. N > 0 /\ Frames(chunks, freed, frames, P) /\ Stacked(P)
    BY DEF Stopped, Good
  <2>. QED  BY <2>1, RunFacts DEF N, IsSeq
<1>5. PICK f : f = t.frame
  OBVIOUS
<1>6. f \in 2 .. N /\ P[f].kind = "eval" /\ t.off = P[f].base + 1 /\ t.lvl = P[f].own
  BY <1>1, <1>2, <1>3, <1>4, <1>5 DEF Good, TrapsFit, TrapFits
<1>7. P[f].base \in Nat /\ P[f].own \in Nat /\ P[f].own > 0
  <2>1. f \in 1 .. Len(P)
    BY <1>4, <1>6
  <2>. QED  BY <2>1, <1>4, Lowest, FrameFacts
<1>8. /\ Len(cstack') = P[f].own /\ chunks' = chunks
      /\ traps' = SubSeq(traps, 1, k - 1) /\ IsSeq(traps') /\ Len(traps') = k - 1
  BY <1>1, <1>2, <1>6, <1>7, UnwindFacts
<1>9. Calls[f - 1] = [base |-> P[f].base, back |-> P[f].base, own |-> P[f].own, outer |-> P[f].own]
  <2>1. PICK r : r = frames[f]
    OBVIOUS
  <2>2. Placed(chunks, r, P[f])
    <3>1. f \in 1 .. Len(frames)
      BY <1>4, <1>6
    <3>. QED  BY <3>1, <2>1, <1>4 DEF Frames
  <2>3. r.kind = "eval" /\ r.argc = 0
    BY <2>2, <1>6 DEF Placed
  <2>4. CallOf(chunks, r) = [base |-> P[f].base, back |-> P[f].base, own |-> P[f].own, outer |-> P[f].own]
    <3>1. r.origin + chunks[r.chunk].entry = P[f].base /\ r.lvl = P[f].own
      BY <2>2 DEF Placed
    <3>2. P[f].base - 0 = P[f].base
      BY <1>7
    <3>. QED  BY <3>1, <3>2, <2>3 DEF CallOf
  <2>5. Calls[f - 1] = CallOf(chunks, frames[f - 1 + 1])
    <3>1. f - 1 \in 1 .. Len(frames) - 1
      BY <1>4, <1>6
    <3>. QED  BY <3>1, <1>4, CallShape DEF Calls
  <2>6. f - 1 + 1 = f
    BY <1>6
  <2>. QED  BY <2>1, <2>4, <2>5, <2>6
<1>10. Calls' = SubSeq(Calls, 1, f - 1 - 1)
  <2>1. PICK gs : gs = SubSeq(frames, 1, f - 1)
    OBVIOUS
  <2>2. IsSeq(gs) /\ Len(gs) = f - 1 /\ \A j \in 1 .. f - 1 : gs[j] = frames[j]
    <3>1. IsSeq(frames) /\ f - 1 \in 0 .. Len(frames)
      BY <1>4, <1>6
    <3>. QED  BY <3>1, <2>1, SeqFacts
  <2>3. Len(gs) \in 1 .. Len(frames) /\ \A j \in 1 .. Len(gs) : Same(frames[j], gs[j])
    BY <2>2, <1>4, <1>6 DEF Same
  <2>4. frames' = gs
    BY <2>1, <1>2, <1>5
  <2>5. Calls' = SubSeq(Calls, 1, Len(gs) - 1)
    BY <2>2, <2>3, <2>4, <1>4, <1>8, CallsCut
  <2>. QED  BY <2>2, <2>5
<1>11. PICK K, H, n : K = CatchTraps(traps) /\ H = Handlers /\ n = CountTo(K, k - 1)
  OBVIOUS
<1>12. n \in 0 .. Len(H) /\ Handlers' = SubSeq(H, 1, n)
  <2>1. PICK us : us = traps'
    OBVIOUS
  <2>2. IsSeq(us) /\ Len(us) = k - 1 /\ Len(us) <= Len(traps) /\ \A j \in 1 .. Len(us) : us[j] = traps[j]
    <3>1. k - 1 \in 0 .. Len(traps)
      BY <1>3
    <3>. QED  BY <3>1, <2>1, <1>3, <1>8, SeqFacts
  <2>3. /\ HandlersOf(us) = SubSeq(HandlersOf(traps), 1, CountTo(CatchTraps(traps), Len(us)))
        /\ CountTo(CatchTraps(traps), Len(us)) \in 0 .. Len(HandlersOf(traps))
    BY <2>2, <1>3, HandlerPrefix
  <2>. QED  BY <2>1, <2>2, <2>3, <1>11 DEF Handlers
<1>13. ASSUME NEW i \in 1 .. Len(H) PROVE H[i].depth < f - 1 <=> i <= n
  <2>1. Upto(K, Len(traps)) /\ K \subseteq 1 .. Len(traps) /\ \E j \in K : CountTo(K, j) = i /\ H[i] = HandlerOf(traps[j])
    BY <1>3, <1>11, HandlerFacts DEF Handlers
  <2>2. PICK j \in K : CountTo(K, j) = i /\ H[i] = HandlerOf(traps[j])
    BY <2>1
  <2>3. j \in 1 .. Len(traps) /\ traps[j].owner = "catch" /\ H[i].depth = traps[j].frame - 1
    BY <2>1, <2>2, <1>11 DEF CatchTraps, HandlerOf
  <2>4. /\ Key(traps[j]) = 2 * traps[j].frame + 1 /\ traps[j].frame \in Nat
        /\ Key(traps[k]) = 2 * f
        /\ Key(traps[j]) < Key(traps[k]) => j < k
    <3>1. Good(P, traps) /\ k \in 1 .. Len(traps) /\ traps[k].owner = "eval" /\ traps[k].frame = f
      BY <1>1, <1>2, <1>3, <1>5
    <3>2. Key(traps[k]) = 2 * f /\ (Key(traps[j]) < Key(traps[k]) => j < k)
      BY <3>1, <2>3, KeyFacts
    <3>3. Key(traps[j]) = 2 * traps[j].frame + 1 /\ traps[j].frame \in Nat
      BY <3>1, <2>3, KeyFacts
    <3>. QED  BY <3>2, <3>3
  <2>5. j < k => Key(traps[j]) < Key(traps[k])
    BY <2>3, <1>3 DEF Good, TrapsFit, Increasing
  <2>6. traps[j].frame < f <=> j < k
    BY <2>4, <2>5, <1>6
  <2>7. j < k => CountTo(K, j) <= n
    <3>1. j \in Nat /\ k - 1 \in Nat /\ (j < k => j <= k - 1)
      BY <2>3, <1>3
    <3>. QED  BY <3>1, <2>1, <1>11, CountGrows
  <2>8. ~(j < k) => n < CountTo(K, j)
    <3>1. j \in Nat /\ k - 1 \in Nat /\ (~(j < k) => k - 1 <= j /\ k - 1 < j)
      BY <2>3, <1>3
    <3>. QED  BY <3>1, <2>1, <2>2, <1>11, CountGrows
  <2>9. H[i].depth < f - 1 <=> traps[j].frame < f
    BY <2>3, <2>4, <1>6
  <2>10. i \in Nat /\ n \in Nat
    BY <1>12
  <2>. QED  BY <2>2, <2>6, <2>7, <2>8, <2>9, <2>10
<1>14. DOMAIN H = 1 .. Len(H) /\ f - 1 \in DOMAIN Calls
  <2>1. DOMAIN H = 1 .. Len(H)
    BY <1>11, HandlersShape, SeqFacts
  <2>2. IsSeq(Calls) /\ Len(Calls) = N - 1
    BY <1>4, CallShape DEF Calls
  <2>3. DOMAIN Calls = 1 .. N - 1
    BY <2>2, SeqFacts
  <2>. QED  BY <2>1, <2>3, <1>4, <1>6
<1>15. Promised!Abandon(f - 1)
  <2>1. sp' = Calls[f - 1].back + 1 /\ Len(cstack') = Calls[f - 1].outer
    BY <1>2, <1>6, <1>8, <1>9
  <2>2. \E m \in 0 .. Len(Handlers) :
          /\ Handlers' = SubSeq(Handlers, 1, m)
          /\ \A i \in DOMAIN Handlers : Handlers[i].depth < f - 1 <=> i <= m
    BY <1>11, <1>12, <1>13, <1>14
  <2>. QED  BY <2>1, <2>2, <1>10 DEF Promised!Abandon, Promised!Cut, Calls, Handlers
<1>. QED  BY <1>14, <1>15

-------------------------------------------------------------------------------
(* main has one context.                                                   *)

(* The chunk of repl() opens no context.                                   *)
LEMMA LoopPlan ==
  ASSUME NEW p, IsPlan(ReplChunk, p), NEW i \in DOMAIN p
  PROVE  p[i].scopes = 0
<1>. DEFINE Zero(k) == k \in DOMAIN p => p[k].scopes = 0
<1>1. DOMAIN p \subseteq 1 .. 7
  BY ReplCode DEF IsPlan
<1>2. Zero(7)
  <2>. SUFFICES ASSUME 7 \in DOMAIN p PROVE p[7].scopes = 0
    OBVIOUS
  <2>1. Fits(ReplChunk, p, 7) /\ ReplChunk.code[7][1] = "exit"
    BY ViewFacts, ReplCode DEF Has
  <2>2. p[7] = [AtStart EXCEPT !.height = 1, !.saved = p[7].saved]
    BY <2>1 DEF Fits
  <2>. QED  BY <2>2 DEF AtStart
<1>3. ASSUME NEW k \in {1, 2, 3, 4, 5, 6} PROVE Zero(k + 1) => Zero(k)
  <2>. SUFFICES ASSUME k \in DOMAIN p, Zero(k + 1) PROVE p[k].scopes = 0
    OBVIOUS
  <2>1. ReplChunk.code[k][1] \in {"push", "call"}
    BY ReplCode DEF Has
  <2>2. k + 1 \in Follows(ReplChunk, k) /\ ReplChunk.code[k][1] # "catch"
    BY <2>1 DEF Follows
  <2>3. k + 1 \in DOMAIN p /\ p[k + 1] = Moved(ReplChunk, k, p[k])
    BY <2>2, Follow
  <2>4. Moved(ReplChunk, k, p[k]) = [p[k] EXCEPT !.height = @ + Rise(ReplChunk, k)]
    BY <2>1 DEF Moved
  <2>5. p[k] \in Views(ReplChunk)
    BY ViewFacts
  <2>6. p[k + 1].scopes = p[k].scopes
    BY <2>3, <2>4, <2>5 DEF Views
  <2>. QED  BY <2>3, <2>6
<1>4. Zero(6)
  BY <1>2, <1>3
<1>5. Zero(5)
  BY <1>4, <1>3
<1>6. Zero(4)
  BY <1>5, <1>3
<1>7. Zero(3)
  BY <1>6, <1>3
<1>8. Zero(2)
  BY <1>7, <1>3
<1>9. Zero(1)
  BY <1>8, <1>3
<1>10. i = 1 \/ i = 2 \/ i = 3 \/ i = 4 \/ i = 5 \/ i = 6 \/ i = 7
  BY <1>1
<1>. QED  BY <1>2, <1>4, <1>5, <1>6, <1>7, <1>8, <1>9, <1>10

MainScope == N = 1 => Len(cstack) = 1
LoopOpen ==
  chunks[1] = ReplChunk /\ mode = Run /\ N = 1 => Calls = << >> /\ Handlers = << >> /\ Len(cstack) = 1
(* When main's chunk runs alone it has only the global context.            *)
LEMMA InvLoopOpen == Inv => LoopOpen
<1>. SUFFICES ASSUME Inv, chunks[1] = ReplChunk, mode = Run, N = 1
              PROVE  Calls = << >> /\ Handlers = << >> /\ Len(cstack) = 1
  BY DEF LoopOpen
<1>1. PICK P : Standing(P)
  BY LoopFacts
<1>2. /\ F = frames[1] /\ F.chunk = 1 /\ Len(cstack) = P[N].own + V.scopes /\ N > 0 /\ Stacked(P)
      /\ IsPlan(C, Plan(C)) /\ F.pc \in DOMAIN Plan(C) /\ N = Len(P)
  <2>1. N > 0 /\ Frames(chunks, freed, frames, P) /\ Stacked(P) /\ Len(cstack) = P[N].own + V.scopes
    BY <1>1 DEF Standing, Good
  <2>. QED  BY <2>1, <1>1, StandFacts, LoopFacts, LoopFrame
<1>3. V.scopes = 0
  <2>1. C = ReplChunk
    BY <1>2 DEF C
  <2>. QED  BY <2>1, <1>2, LoopPlan DEF V
<1>4. P[1].own = 1
  BY <1>2 DEF Stacked
<1>. QED  BY <1>2, <1>3, <1>4, LoopHandlers

(* What an error in a vm_eval that main called leaves.                     *)
LEMMA EvalScope ==
  ASSUME Inv, chunks[1] = ReplChunk, MainScope, NEW e, RaiseToEval(e)
  PROVE  MainScope'
<1>. SUFFICES ASSUME Len(frames') = 1 PROVE Len(cstack') = 1
  BY DEF MainScope, N
<1>1. PICK k, t : k = Catcher(e) /\ t = traps[k]
  OBVIOUS
<1>2. /\ Caught(e) /\ t.owner = "eval" /\ Unwind(t)
      /\ frames' = SubSeq(frames, 1, t.frame - 1)
  BY <1>1 DEF RaiseToEval
<1>3. k \in 1 .. Len(traps) /\ mode \notin {Run, Prompt, Done}
  BY <1>1, <1>2, CatcherFacts
<1>4. PICK P : Stopped(P)
  BY <1>3 DEF Inv, Shape
<1>5. /\ N > 0 /\ Frames(chunks, freed, frames, P) /\ Stacked(P)
      /\ N = Len(P) /\ N = Len(frames) /\ N \in Nat /\ IsSeq(frames)
  <2>1. N > 0 /\ Frames(chunks, freed, frames, P) /\ Stacked(P)
    BY <1>4 DEF Stopped, Good, Pending
  <2>. QED  BY <2>1, RunFacts DEF N, IsSeq
<1>6. P[1].own = 1 /\ 1 \in 1 .. Len(P) /\ P[1].own <= P[1].lows /\ P[1].lows \in Nat
  <2>1. 1 \in 1 .. Len(P) /\ Len(P) > 0
    BY <1>5
  <2>2. P[1].own = 1 /\ P[1].own <= P[1].lows
    BY <2>1, <1>5 DEF Stacked
  <2>3. P[1].lows \in Nat
    BY <2>1, <1>5, FrameFacts
  <2>. QED  BY <2>1, <2>2, <2>3
<1>7. CASE Good(P, traps)
  <2>1. t.frame \in 2 .. N /\ P[t.frame].kind = "eval" /\ t.lvl = P[t.frame].own
    BY <1>1, <1>2, <1>3, <1>5, <1>7 DEF Good, TrapsFit, TrapFits
  <2>2. t.frame = 2
    <3>1. IsSeq(frames) /\ t.frame - 1 \in 0 .. Len(frames)
      BY <2>1, <1>5
    <3>2. Len(SubSeq(frames, 1, t.frame - 1)) = t.frame - 1
      BY <3>1, SeqFacts
    <3>3. t.frame - 1 = 1
      BY <3>2, <1>2
    <3>. QED  BY <3>3, <2>1
  <2>3. PICK r, v : r = frames[1] /\ v = PlanIn(chunks, r)[r.pc]
    OBVIOUS
  <2>4. 1 \in 1 .. Len(frames) /\ Placed(chunks, r, P[1])
        /\ Rests(chunks, r, P[1]) /\ Waits(chunks, r, P[1], P[1 + 1])
    <3>1. 1 \in 1 .. Len(frames) - 1 /\ 1 \in 1 .. Len(frames)
      BY <2>1, <2>2, <1>5
    <3>. QED  BY <3>1, <2>3, <1>5 DEF Frames
  <2>5. v.scopes = 0
    <3>1. r.chunk = 1 /\ Level(chunks[1])
      BY <2>3, <2>4, <1>5, LoopFrame DEF Placed
    <3>. QED  BY <3>1, <2>3, <2>4, LoopPlan DEF Level, PlanIn, Rests
  <2>6. t.lvl = 1
    <3>1. P[2].own = P[1].own + v.scopes + 0
      BY <2>1, <2>2, <2>3, <2>4 DEF Waits
    <3>. QED  BY <3>1, <2>1, <2>2, <2>5, <1>6
  <2>7. t.lvl \in Nat /\ t.lvl > 0
    BY <2>6
  <2>8. Len(cstack') = t.lvl
    BY <2>7, <1>1, <1>2, UnwindFacts
  <2>. QED  BY <2>6, <2>8
<1>8. CASE Pending(P, traps, Len(cstack))
  <2>1. t.frame = Len(P) + 1 /\ t.lvl \in Nat /\ P[Len(P)].lows <= t.lvl /\ t.lvl <= Len(cstack)
    BY <1>1, <1>2, <1>8, PendingCatches DEF Pending
  <2>2. N = 1
    <3>1. IsSeq(frames) /\ t.frame - 1 \in 0 .. Len(frames) /\ t.frame - 1 = N
      BY <2>1, <1>5
    <3>2. Len(SubSeq(frames, 1, t.frame - 1)) = t.frame - 1
      BY <3>1, SeqFacts
    <3>. QED  BY <3>1, <3>2, <1>2
  <2>3. t.lvl = 1
    <3>1. Len(cstack) = 1
      BY <2>2 DEF MainScope
    <3>2. P[1].lows <= t.lvl /\ t.lvl <= 1 /\ t.lvl \in Nat
      BY <3>1, <2>1, <2>2, <1>5
    <3>. QED  BY <3>2, <1>6
  <2>4. t.lvl \in Nat /\ t.lvl > 0
    BY <2>3
  <2>5. Len(cstack') = t.lvl
    BY <2>4, <1>1, <1>2, UnwindFacts
  <2>. QED  BY <2>3, <2>5
<1>. QED  BY <1>4, <1>7, <1>8 DEF Stopped

(* Going on adds and ends no frame.                                        *)
LEMMA SameDepth ==
  ASSUME Inv, mode = Run, GoesOn
  PROVE  Len(frames') = N
<1>1. N \in Nat /\ N > 0 /\ N = Len(frames) /\ IsSeq(frames)
  BY Fewest
<1>2. CASE frames' = frames
  BY <1>1, <1>2
<1>3. CASE \E g : Same(F, g) /\ frames' = [frames EXCEPT ![Len(frames)] = g]
  <2>1. PICK g : frames' = [frames EXCEPT ![Len(frames)] = g]
    BY <1>3
  <2>2. PICK S : frames \in Seq(S)
    BY <1>1 DEF IsSeq
  <2>. QED  BY <2>1, <2>2, <1>1
<1>. QED  BY <1>2, <1>3 DEF GoesOn

(* A start that fails goes on in the frame of the caller.                  *)
LEMMA StartsOrRaises ==
  ASSUME NEW chunk, NEW kind, NEW argc, NEW lvl, NEW height, NEW entry,
         Start(chunk, kind, argc, lvl, height, entry), mode = Run, mode' # Run, F \in FrameRecs
  PROVE  GoesOn
<1>1. NextI
  BY DEF Start
<1>. QED  BY <1>1, Onward

(* No instruction leaves main with another context.                        *)
LEMMA InstructionScope ==
  ASSUME Inv, Inv', chunks[1] = ReplChunk, chunks'[1] = ReplChunk, MainScope, Instruction
  PROVE  MainScope'
<1>. SUFFICES ASSUME N' = 1 PROVE Len(cstack') = 1
  BY DEF MainScope
<1>1. mode = Run
  BY InstructionTalk
<1>2. CASE mode' = Run
  <2>1. LoopOpen'
    BY InvLoopOpen, PTL
  <2>. QED  BY <2>1, <1>2 DEF LoopOpen
<1>3. CASE N = 1
  <2>1. cstack' = cstack
    BY <1>1, <1>3, LoopContexts
  <2>. QED  BY <2>1, <1>3 DEF MainScope
<1>4. CASE mode' # Run /\ N # 1
  <2>1. F \in FrameRecs
    BY <1>1, Running1
  <2>2. GoesOn => FALSE
    <3>1. GoesOn => Len(frames') = N
      BY <1>1, SameDepth
    <3>. QED  BY <3>1, <1>4 DEF N
  <2>3. CallCode => GoesOn
    BY <2>1, <1>1, <1>4, StartsOrRaises DEF CallCode
  <2>4. CallEval => GoesOn
    <3>1. ASSUME CallEval
          PROVE  frames' = frames \/ \E start : Start(Len(chunks) + 1, "eval", 0, Len(cstack), Popped(2), start)
      BY <3>1 DEF CallEval
    <3>2. (\E start : Start(Len(chunks) + 1, "eval", 0, Len(cstack), Popped(2), start)) => GoesOn
      BY <2>1, <1>1, <1>4, StartsOrRaises
    <3>. QED  BY <3>1, <3>2 DEF GoesOn
  <2>5. ~ExitI
    <3>. SUFFICES ASSUME ExitI PROVE FALSE
      OBVIOUS
    <3>1. F.kind = "repl" /\ Op = "exit"
      BY <1>1, <1>4 DEF ExitI, Executing
    <3>2. PICK P : Standing(P)
      BY <3>1, <1>1, Instructions
    <3>. QED  BY <3>1, <3>2, <1>4, ExitFacts
  <2>. QED  BY <2>1, <2>2, <2>3, <2>4, <2>5, InstructionStays
<1>. QED  BY <1>2, <1>3, <1>4

-------------------------------------------------------------------------------
(* The other steps.                                                        *)

(* A vm_eval that never started its chunk has only a trap to pop.          *)
LEMMA PendingWorks ==
  ASSUME Inv, Inv', MainScope, MainScope', NEW e, RaiseToEval(e), NEW P, Stopped(P),
         Pending(P, traps, Len(cstack))
  PROVE  Promised!Work
<1>1. PICK k, t : k = Catcher(e) /\ t = traps[k]
  OBVIOUS
<1>2. /\ Caught(e) /\ Unwind(t) /\ frames' = SubSeq(frames, 1, t.frame - 1)
      /\ traps' = SubSeq(traps, 1, Catcher(mode[2]) - 1) /\ UNCHANGED chunks
  BY <1>1 DEF RaiseToEval, Unwind, program
<1>3. k = Len(traps) /\ t.owner = "eval" /\ IsSeq(traps) /\ Len(traps) \in Nat /\ Len(traps) > 0 /\ mode[2] = e
  <2>1. mode[2] = e
    BY <1>2, RaisingFacts DEF Caught
  <2>2. k \in 1 .. Len(traps) /\ IsSeq(traps) /\ Len(traps) \in Nat
    BY <1>1, <1>2, CatcherFacts
  <2>. QED  BY <2>1, <2>2, <1>1, <1>2, PendingCatches
<1>4. /\ N = Len(P) /\ N = Len(frames) /\ N \in Nat /\ IsSeq(frames) /\ N > 0
  <2>1. N > 0 /\ Frames(chunks, freed, frames, P) /\ Stacked(P)
    BY DEF Stopped, Good, Pending
  <2>. QED  BY <2>1, RunFacts DEF N, IsSeq
<1>5. t.frame = N + 1
  BY <1>1, <1>3, <1>4 DEF Pending
<1>6. frames' = frames
  <2>1. PICK gs : gs = SubSeq(frames, 1, N)
    OBVIOUS
  <2>2. IsSeq(gs) /\ Len(gs) = N /\ \A i \in 1 .. N : gs[i] = frames[i]
    <3>1. N \in 0 .. Len(frames)
      BY <1>4
    <3>. QED  BY <3>1, <2>1, <1>4, SeqFacts
  <2>3. gs = frames
    BY <2>2, <1>4, Alike
  <2>4. t.frame - 1 = N
    BY <1>4, <1>5
  <2>. QED  BY <2>1, <2>3, <2>4, <1>2
<1>7. Calls' = Calls
  BY <1>2, <1>6 DEF Calls
<1>8. Handlers' = Handlers
  <2>1. PICK us : us = SubSeq(traps, 1, Len(traps) - 1)
    OBVIOUS
  <2>2. HandlersOf(us) = HandlersOf(traps)
    BY <2>1, <1>1, <1>3, DropHandler
  <2>. QED  BY <2>1, <2>2, <1>1, <1>2, <1>3 DEF Handlers
<1>9. Calls = << >> => Len(cstack') = Len(cstack)
  <2>1. Calls = << >> <=> Len(frames) <= 1
    BY <1>4, CallShape DEF Calls
  <2>2. Calls = << >> => N = 1 /\ N' = 1
    BY <2>1, <1>4, <1>6 DEF N
  <2>. QED  BY <2>2 DEF MainScope
<1>. QED  BY <1>7, <1>8, <1>9, WorkDone

(* raise() to main: nothing is left.                                       *)
LEMMA MainResets ==
  ASSUME Inv', NEW e, RaiseToMain(e)
  PROVE  Promised!Reset
<1>1. mode' \in {Prompt, Done}
  BY DEF RaiseToMain
<1>2. Clean'
  BY <1>1 DEF Inv, Shape
<1>3. Calls' = << >> /\ Handlers' = << >>
  <2>1. Empty'
    BY NothingKept, PTL
  <2>. QED  BY <2>1, <1>2 DEF Empty, Clean
<1>4. Len(cstack') = 1
  BY <1>2 DEF Clean
<1>5. sp' \in 0 .. 1
  <2>1. Sized'
    BY InvSized, PTL
  <2>. QED  BY <2>1, <1>2 DEF Sized, Clean
<1>. QED  BY <1>3, <1>4, <1>5 DEF Promised!Reset, Calls, Handlers

(* A turn of the loop in main().                                           *)
LEMMA LoopStarts ==
  ASSUME Inv, Inv', chunks[1] = ReplChunk, MainLoop
  PROVE  Promised!Work
<1>1. mode = Prompt /\ mode' = Run /\ UNCHANGED <<cstack, chunks>> /\ N' = 1
  <2>1. PICK f : frames' = <<f>>
    BY DEF MainLoop
  <2>. QED  BY <2>1 DEF MainLoop, context, program, N
<1>2. Clean
  BY <1>1 DEF Inv, Shape
<1>3. Calls = << >> /\ Handlers = << >>
  BY <1>2, NothingHeld DEF Clean
<1>4. Calls' = << >> /\ Handlers' = << >>
  <2>1. LoopOpen'
    BY InvLoopOpen, PTL
  <2>. QED  BY <2>1, <1>1 DEF LoopOpen
<1>. QED  BY <1>1, <1>3, <1>4, WorkDone

-------------------------------------------------------------------------------
(* Every step keeps the promise.                                           *)

Promises == Promised!Next \/ UNCHANGED Promised!stacks

(* Every instruction ...                                                   *)
LEMMA InstructionPromises ==
  ASSUME Inv, Inv', Verified, chunks[1] = ReplChunk, Instruction
  PROVE  Promised!Next
<1>1. CallCode \/ CallEval => Promised!Work \/ Promised!Call
  BY CallCodeCalls, EvalCalls
<1>2. ExitI => Promised!Work \/ Promised!Return
  <2>1. ExitI => F.kind = "call" \/ F.kind = "eval" \/ F.kind = "repl"
    BY DEF ExitI
  <2>. QED  BY <2>1, CallReturns, EvalReturns, LoopReturns
<1>3. CatchI => Promised!Catch
  BY CatchCatches
<1>4. PopCatchI => Promised!PopCatch
  BY PopCatchPops
<1>5. ~CallCode /\ ~CallEval /\ ~ExitI /\ ~CatchI /\ ~PopCatchI => Promised!Work
  BY PlainWork
<1>. QED  BY <1>1, <1>2, <1>3, <1>4, <1>5 DEF Promised!Next

(* ... and every jump of an error keeps the promise.                       *)
LEMMA RaisePromises ==
  ASSUME Inv, Inv', MainScope, MainScope', Raise
  PROVE  Promised!Next
<1>1. PICK e : RaiseToCatch(e) \/ RaiseToEval(e) \/ RaiseToMain(e)
  BY DEF Raise
<1>2. ASSUME RaiseToCatch(e) PROVE Promised!Next
  <2>1. \E i \in DOMAIN Handlers : Promised!Throw(i)
    BY <1>2, CaughtThrows
  <2>. QED  BY <2>1 DEF Promised!Next, Handlers
<1>3. ASSUME RaiseToEval(e) PROVE Promised!Next
  <2>1. Caught(e)
    BY <1>3 DEF RaiseToEval
  <2>2. mode \notin {Run, Prompt, Done}
    BY <2>1, CatcherFacts
  <2>3. PICK P : Stopped(P)
    BY <2>2 DEF Inv, Shape
  <2>4. ASSUME Good(P, traps) PROVE Promised!Next
    <3>1. \E j \in DOMAIN Calls : Promised!Abandon(j)
      BY <2>3, <2>4, <1>3, EvalAbandons
    <3>. QED  BY <3>1 DEF Promised!Next, Calls
  <2>5. ASSUME Pending(P, traps, Len(cstack)) PROVE Promised!Next
    <3>1. Promised!Work
      BY <2>3, <2>5, <1>3, PendingWorks
    <3>. QED  BY <3>1 DEF Promised!Next
  <2>. QED  BY <2>3, <2>4, <2>5 DEF Stopped
<1>4. ASSUME RaiseToMain(e) PROVE Promised!Next
  BY <1>4, MainResets DEF Promised!Next
<1>. QED  BY <1>1, <1>2, <1>3, <1>4

(* main's chunk stays what repl() compiled.                                *)
LEMMA LoopChunkStays ==
  ASSUME Inv, chunks[1] = ReplChunk, [Next]_vmvars
  PROVE  chunks'[1] = ReplChunk
<1>1. CASE Instruction
  <2>1. chunks' = chunks \/ \E x : chunks' = Append(chunks, x)
    BY <1>1, InstructionChunks
  <2>2. Grown(chunks, chunks') /\ 1 \in DOMAIN chunks
    <3>1. Grown(chunks, chunks') /\ DOMAIN chunks = 1 .. Len(chunks) /\ Len(chunks) \in Nat
      BY <2>1, ChunksGrow
    <3>2. Len(chunks) > 0
      BY DEF Inv, Program
    <3>. QED  BY <3>1, <3>2
  <2>. QED  BY <2>2 DEF Grown
<1>2. CASE Raise
  BY <1>2 DEF Raise, RaiseToCatch, RaiseToEval, RaiseToMain, Unwind, program
<1>3. CASE MainLoop
  BY <1>3 DEF MainLoop, program
<1>4. CASE Break
  BY <1>4 DEF Break, Stop, program
<1>5. CASE Halted \/ UNCHANGED vmvars
  BY <1>5 DEF Halted, vmvars, program
<1>. QED  BY <1>1, <1>2, <1>3, <1>4, <1>5 DEF Next, Step

Held == chunks[1] = ReplChunk /\ MainScope
(* So does every step.                                                     *)
LEMMA StepPromises ==
  ASSUME Inv, Inv', Verified, Held, [Next]_vmvars
  PROVE  Held' /\ Promises
<1>1. chunks[1] = ReplChunk /\ MainScope /\ chunks'[1] = ReplChunk
  BY LoopChunkStays DEF Held
<1>2. ASSUME Instruction PROVE Held' /\ Promises
  BY <1>1, <1>2, InstructionScope, InstructionPromises DEF Held, Promises
<1>3. ASSUME Raise PROVE Held' /\ Promises
  <2>1. MainScope'
    <3>1. PICK e : RaiseToCatch(e) \/ RaiseToEval(e) \/ RaiseToMain(e)
      BY <1>3 DEF Raise
    <3>2. RaiseToCatch(e) => MainScope'
      <4>1. RaiseToCatch(e) => mode' = Run
        BY DEF RaiseToCatch
      <4>2. LoopOpen'
        BY InvLoopOpen, PTL
      <4>. QED  BY <4>1, <4>2, <1>1 DEF LoopOpen, MainScope
    <3>3. RaiseToMain(e) => MainScope'
      <4>1. RaiseToMain(e) => frames' = << >>
        BY DEF RaiseToMain
      <4>2. Len(<< >>) = 0
        OBVIOUS
      <4>. QED  BY <4>1, <4>2 DEF MainScope, N
    <3>. QED  BY <3>1, <3>2, <3>3, <1>1, EvalScope
  <2>. QED  BY <2>1, <1>1, <1>3, RaisePromises DEF Held, Promises
<1>4. ASSUME MainLoop PROVE Held' /\ Promises
  <2>1. mode' = Run
    BY <1>4 DEF MainLoop
  <2>2. LoopOpen'
    BY InvLoopOpen, PTL
  <2>3. MainScope'
    BY <2>1, <2>2, <1>1 DEF LoopOpen, MainScope
  <2>. QED  BY <2>3, <1>1, <1>4, LoopStarts DEF Held, Promises, Promised!Next
<1>5. ASSUME Break \/ Halted \/ UNCHANGED vmvars PROVE Held' /\ Promises
  <2>1. UNCHANGED <<sp, cstack, chunks, frames, traps>>
    BY <1>5 DEF Break, Stop, Halted, vmvars, values, context, program
  <2>2. UNCHANGED Promised!stacks
    BY <2>1 DEF Promised!stacks
  <2>. QED  BY <2>1, <2>2, <1>1 DEF Held, MainScope, N, Promises
<1>. QED  BY <1>2, <1>3, <1>4, <1>5 DEF Next, Step

(* The promise at the start.                                               *)
LEMMA InitHeld ==
  ASSUME Init
  PROVE  Held /\ Promised!Init
<1>1. frames = << >> /\ traps = << >> /\ sp = 0 /\ cstack = <<Global>> /\ chunks = <<ReplChunk>>
  BY DEF Init
<1>2. chunks[1] = ReplChunk /\ Len(cstack) = 1
  BY <1>1
<1>3. Calls = << >> /\ Handlers = << >>
  BY <1>1, NothingHeld
<1>. QED  BY <1>1, <1>2, <1>3 DEF Held, MainScope, Promised!Init, Calls, Handlers

(* The machine keeps the discipline of Stacks: whatever the program, the   *)
(* value stack, the contexts, the running chunks and the catch forms grow  *)
(* and shrink together; an exit finds exactly one value and no context of  *)
(* its own, and raise() cuts all four to where they were (call, vm_eval,   *)
(* exit, catch, pop_catch and raise in threaded_vm.c).                     *)
THEOREM MachineDisciplined == Spec /\ []Verified => Disciplined
<1>1. Spec /\ []Verified => [](Inv /\ Marks)
  BY MachineInvariant
<1>2. Init => Held /\ Promised!Init
  BY InitHeld
<1>3. Inv /\ Inv' /\ Verified /\ Held /\ [Next]_vmvars => Held' /\ Promises
  BY StepPromises
<1>4. Promises => [Promised!Next]_(Promised!stacks)
  BY DEF Promises
<1>. QED  BY <1>1, <1>2, <1>3, <1>4, PTL DEF Spec, Disciplined, Promised!Spec

===============================================================================
