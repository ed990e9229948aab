------------------------------ MODULE ExpanderProofs ------------------------------
(***************************************************************************)
(* What vm_macroexpand_rec does to the stack and to the form, whatever the *)
(* macros leave: it never loses its place on the stack (Balanced), and if  *)
(* it comes to an end, no macro call is left in the form (FullyExpanded).  *)
(***************************************************************************)
EXTENDS Expander, TLAPS, WellFoundedInduction

(* A set of forms that the macros do not leave: lists are made of forms,   *)
(* and so is what the code of a macro makes of forms, if it can take them  *)
(* apart.                                                                  *)
Forms(F) ==
  /\ Bad \notin F
  /\ Proper \cup Improper \subseteq F /\ Below \in Seq(F)
  /\ \A x \in F : IsCons(x) => x[2] \in Seq(F) \ {<< >>}
  /\ \A s \in Seq(F) \ {<< >>} : List(s) \in F
  /\ \A m \in Macro : \A p \in [1 .. Parameters(m) -> F], g \in Nat :
       Expansion(m, p, g) \in F \cup {Bad}

Frames == [rec : 0 .. MaxRec, at : {"entry", "walk", "run"}, n : Nat]
Base == Len(Below)
Slot(i) == stack[Base + i]

Typed(F) ==
  /\ gensyms \in Nat /\ status \in {"expanding", "done", "SIG-ERROR", "TYPE-ERROR"}
  /\ stack \in Seq(F) /\ frames \in Seq(Frames)
  /\ Base <= Len(stack) /\ \A i \in 1 .. Base : stack[i] = Below[i]
  /\ status = "done" => Len(stack) = Base + 1
  /\ status # "expanding" => frames = << >>

(* While it expands: every call of the expander has the slot of its form,  *)
(* all but the last are walking over a list, and the last may be running a *)
(* macro with the arguments above the form.                                *)
Walks(i) == IsCons(Slot(i)) /\ frames[i].n >= 1
InPlace ==
  status = "expanding" =>
    /\ Depth >= 1
    /\ Len(stack) = Base + Depth + IF Current.at = "run" THEN Current.n ELSE 0
    /\ \A i \in 1 .. Depth : frames[i].at # "entry" => frames[i].rec < MaxRec
    /\ \A i \in 1 .. Depth - 1 : frames[i].at = "walk" /\ frames[i].n <= Len(Items(Slot(i)))
    /\ \A i \in 1 .. Depth : frames[i].at = "walk" => Walks(i)
    /\ Current.at = "run" => IsMacroCall(Slot(Depth))

Inv(F) == Typed(F) /\ InPlace

-------------------------------------------------------------------------------
(* Cutting a sequence and appending to it.                                 *)
LEMMA CutAppend ==
  ASSUME NEW S, NEW s \in Seq(S), NEW n \in 0 .. Len(s), NEW x \in S
  PROVE  LET t == Append(SubSeq(s, 1, n), x) IN
         /\ t \in Seq(S) /\ Len(t) = n + 1 /\ t[n + 1] = x
         /\ \A i \in 1 .. n : t[i] = s[i]
<1>1. \A i \in 1 .. n : s[i] \in S
  OBVIOUS
<1>2. SubSeq(s, 1, n) \in Seq(S) /\ Len(SubSeq(s, 1, n)) = n
      /\ \A i \in 1 .. n : SubSeq(s, 1, n)[i] = s[i]
  BY <1>1
<1>. QED  BY <1>2

(* Changing one element.                                                   *)
LEMMA Change ==
  ASSUME NEW S, NEW s \in Seq(S), NEW n \in 1 .. Len(s), NEW x \in S
  PROVE  LET t == [s EXCEPT ![n] = x] IN
         /\ t \in Seq(S) /\ Len(t) = Len(s) /\ t[n] = x
         /\ \A i \in 1 .. Len(s) : i # n => t[i] = s[i]
OBVIOUS

LEMMA Basics ==
  ASSUME NEW F, Forms(F)
  PROVE  /\ Base \in Nat /\ MaxRec \in Nat
         /\ \A m \in Macro : /\ Variance[m] \in Nat /\ Gensyms[m] \in Nat
                             /\ Parameters(m) \in Nat /\ Parameters(m) <= Base + 1
  BY ExpanderAssumption DEF Forms, Base, Parameters

(* The place of the form that is expanded.                                 *)
LEMMA Here ==
  ASSUME NEW F, Forms(F), Inv(F), status = "expanding"
  PROVE  /\ Depth \in Nat \ {0} /\ Len(stack) \in Nat /\ Current \in Frames
         /\ Slot(Depth) \in F
         /\ \A i \in 1 .. Depth : Slot(i) \in F /\ frames[i] \in Frames
         /\ Current.at # "run" => Form = Slot(Depth) /\ Len(stack) = Base + Depth
         /\ Current.at = "run" => Calling = Slot(Depth) /\ Len(stack) = Base + Depth + Current.n
<1>1. Base \in Nat
  BY Basics
<1>2. Depth \in Nat \ {0} /\ Len(stack) \in Nat
  BY DEF Inv, Typed, InPlace, Depth
<1>3. \A i \in 1 .. Depth : frames[i] \in Frames
  BY DEF Inv, Typed, Depth
<1>4. Current \in Frames /\ Current.n \in Nat
  BY <1>2, <1>3 DEF Current, Frames
<1>5. Len(stack) >= Base + Depth
  BY <1>1, <1>2, <1>4 DEF Inv, InPlace
<1>6. \A i \in 1 .. Depth : Slot(i) \in F
  BY <1>1, <1>2, <1>5 DEF Slot, Inv, Typed
<1>7. Current.at # "run" => Len(stack) = Base + Depth
  BY <1>1, <1>2 DEF Inv, InPlace
<1>8. Current.at = "run" => Len(stack) = Base + Depth + Current.n
  BY DEF Inv, InPlace
<1>9. Current.at # "run" => Form = Slot(Depth)
  BY <1>7 DEF Form, Slot
<1>10. Current.at = "run" => Calling = Slot(Depth)
  BY <1>1, <1>2, <1>4, <1>8 DEF Calling, Slot
<1>. QED  BY <1>2, <1>3, <1>4, <1>6, <1>7, <1>8, <1>9, <1>10

(* The expander starts with the form alone above what was there.           *)
LEMMA InitInv == ASSUME NEW F, Forms(F) PROVE Init => Inv(F)
<1>. SUFFICES ASSUME Init PROVE Inv(F)
  OBVIOUS
<1>1. Below \in Seq(F) /\ input \in F /\ Base \in Nat /\ MaxRec \in Nat
  BY Basics DEF Init, Forms
<1>2. /\ stack \in Seq(F) /\ Len(stack) = Base + 1
      /\ \A i \in 1 .. Base : stack[i] = Below[i]
  BY <1>1 DEF Init, Base
<1>3. /\ Frame(0) \in Frames /\ frames = <<Frame(0)>> /\ Len(frames) = 1
      /\ frames[1].at = "entry"
  BY <1>1 DEF Init, Frame, Frames
<1>4. Typed(F)
  BY <1>1, <1>2, <1>3 DEF Typed, Init
<1>5. Depth = 1 /\ Current.at = "entry"
  BY <1>3 DEF Depth, Current
<1>6. InPlace
  BY <1>2, <1>3, <1>5 DEF InPlace
<1>. QED  BY <1>4, <1>6 DEF Inv

(* An error leaves what was there before.                                  *)
LEMMA SignalStep ==
  ASSUME NEW F, Forms(F), Inv(F), NEW e \in {"SIG-ERROR", "TYPE-ERROR"}, Signal(e)
  PROVE  Inv(F)'
<1>1. Below \in Seq(F) /\ Base \in Nat
  BY Basics DEF Forms
<1>2. /\ stack' = Below /\ frames' = << >> /\ status' = e /\ gensyms' = gensyms
  BY DEF Signal
<1>. QED  BY <1>1, <1>2 DEF Inv, Typed, InPlace, Base

(* Only the last frame and what is above its form change: what an action   *)
(* that leaves the others alone has to show.                               *)
LEMMA Outer ==
  ASSUME NEW F, Forms(F), Inv(F), status = "expanding",
         NEW d \in 1 .. Depth + 1,
         d = Depth + 1 => Current.at = "walk" /\ Current.n <= Len(Items(Slot(Depth))),
         stack' \in Seq(F), frames' \in Seq(Frames), Len(frames') = d,
         Len(stack') >= Base + d,
         \A i \in 1 .. Base + d - 1 : stack'[i] = stack[i],
         \A i \in 1 .. d - 1 : frames'[i] = frames[i],
         gensyms' \in Nat, status' = "expanding",
         Len(stack') = Base + d + IF frames'[d].at = "run" THEN frames'[d].n ELSE 0,
         frames'[d].at # "entry" => frames'[d].rec < MaxRec,
         frames'[d].at = "walk" => IsCons(stack'[Base + d]) /\ frames'[d].n >= 1,
         frames'[d].at = "run" => IsMacroCall(stack'[Base + d])
  PROVE  Inv(F)'
<1>1. Base \in Nat /\ Depth \in Nat \ {0} /\ d \in Nat \ {0} /\ Len(stack) \in Nat
  BY Basics, Here
<1>2. Base' = Base
  BY DEF Base
<1>3. Depth' = d /\ Current' = frames'[d]
  BY DEF Depth, Current
<1>4. \A i \in 1 .. d - 1 : Slot(i)' = Slot(i)
  BY <1>1, <1>2 DEF Slot
<1>5. \A i \in 1 .. Base : stack'[i] = Below[i]
  BY <1>1 DEF Inv, Typed
<1>6. Typed(F)'
  BY <1>1, <1>2, <1>5 DEF Typed
<1>7. \A i \in 1 .. d - 1 : /\ frames[i].at = "walk" /\ frames[i].n <= Len(Items(Slot(i)))
                            /\ Walks(i) /\ frames[i].rec < MaxRec
  <2>1. \A i \in 1 .. Depth - 1 : frames[i].at = "walk" /\ frames[i].n <= Len(Items(Slot(i)))
    BY DEF Inv, InPlace
  <2>2. d = Depth + 1 => frames[Depth].at = "walk" /\ frames[Depth].n <= Len(Items(Slot(Depth)))
    BY DEF Current
  <2>3. \A i \in 1 .. d - 1 : i \in 1 .. Depth /\ frames[i].at = "walk" /\ frames[i].n <= Len(Items(Slot(i)))
    BY <1>1, <2>1, <2>2
  <2>4. \A i \in 1 .. Depth : frames[i].at = "walk" => Walks(i) /\ frames[i].rec < MaxRec
    BY DEF Inv, InPlace
  <2>. QED  BY <2>3, <2>4
<1>8. \A i \in 1 .. d - 1 : /\ frames'[i].at = "walk" /\ frames'[i].n <= Len(Items(Slot(i)))'
                            /\ Walks(i)' /\ frames'[i].rec < MaxRec
  BY <1>4, <1>7 DEF Walks, Items, IsCons
<1>9. Slot(d)' = stack'[Base + d]
  BY <1>2 DEF Slot
<1>10. ASSUME NEW i \in 1 .. d
       PROVE  /\ frames'[i].at # "entry" => frames'[i].rec < MaxRec
              /\ frames'[i].at = "walk" => Walks(i)'
  <2>1. CASE i = d
    BY <1>9, <2>1 DEF Walks, IsCons
  <2>2. CASE i \in 1 .. d - 1
    BY <1>8, <2>2
  <2>. QED  BY <1>1, <2>1, <2>2
<1>11. InPlace'
  BY <1>1, <1>2, <1>3, <1>8, <1>9, <1>10 DEF InPlace, IsMacroCall, IsCons, NamesMacro
<1>. QED  BY <1>6, <1>11 DEF Inv

(* A result goes into the place of the element it was made of.             *)
LEMMA ReturnStep ==
  ASSUME NEW F, Forms(F), Inv(F), status = "expanding", Current.at # "run", Return,
         NEW d \in Nat, Depth = d + 1
  PROVE  /\ Inv(F)'
         /\ d = 0 => status' = "done" /\ stack' = stack
         /\ d > 0 =>
              LET n == frames[d].n
                  items == Items(Slot(d))
              IN /\ status' = "expanding" /\ Len(frames') = d
                 /\ frames[d].at = "walk" /\ n \in 1 .. Len(items) /\ IsCons(Slot(d))
                 /\ Slot(d)' = List([items EXCEPT ![n] = Slot(d + 1)])
                 /\ frames'[d] = [frames[d] EXCEPT !.n = n + 1]
                 /\ \A i \in 1 .. d - 1 : Slot(i)' = Slot(i) /\ frames'[i] = frames[i]
<1>1. Base \in Nat /\ Depth \in Nat \ {0} /\ Len(stack) = Base + Depth /\ Form = Slot(Depth)
      /\ \A i \in 1 .. Depth : Slot(i) \in F /\ frames[i] \in Frames
  BY Basics, Here
<1>2. CASE d = 0
  <2>1. stack' = stack /\ frames' = << >> /\ status' = "done" /\ gensyms' = gensyms
    BY <1>2 DEF Return
  <2>2. Typed(F)'
    BY <1>1, <1>2, <2>1 DEF Inv, Typed, Base
  <2>. QED  BY <1>2, <2>1, <2>2 DEF Inv, InPlace
<1>3. CASE d > 0
  <2>. DEFINE caller == frames[d]
              list == Slot(d)
              items == Items(list)
              new == [items EXCEPT ![caller.n] = Form]
              back == [caller EXCEPT !.n = @ + 1]
  <2>1. d \in 1 .. Depth /\ d \in Nat \ {0} /\ d + 1 = Depth /\ d - 1 = Depth - 2 /\ d = Depth - 1
    BY <1>1, <1>3
  <2>2. /\ stack[Len(stack) - 1] = list /\ list \in F
        /\ Len(stack) - 2 = Base + d - 1
    BY <1>1, <2>1 DEF Slot
  <2>3. /\ caller \in Frames /\ caller.at = "walk" /\ caller.n \in 1 .. Len(items)
        /\ caller.rec < MaxRec /\ IsCons(list)
    <3>1. caller \in Frames
      BY <1>1, <2>1
    <3>2. /\ caller.at = "walk" /\ caller.n <= Len(items)
      BY <1>1, <1>3, <2>1 DEF Inv, InPlace
    <3>3. Walks(d) /\ caller.rec < MaxRec
      BY <2>1, <3>2 DEF Inv, InPlace
    <3>. QED  BY <3>1, <3>2, <3>3 DEF Walks, Frames
  <2>4. list[2] = items /\ items \in Seq(F) \ {<< >>}
    BY <2>2, <2>3 DEF Items, Forms
  <2>5. new \in Seq(F) /\ Len(new) = Len(items) /\ new # << >>
    <3>1. new \in Seq(F) /\ Len(new) = Len(items)
      BY <1>1, <2>3, <2>4, Change
    <3>. QED  BY <2>3, <3>1
  <2>6. List(new) \in F /\ IsCons(List(new))
    BY <2>5 DEF Forms, List, IsCons
  <2>7. /\ back \in Frames /\ back.n = caller.n + 1 /\ back.at = "walk" /\ back.rec = caller.rec
    BY <2>3 DEF Frames
  <2>8. /\ stack' = Append(SubSeq(stack, 1, Base + d - 1), List(new))
        /\ frames' = Append(SubSeq(frames, 1, d - 1), back)
        /\ status' = "expanding" /\ gensyms' = gensyms
    <3>1. Depth # 1
      BY <1>3
    <3>2. /\ stack' = Append(SubSeq(stack, 1, Len(stack) - 2),
                            List([stack[Len(stack) - 1][2] EXCEPT ![frames[Depth - 1].n] = Form]))
          /\ frames' = Append(SubSeq(frames, 1, Depth - 2), [frames[Depth - 1] EXCEPT !.n = @ + 1])
          /\ status' = status /\ gensyms' = gensyms
      BY <3>1, Zenon DEF Return
    <3>3. stack[Len(stack) - 1][2] = items
      BY <2>2, <2>4
    <3>. QED  BY <2>1, <2>2, <3>2, <3>3, Zenon
  <2>. HIDE DEF new, back
  <2>9. /\ stack' \in Seq(F) /\ Len(stack') = Base + d /\ stack'[Base + d] = List(new)
        /\ \A i \in 1 .. Base + d - 1 : stack'[i] = stack[i]
    <3>1. stack \in Seq(F) /\ Base + d - 1 \in 0 .. Len(stack) /\ (Base + d - 1) + 1 = Base + d
      BY <1>1, <2>1 DEF Inv, Typed
    <3>. QED  BY <2>6, <2>8, <3>1, CutAppend
  <2>10. /\ frames' \in Seq(Frames) /\ Len(frames') = d /\ frames'[d] = back
         /\ \A i \in 1 .. d - 1 : frames'[i] = frames[i]
    <3>1. frames \in Seq(Frames) /\ d - 1 \in 0 .. Len(frames) /\ (d - 1) + 1 = d
      BY <1>1, <2>1 DEF Inv, Typed, Depth
    <3>. QED  BY <2>7, <2>8, <3>1, CutAppend
  <2>11. Inv(F)'
    <3>1. /\ Len(stack') >= Base + d
          /\ Len(stack') = Base + d + IF frames'[d].at = "run" THEN frames'[d].n ELSE 0
          /\ frames'[d].rec < MaxRec /\ frames'[d].n >= 1 /\ frames'[d].at = "walk"
      <4>1. /\ frames'[d].at = "walk" /\ frames'[d].n = caller.n + 1
            /\ frames'[d].rec < MaxRec /\ caller.n \in Nat
        BY <2>3, <2>7, <2>10 DEF Frames
      <4>2. Len(stack') = Base + d /\ Base \in Nat /\ d \in Nat
        BY <1>1, <2>1, <2>9
      <4>. HIDE DEF caller
      <4>. QED  BY <4>1, <4>2
    <3>2. gensyms' \in Nat
      BY <2>8 DEF Inv, Typed
    <3>3. d \in 1 .. Depth + 1 /\ d # Depth + 1
      BY <1>1, <2>1
    <3>4. /\ frames'[d].at # "run"
          /\ frames'[d].at = "walk" => IsCons(stack'[Base + d]) /\ frames'[d].n >= 1
      BY <2>6, <2>9, <3>1
    <3>. HIDE DEF caller, list, items
    <3>. QED  BY <2>8, <2>9, <2>10, <3>1, <3>2, <3>3, <3>4, Outer
  <2>12. Slot(d)' = List(new) /\ \A i \in 1 .. d - 1 : Slot(i)' = Slot(i)
    <3>1. Base' = Base
      BY DEF Base
    <3>2. Slot(d)' = List(new)
      BY <2>9, <3>1 DEF Slot
    <3>3. \A i \in 1 .. d - 1 : Slot(i)' = Slot(i)
      BY <1>1, <2>1, <2>9, <3>1 DEF Slot
    <3>. QED  BY <3>2, <3>3
  <2>. QED  BY <1>1, <1>3, <2>1, <2>3, <2>8, <2>10, <2>11, <2>12 DEF new, back
<1>. QED  BY <1>1, <1>2, <1>3

(* A list that is not a macro call is walked over from its first element.  *)
LEMMA StartWalkStep ==
  ASSUME NEW F, Forms(F), Inv(F), StartWalk
  PROVE  /\ Inv(F)' /\ stack' = stack /\ status' = "expanding" /\ Len(frames') = Depth
         /\ frames'[Depth] = [Current EXCEPT !.at = "walk", !.n = 1]
         /\ \A i \in 1 .. Depth - 1 : frames'[i] = frames[i]
<1>1. /\ status = "expanding" /\ Current.at = "entry" /\ Current.rec < MaxRec
      /\ IsCons(Form) /\ stack' = stack /\ status' = status /\ gensyms' = gensyms
  BY DEF StartWalk, Entering, At
<1>2. /\ Base \in Nat /\ Depth \in Nat \ {0} /\ Current \in Frames
      /\ Form = Slot(Depth) /\ Len(stack) = Base + Depth
  BY <1>1, Basics, Here
<1>. DEFINE d == Depth
            new == [Current EXCEPT !.at = "walk", !.n = 1]
<1>3. new \in Frames /\ new.at = "walk" /\ new.n = 1 /\ new.rec < MaxRec
  BY <1>1, <1>2 DEF Frames
<1>4. frames' = [frames EXCEPT ![Depth] = new]
  BY <1>2 DEF StartWalk, Current
<1>. HIDE DEF new
<1>5. /\ frames' \in Seq(Frames) /\ Len(frames') = d /\ frames'[d] = new
      /\ \A i \in 1 .. d - 1 : frames'[i] = frames[i]
  <2>1. frames \in Seq(Frames) /\ Len(frames) = d /\ d \in 1 .. Len(frames)
    BY <1>2 DEF Inv, Typed, Depth
  <2>. QED  BY <1>2, <1>3, <1>4, <2>1, Change
<1>6. PICK e \in Nat : e = Depth
  BY <1>2
<1>7. Inv(F)'
  <2>1. gensyms' \in Nat /\ stack' \in Seq(F) /\ stack'[Base + e] = Form
    BY <1>1, <1>2, <1>6 DEF Inv, Typed, Slot
  <2>2. /\ e \in 1 .. Depth + 1 /\ e # Depth + 1 /\ Len(stack') = Base + e /\ Len(frames') = e
        /\ frames'[e].at = "walk" /\ frames'[e].n = 1 /\ frames'[e].rec < MaxRec
        /\ \A i \in 1 .. e - 1 : frames'[i] = frames[i]
        /\ \A i \in 1 .. Base + e - 1 : stack'[i] = stack[i]
    BY <1>1, <1>2, <1>3, <1>5, <1>6
  <2>3. /\ Len(stack') >= Base + e
        /\ Len(stack') = Base + e + IF frames'[e].at = "run" THEN frames'[e].n ELSE 0
    BY <1>2, <1>6, <2>2
  <2>. QED  BY <1>1, <1>5, <2>1, <2>2, <2>3, Outer
<1>. QED  BY <1>1, <1>5, <1>7 DEF new

(* The element to be expanded goes on top.                                 *)
LEMMA WalkElementStep ==
  ASSUME NEW F, Forms(F), Inv(F), WalkElement, NEW d \in Nat, Depth = d
  PROVE  /\ Inv(F)' /\ status' = "expanding" /\ Len(frames') = d + 1
         /\ Slot(d + 1)' = Items(Slot(d))[Current.n] /\ Current.n \in DOMAIN Items(Slot(d))
         /\ frames'[d + 1] = Frame(Current.rec + 1)
         /\ \A i \in 1 .. d : Slot(i)' = Slot(i) /\ frames'[i] = frames[i]
<1>1. /\ status = "expanding" /\ Current.at = "walk" /\ Current.n <= Len(Items(Form))
      /\ stack' = Append(stack, Items(Form)[Current.n])
      /\ frames' = Append(frames, Frame(Current.rec + 1))
      /\ status' = status /\ gensyms' = gensyms
  BY DEF WalkElement, At
<1>2. /\ Base \in Nat /\ d \in Nat \ {0} /\ Current \in Frames /\ MaxRec \in Nat
      /\ Form = Slot(d) /\ Form \in F /\ Len(stack) = Base + d
  BY <1>1, Basics, Here
<1>3. Current.n \in 1 .. Len(Items(Form)) /\ IsCons(Form) /\ Current.rec < MaxRec
  <2>1. Walks(d) /\ Current.rec < MaxRec
    BY <1>1, <1>2 DEF Inv, InPlace, Current
  <2>. QED  BY <1>1, <1>2, <2>1 DEF Walks, Current, Frames
<1>4. Items(Form) \in Seq(F)
  BY <1>2, <1>3 DEF Items, Forms
<1>5. Items(Form)[Current.n] \in F /\ Current.n \in DOMAIN Items(Form)
  BY <1>3, <1>4
<1>6. Frame(Current.rec + 1) \in Frames /\ Frame(Current.rec + 1).at = "entry"
  BY <1>2, <1>3 DEF Frame, Frames
<1>7. /\ stack' \in Seq(F) /\ Len(stack') = Base + d + 1 /\ stack'[Base + d + 1] = Items(Form)[Current.n]
      /\ \A i \in 1 .. Base + d : stack'[i] = stack[i]
  <2>1. stack \in Seq(F)
    BY DEF Inv, Typed
  <2>. QED  BY <1>1, <1>2, <1>5, <2>1
<1>8. /\ frames' \in Seq(Frames) /\ Len(frames') = d + 1 /\ frames'[d + 1] = Frame(Current.rec + 1)
      /\ \A i \in 1 .. d : frames'[i] = frames[i]
  <2>1. frames \in Seq(Frames) /\ Len(frames) = d
    BY DEF Inv, Typed, Depth
  <2>. QED  BY <1>1, <1>2, <1>6, <2>1
<1>9. PICK e \in Nat : e = d + 1
  BY <1>2
<1>10. Inv(F)'
  <2>1. gensyms' \in Nat
    BY <1>1 DEF Inv, Typed
  <2>2. /\ e \in 1 .. Depth + 1 /\ Len(stack') = Base + e /\ Len(frames') = e
        /\ frames'[e].at = "entry"
        /\ \A i \in 1 .. e - 1 : frames'[i] = frames[i]
        /\ \A i \in 1 .. Base + e - 1 : stack'[i] = stack[i]
    BY <1>2, <1>6, <1>7, <1>8, <1>9
  <2>3. /\ Len(stack') >= Base + e
        /\ Len(stack') = Base + e + IF frames'[e].at = "run" THEN frames'[e].n ELSE 0
    BY <1>2, <1>9, <2>2
  <2>4. Current.at = "walk" /\ Current.n <= Len(Items(Slot(Depth)))
    BY <1>1, <1>2
  <2>. QED  BY <1>1, <1>7, <1>8, <2>1, <2>2, <2>3, <2>4, Outer
<1>11. Base' = Base
  BY DEF Base
<1>12. Slot(d + 1)' = stack'[Base + d + 1] /\ \A i \in 1 .. d : Slot(i)' = Slot(i)
  <2>1. \A i \in 1 .. d : Base + i \in 1 .. Base + d
    BY <1>2
  <2>2. Base + (d + 1) = Base + d + 1
    BY <1>2
  <2>. QED  BY <1>7, <1>11, <2>1, <2>2 DEF Slot
<1>. QED  BY <1>1, <1>2, <1>5, <1>7, <1>8, <1>10, <1>12

(* What is called: the arguments are forms.                                *)
LEMMA CallParts ==
  ASSUME NEW F, Forms(F), NEW x \in F, IsMacroCall(x)
  PROVE  /\ IsCons(x) /\ Items(x) \in Seq(F) \ {<< >>} /\ Items(x)[1][2] \in Macro
         /\ Tail(Items(x)) \in Seq(F)
<1>1. IsCons(x) /\ Items(x) = x[2] /\ x[2] \in Seq(F) \ {<< >>}
  BY DEF IsMacroCall, Items, Forms
<1>. QED  BY <1>1 DEF IsMacroCall, NamesMacro

(* The arguments go above the form.                                        *)
LEMMA PushArgumentsStep ==
  ASSUME NEW F, Forms(F), Inv(F), PushArguments, NEW d \in Nat, Depth = d
  PROVE  /\ Inv(F)' /\ status' = "expanding" /\ Len(frames') = d /\ frames'[d].at = "run"
         /\ \A i \in 1 .. d : Slot(i)' = Slot(i)
         /\ \A i \in 1 .. d - 1 : frames'[i] = frames[i]
<1>. DEFINE v == Variance[Called]
            more == SubSeq(Arguments, v + 1, Len(Arguments))
            pushed == IF more = << >> THEN Arguments ELSE Append(SubSeq(Arguments, 1, v), List(more))
            new == [Current EXCEPT !.at = "run", !.n = Len(pushed)]
<1>1. /\ status = "expanding" /\ Current.at = "entry" /\ Current.rec < MaxRec
      /\ IsMacroCall(Form) /\ stack' = stack \o pushed
      /\ frames' = [frames EXCEPT ![Depth].at = "run", ![Depth].n = Len(pushed)]
      /\ status' = status /\ gensyms' = gensyms
  BY DEF PushArguments, Entering, At
<1>2. /\ Base \in Nat /\ d \in Nat \ {0} /\ Current \in Frames
      /\ Form = Slot(d) /\ Form \in F /\ Len(stack) = Base + d
  BY <1>1, Basics, Here
<1>3. Called \in Macro /\ Arguments \in Seq(F) /\ v \in Nat
  BY <1>1, <1>2, CallParts, Basics DEF Called, Arguments
<1>4. pushed \in Seq(F) /\ Len(pushed) \in Nat
  <2>1. CASE more = << >>
    BY <1>3, <2>1
  <2>2. CASE more # << >>
    <3>1. \A i \in 1 .. Len(Arguments) : Arguments[i] \in F
      BY <1>3
    <3>2. v + 1 <= Len(Arguments) /\ Len(Arguments) \in Nat
      BY <1>3, <2>2
    <3>3. more \in Seq(F)
      BY <1>3, <3>1, <3>2
    <3>4. SubSeq(Arguments, 1, v) \in Seq(F)
      BY <1>3, <3>1, <3>2
    <3>5. List(more) \in F
      BY <2>2, <3>3 DEF Forms
    <3>. HIDE DEF more, v
    <3>. QED  BY <2>2, <3>4, <3>5
  <2>. QED  BY <2>1, <2>2
<1>. HIDE DEF pushed
<1>5. new \in Frames /\ new.at = "run" /\ new.n = Len(pushed) /\ new.rec < MaxRec
  BY <1>1, <1>2, <1>4 DEF Frames
<1>6. frames' = [frames EXCEPT ![d] = new]
  BY <1>1 DEF Current
<1>. HIDE DEF new
<1>7. /\ frames' \in Seq(Frames) /\ Len(frames') = d /\ frames'[d] = new
      /\ \A i \in 1 .. d - 1 : frames'[i] = frames[i]
  <2>1. frames \in Seq(Frames) /\ Len(frames) = d /\ d \in 1 .. Len(frames)
    BY <1>2 DEF Inv, Typed, Depth
  <2>. QED  BY <1>2, <1>5, <1>6, <2>1, Change
<1>8. /\ stack' \in Seq(F) /\ Len(stack') = Base + d + Len(pushed)
      /\ \A i \in 1 .. Base + d : stack'[i] = stack[i]
  <2>1. stack \in Seq(F)
    BY DEF Inv, Typed
  <2>. QED  BY <1>1, <1>2, <1>4, <2>1
<1>9. Base' = Base
  BY DEF Base
<1>10. \A i \in 1 .. d : Slot(i)' = Slot(i)
  <2>1. \A i \in 1 .. d : Base + i \in 1 .. Base + d
    BY <1>2
  <2>. QED  BY <1>8, <1>9, <2>1 DEF Slot
<1>11. stack'[Base + d] = Form
  BY <1>2, <1>8 DEF Slot
<1>12. Inv(F)'
  <2>1. gensyms' \in Nat
    BY <1>1 DEF Inv, Typed
  <2>2. /\ d \in 1 .. Depth + 1 /\ d # Depth + 1
        /\ \A i \in 1 .. Base + d - 1 : stack'[i] = stack[i]
    BY <1>2, <1>8
  <2>3. /\ Len(stack') >= Base + d
        /\ Len(stack') = Base + d + IF frames'[d].at = "run" THEN frames'[d].n ELSE 0
    <3>1. frames'[d].at = "run" /\ frames'[d].n = Len(pushed)
      BY <1>5, <1>7
    <3>. QED  BY <1>2, <1>4, <1>8, <3>1
  <2>. QED  BY <1>1, <1>5, <1>7, <1>8, <1>11, <2>1, <2>2, <2>3, Outer
<1>. QED  BY <1>1, <1>5, <1>7, <1>10, <1>12

(* What the code of a macro leaves goes into the place of its call.        *)
LEMMA RunMacroStep ==
  ASSUME NEW F, Forms(F), Inv(F), RunMacro, NEW d \in Nat, Depth = d
  PROVE  /\ Inv(F)' /\ status' = "expanding" /\ Len(frames') = d
         /\ frames'[d] = Frame(Current.rec + 1)
         /\ \E m \in Macro, g \in Nat : \E p \in [1 .. Parameters(m) -> F] :
              Slot(d)' = Expansion(m, p, g) /\ Expansion(m, p, g) \in F
         /\ \A i \in 1 .. d - 1 : Slot(i)' = Slot(i) /\ frames'[i] = frames[i]
<1>. DEFINE k == Parameters(Running)
            p == Parameter(k)
            x == Expansion(Running, p, gensyms)
            new == Frame(Current.rec + 1)
<1>1. /\ status = "expanding" /\ Current.at = "run" /\ x # Bad
      /\ stack' = Append(SubSeq(stack, 1, Len(stack) - Current.n - 1), x)
      /\ frames' = [frames EXCEPT ![d] = new]
      /\ status' = status /\ gensyms' = gensyms + Gensyms[Running]
  BY DEF RunMacro, At, Results, Replace
<1>2. /\ Base \in Nat /\ d \in Nat \ {0} /\ Current \in Frames /\ MaxRec \in Nat
      /\ Calling = Slot(d) /\ Slot(d) \in F /\ Len(stack) = Base + d + Current.n
  BY <1>1, Basics, Here
<1>3. IsMacroCall(Slot(d)) /\ Current.rec < MaxRec
  BY <1>1, <1>2 DEF Inv, InPlace, Current
<1>4. Running \in Macro /\ gensyms \in Nat /\ Gensyms[Running] \in Nat
      /\ k \in Nat /\ k <= Base + 1
  <2>1. Running \in Macro
    BY <1>2, <1>3, CallParts DEF Running
  <2>. QED  BY <2>1, Basics DEF Inv, Typed
<1>5. stack \in Seq(F) /\ Current.n \in Nat
  BY <1>2 DEF Inv, Typed, Frames
<1>6. p \in [1 .. k -> F]
  <2>. HIDE DEF k
  <2>1. \A i \in 1 .. k : Len(stack) - k + i \in 1 .. Len(stack)
    BY <1>2, <1>4, <1>5
  <2>. QED  BY <1>5, <2>1 DEF Parameter
<1>. HIDE DEF p
<1>7. x \in F
  BY <1>1, <1>4, <1>6 DEF Forms
<1>. HIDE DEF x
<1>8. /\ stack' \in Seq(F) /\ Len(stack') = Base + d /\ stack'[Base + d] = x
      /\ \A i \in 1 .. Base + d - 1 : stack'[i] = stack[i]
  <2>1. /\ Base + d - 1 \in 0 .. Len(stack) /\ (Base + d - 1) + 1 = Base + d
        /\ Len(stack) - Current.n - 1 = Base + d - 1
    BY <1>2, <1>5
  <2>2. stack' = Append(SubSeq(stack, 1, Base + d - 1), x)
    BY <1>1, <2>1
  <2>. QED  BY <1>5, <1>7, <2>1, <2>2, CutAppend
<1>9. new \in Frames /\ new.at = "entry"
  BY <1>2, <1>3 DEF Frame, Frames
<1>. HIDE DEF new
<1>10. /\ frames' \in Seq(Frames) /\ Len(frames') = d /\ frames'[d] = new
       /\ \A i \in 1 .. d - 1 : frames'[i] = frames[i]
  <2>1. frames \in Seq(Frames) /\ Len(frames) = d /\ d \in 1 .. Len(frames)
    BY <1>2 DEF Inv, Typed, Depth
  <2>. QED  BY <1>1, <1>2, <1>9, <2>1, Change
<1>11. Base' = Base
  BY DEF Base
<1>12. Slot(d)' = x /\ \A i \in 1 .. d - 1 : Slot(i)' = Slot(i)
  <2>1. \A i \in 1 .. d - 1 : Base + i \in 1 .. Base + d - 1
    BY <1>2
  <2>. QED  BY <1>8, <1>11, <2>1 DEF Slot
<1>13. Inv(F)'
  <2>1. gensyms' \in Nat
    BY <1>1, <1>4
  <2>2. d \in 1 .. Depth + 1 /\ d # Depth + 1
    BY <1>2
  <2>3. /\ Len(stack') >= Base + d
        /\ Len(stack') = Base + d + IF frames'[d].at = "run" THEN frames'[d].n ELSE 0
    BY <1>2, <1>8, <1>9, <1>10
  <2>. QED  BY <1>1, <1>8, <1>9, <1>10, <2>1, <2>2, <2>3, Outer
<1>. QED  BY <1>1, <1>4, <1>6, <1>7, <1>10, <1>12, <1>13 DEF x, new

-------------------------------------------------------------------------------
LEMMA NextInv == ASSUME NEW F, Forms(F), Inv(F), [Next]_mvars PROVE Inv(F)'
<1>. DEFINE d == Depth
<1>1. status = "expanding" => d \in Nat /\ d - 1 \in Nat /\ d = (d - 1) + 1
  BY Here
<1>2. CASE TooDeep
  BY <1>2, SignalStep DEF TooDeep
<1>3. CASE Atom
  <2>1. status = "expanding" /\ Current.at # "run" /\ Return
    BY <1>3 DEF Atom, Entering, At
  <2>. QED  BY <1>1, <2>1, ReturnStep
<1>4. CASE StartWalk
  BY <1>4, StartWalkStep
<1>5. CASE WalkElement
  <2>1. status = "expanding"
    BY <1>5 DEF WalkElement, At
  <2>. QED  BY <1>1, <1>5, <2>1, WalkElementStep
<1>6. CASE EndWalk
  <2>1. status = "expanding" /\ Current.at # "run" /\ Return
    BY <1>6 DEF EndWalk, At
  <2>. QED  BY <1>1, <2>1, ReturnStep
<1>7. CASE WrongCount
  BY <1>7, SignalStep DEF WrongCount
<1>8. CASE PushArguments
  <2>1. status = "expanding"
    BY <1>8 DEF PushArguments, Entering, At
  <2>. QED  BY <1>1, <1>8, <2>1, PushArgumentsStep
<1>9. CASE RunMacro
  <2>1. status = "expanding"
    BY <1>9 DEF RunMacro, At
  <2>. QED  BY <1>1, <1>9, <2>1, RunMacroStep
<1>10. CASE MacroFails
  BY <1>10, SignalStep DEF MacroFails
<1>11. CASE UNCHANGED mvars
  BY <1>11 DEF mvars, Inv, Typed, InPlace, Walks, Slot, Base, Depth, Current
<1>. QED
  BY <1>2, <1>3, <1>4, <1>5, <1>6, <1>7, <1>8, <1>9, <1>10, <1>11 DEF Next, Step, Stopped

LEMMA SpecInv == ASSUME NEW F, Forms(F) PROVE Spec => []Inv(F)
<1>1. Init => Inv(F)
  BY InitInv
<1>2. Inv(F) /\ [Next]_mvars => Inv(F)'
  BY NextInv
<1>. QED  BY <1>1, <1>2, PTL DEF Spec

(* The state is of its type: what is not a list is never taken apart       *)
(* unnoticed, and no call of vm_macroexpand_rec is deeper than MaxRec.     *)
THEOREM ExpanderTypeOK == ASSUME NEW F, Forms(F) PROVE Spec => []TypeOK
<1>1. Inv(F) => TypeOK
  <2>. SUFFICES ASSUME Inv(F) PROVE TypeOK
    OBVIOUS
  <2>1. \A i \in DOMAIN stack : stack[i] # Bad
    BY DEF Inv, Typed, Forms
  <2>2. \A i \in DOMAIN frames : frames[i] \in Frames
    BY DEF Inv, Typed
  <2>. QED  BY <2>1, <2>2 DEF TypeOK, Inv, Typed, Frames
<1>. QED  BY <1>1, SpecInv, PTL

(* Whatever the macros leave, each call of vm_macroexpand_rec finds its    *)
(* form, and its caller the expansion, in the same place of the stack.     *)
THEOREM ExpanderBalanced == ASSUME NEW F, Forms(F) PROVE Spec => []Balanced
<1>1. Inv(F) => Balanced
  <2>. SUFFICES ASSUME Inv(F) PROVE Balanced
    OBVIOUS
  <2>1. Base \in Nat /\ stack \in Seq(F) /\ Below \in Seq(F)
    BY Basics DEF Inv, Typed, Forms
  <2>2. Base <= Len(stack) /\ \A i \in 1 .. Base : stack[i] = Below[i]
    BY DEF Inv, Typed
  <2>3. \A i \in 1 .. Base : stack[i] \in F
    BY <2>1, <2>2
  <2>4. SubSeq(stack, 1, Base) = Below
    BY <2>1, <2>2, <2>3 DEF Base
  <2>. QED  BY <2>4 DEF Balanced, Inv, Typed, InPlace, Base
<1>. QED  BY <1>1, SpecInv, PTL

-------------------------------------------------------------------------------
(* What a form is made of.                                                 *)

Within(y) == {Items(y)[i] : i \in DOMAIN Items(y)}

(* The definition of Parts is one: its levels are the ends of the chains   *)
(* that go down from the form.                                             *)
LEMMA PartsAre ==
  ASSUME NEW F, Forms(F), NEW x \in F
  PROVE  Parts(x) = [n \in Nat |-> IF n = 0 THEN {x} ELSE UNION {Within(y) : y \in Parts(x)[n - 1]}]
<1>. DEFINE Chains(n) == {s \in [0 .. n -> F] : s[0] = x /\ \A k \in 0 .. n - 1 : s[k + 1] \in Within(s[k])}
            Reached(n) == {s[n] : s \in Chains(n)}
            g == [n \in Nat |-> Reached(n)]
            Is(f) == f = [n \in Nat |-> IF n = 0 THEN {x} ELSE UNION {Within(y) : y \in f[n - 1]}]
<1>1. \A y \in F : Within(y) \subseteq F
  <2>1. ASSUME NEW y \in F PROVE Items(y) \in Seq(F)
    <3>1. CASE IsCons(y)
      BY <3>1 DEF Items, Forms
    <3>2. CASE ~IsCons(y)
      BY <3>2 DEF Items
    <3>. QED  BY <3>1, <3>2
  <2>. QED  BY <2>1 DEF Within
<1>2. Reached(0) = {x}
  <2>1. ASSUME NEW e \in Reached(0) PROVE e = x
    OBVIOUS
  <2>2. [k \in 0 .. 0 |-> x] \in Chains(0)
    OBVIOUS
  <2>. HIDE DEF Chains
  <2>3. x \in Reached(0)
    BY <2>2
  <2>. QED  BY <2>1, <2>3
<1>3. ASSUME NEW n \in Nat \ {0}
      PROVE  Reached(n) = UNION {Within(y) : y \in Reached(n - 1)}
  <2>1. n - 1 \in Nat /\ n \in 0 .. n /\ n - 1 \in 0 .. n - 1 /\ (n - 1) + 1 = n
    OBVIOUS
  <2>2. ASSUME NEW s \in Chains(n)
        PROVE  s[n - 1] \in Reached(n - 1) /\ s[n] \in Within(s[n - 1])
    <3>. DEFINE t == [k \in 0 .. n - 1 |-> s[k]]
    <3>1. t \in Chains(n - 1) /\ t[n - 1] = s[n - 1]
      BY <2>1
    <3>2. s[(n - 1) + 1] \in Within(s[n - 1])
      BY <2>1
    <3>. HIDE DEF t, Chains
    <3>. QED  BY <2>1, <3>1, <3>2
  <2>3. ASSUME NEW s \in Chains(n - 1), NEW e \in Within(s[n - 1])
        PROVE  e \in Reached(n)
    <3>. DEFINE t == [k \in 0 .. n |-> IF k = n THEN e ELSE s[k]]
    <3>1. e \in F
      BY <1>1, <2>1
    <3>2. t \in [0 .. n -> F] /\ t[0] = x /\ t[n] = e
      BY <2>1, <3>1
    <3>3. ASSUME NEW k \in 0 .. n - 1 PROVE t[k + 1] \in Within(t[k])
      <4>1. t[k] = s[k]
        OBVIOUS
      <4>2. CASE k = n - 1
        BY <2>1, <4>1, <4>2
      <4>3. CASE k # n - 1
        <5>1. k \in 0 .. (n - 1) - 1 /\ k + 1 \in 0 .. n /\ k + 1 # n
          BY <4>3
        <5>2. s[k + 1] \in Within(s[k])
          BY <5>1
        <5>. QED  BY <4>1, <5>1, <5>2
      <4>. QED  BY <4>2, <4>3
    <3>4. t \in Chains(n)
      BY <3>2, <3>3
    <3>. HIDE DEF t, Chains
    <3>. QED  BY <3>2, <3>4
  <2>. HIDE DEF Chains
  <2>. QED  BY <2>2, <2>3
<1>. HIDE DEF Reached
<1>4. Is(g)
  <2>1. ASSUME NEW n \in Nat
        PROVE  g[n] = IF n = 0 THEN {x} ELSE UNION {Within(y) : y \in g[n - 1]}
    <3>1. CASE n = 0
      BY <1>2, <3>1
    <3>2. CASE n # 0
      <4>1. n - 1 \in Nat /\ g[n - 1] = Reached(n - 1) /\ g[n] = Reached(n)
        BY <3>2
      <4>. QED  BY <1>3, <3>2, <4>1
    <3>. QED  BY <3>1, <3>2
  <2>. QED  BY <2>1
<1>. HIDE DEF g
<1>5. Parts(x) = CHOOSE f : Is(f)
  BY DEF Parts, Within
<1>. HIDE DEF Is
<1>6. Is(Parts(x))
  BY <1>4, <1>5
<1>. QED  BY <1>6 DEF Is

(* A set of numbers that is not empty has a least one.                     *)
LEMMA LeastNumber ==
  ASSUME NEW K, K \subseteq Nat, K # {}
  PROVE  \E x \in K : \A y \in K : x <= y
<1>1. PICK R : R = OpToRel(<, Nat)
  OBVIOUS
<1>2. IsWellFoundedOn(R, Nat)
  BY <1>1, NatLessThanWellFounded, Zenon
<1>3. PICK x \in K : \A y \in K : ~ (<<y, x>> \in R)
  BY <1>2, WFMin, Zenon
<1>4. R = {ss \in Nat \X Nat : ss[1] < ss[2]}
  BY <1>1 DEF OpToRel
<1>5. ASSUME NEW y \in K
      PROVE  x <= y
  <2>1. <<y, x>> \in Nat \X Nat
    OBVIOUS
  <2>2. ~(y < x)
    BY <2>1, <1>3, <1>4
  <2>3. x \in Nat /\ y \in Nat
    OBVIOUS
  <2>. QED  BY <2>2, <2>3
<1>. QED  BY <1>5

(* A form with no macro call in it, however deep.                          *)
Clean(F, x) ==
  \E S \in SUBSET F : x \in S /\ \A y \in S : ~IsMacroCall(y) /\ Within(y) \subseteq S

LEMMA CleanParts ==
  ASSUME NEW F, Forms(F), NEW x \in F, Clean(F, x), NEW n \in Nat, NEW y \in Parts(x)[n]
  PROVE  ~IsMacroCall(y)
<1>1. PICK S \in SUBSET F : x \in S /\ \A z \in S : ~IsMacroCall(z) /\ Within(z) \subseteq S
  BY DEF Clean
<1>. DEFINE f == Parts(x)
            Outside == {k \in Nat : ~(f[k] \subseteq S)}
<1>2. f = [k \in Nat |-> IF k = 0 THEN {x} ELSE UNION {Within(z) : z \in f[k - 1]}]
  BY PartsAre
<1>. HIDE DEF f
<1>3. Outside = {}
  <2>. SUFFICES ASSUME Outside # {} PROVE FALSE
    OBVIOUS
  <2>1. PICK k \in Outside : \A j \in Outside : k <= j
    <3>. Outside \subseteq Nat
      OBVIOUS
    <3>. HIDE DEF Outside
    <3>. QED  BY LeastNumber
  <2>2. k # 0
    BY <1>1, <1>2
  <2>3. k - 1 \in Nat /\ k - 1 \notin Outside
    BY <2>1, <2>2
  <2>4. f[k] = UNION {Within(z) : z \in f[k - 1]}
    BY <1>2, <2>2
  <2>5. f[k - 1] \subseteq S
    BY <2>3
  <2>. QED  BY <1>1, <2>4, <2>5
<1>4. y \in S
  BY <1>3 DEF f
<1>. QED  BY <1>1, <1>4

(* A list of such forms is one, unless its first element makes it a call.  *)
LEMMA CleanList ==
  ASSUME NEW F, NEW x \in F, ~IsMacroCall(x),
         \A i \in DOMAIN Items(x) : Clean(F, Items(x)[i])
  PROVE  Clean(F, x)
<1>. DEFINE D == {y \in F : Clean(F, y)}
            S == D \cup {x}
<1>1. ASSUME NEW y \in D PROVE ~IsMacroCall(y) /\ Within(y) \subseteq D
  <2>1. PICK R \in SUBSET F : y \in R /\ \A z \in R : ~IsMacroCall(z) /\ Within(z) \subseteq R
    BY DEF Clean
  <2>2. \A z \in R : z \in D
    BY <2>1 DEF Clean
  <2>. QED  BY <2>1, <2>2
<1>2. \A i \in DOMAIN Items(x) : Items(x)[i] \in D
  BY DEF Clean
<1>3. Within(x) \subseteq D
  BY <1>2 DEF Within
<1>4. S \in SUBSET F /\ x \in S
  OBVIOUS
<1>5. \A y \in S : ~IsMacroCall(y) /\ Within(y) \subseteq S
  BY <1>1, <1>3
<1>. HIDE DEF S
<1>. QED  BY <1>4, <1>5 DEF Clean

(* While it expands: a list that is walked over is no call, what was       *)
(* walked over is clean, and what stands in the first place of a list does *)
(* not become the name of a macro.                                         *)
Expanded(F) ==
  /\ status = "expanding" =>
       /\ \A i \in 1 .. Depth : frames[i].at = "walk" =>
            /\ ~IsMacroCall(Slot(i))
            /\ \A j \in DOMAIN Items(Slot(i)) : j < frames[i].n => Clean(F, Items(Slot(i))[j])
       /\ \A i \in 1 .. Depth - 1 : frames[i].n = 1 => ~NamesMacro(Slot(i + 1))
  /\ status = "done" => Clean(F, Form)

(* No macro leaves the name of a macro alone: (defmacro namer () 'or)      *)
(* makes ((namer) x) the call (or x), which nothing expands any more.      *)
NamesNone(F) ==
  \A m \in Macro : \A p \in [1 .. Parameters(m) -> F], g \in Nat : ~NamesMacro(Expansion(m, p, g))

(* What is returned is clean.                                              *)
LEMMA ReturnsClean ==
  ASSUME NEW F, Forms(F), Inv(F), Expanded(F), Atom \/ EndWalk
  PROVE  Clean(F, Form)
<1>1. status = "expanding" /\ Current.at # "run"
  BY DEF Atom, EndWalk, Entering, At
<1>2. Depth \in Nat \ {0} /\ Form = Slot(Depth) /\ Form \in F /\ Current \in Frames
  BY <1>1, Here
<1>3. CASE Atom
  <2>1. Items(Form) = << >> /\ ~IsMacroCall(Form)
    BY <1>3 DEF Atom, Items, IsMacroCall
  <2>. QED  BY <1>2, <2>1, CleanList
<1>4. CASE EndWalk
  <2>1. frames[Depth].at = "walk" /\ frames[Depth].n > Len(Items(Form)) /\ frames[Depth].n \in Nat
    BY <1>2, <1>4 DEF EndWalk, At, Current, Frames
  <2>2. /\ ~IsMacroCall(Form)
        /\ \A j \in DOMAIN Items(Form) : j < frames[Depth].n => Clean(F, Items(Form)[j])
    BY <1>1, <1>2, <2>1 DEF Expanded
  <2>3. Walks(Depth)
    BY <1>1, <1>2, <2>1 DEF Inv, InPlace
  <2>4. Items(Form) \in Seq(F)
    BY <1>2, <2>3 DEF Walks, Items, Forms
  <2>5. \A j \in DOMAIN Items(Form) : j < frames[Depth].n
    BY <2>1, <2>4
  <2>. QED  BY <1>2, <2>2, <2>5, CleanList
<1>. QED  BY <1>3, <1>4

(* Returning from the outermost call ends, from any other one fills in the *)
(* element it was made of.                                                 *)
LEMMA ReturnExpanded ==
  ASSUME NEW F, Forms(F), Inv(F), Expanded(F), Atom \/ EndWalk
  PROVE  Expanded(F)'
<1>1. status = "expanding" /\ Current.at # "run" /\ Return
  BY DEF Atom, EndWalk, Entering, At
<1>2. Clean(F, Form)
  BY ReturnsClean
<1>3. Depth \in Nat \ {0} /\ Form = Slot(Depth)
  BY <1>1, Here
<1>4. PICK d \in Nat : Depth = d + 1
  <2>1. Depth - 1 \in Nat /\ Depth = (Depth - 1) + 1
    BY <1>3
  <2>. QED  BY <2>1
<1>5. CASE d = 0
  <2>1. status' = "done" /\ stack' = stack
    BY <1>1, <1>4, <1>5, ReturnStep
  <2>. QED  BY <1>2, <2>1 DEF Expanded, Form, Clean
<1>6. CASE d > 0
  <2>. DEFINE n == frames[d].n
              items == Items(Slot(d))
              new == [items EXCEPT ![n] = Slot(d + 1)]
  <2>1. /\ status' = "expanding" /\ Len(frames') = d
        /\ frames[d].at = "walk" /\ n \in 1 .. Len(items) /\ IsCons(Slot(d))
        /\ Slot(d)' = List(new) /\ frames'[d] = [frames[d] EXCEPT !.n = n + 1]
        /\ \A i \in 1 .. d - 1 : Slot(i)' = Slot(i) /\ frames'[i] = frames[i]
    BY <1>1, <1>4, <1>6, ReturnStep
  <2>2. d \in 1 .. Depth - 1 /\ d \in 1 .. Depth /\ \A i \in 1 .. d - 1 : i \in 1 .. Depth - 1 /\ i \in 1 .. Depth
    BY <1>4, <1>6
  <2>3. Slot(d) \in F /\ frames[d] \in Frames /\ Slot(d + 1) \in F
    BY <1>1, <1>3, <1>4, <2>2, Here
  <2>4. items \in Seq(F) /\ Slot(d)[2] = items
    BY <2>1, <2>3 DEF Items, Forms
  <2>5. new \in Seq(F) /\ Len(new) = Len(items) /\ new[n] = Slot(d + 1)
        /\ \A i \in 1 .. Len(items) : i # n => new[i] = items[i]
    BY <2>1, <2>3, <2>4, Change
  <2>. HIDE DEF new
  <2>7. ~NamesMacro(new[1])
    <3>1. ~IsMacroCall(Slot(d)) => ~NamesMacro(items[1])
      BY <2>1, <2>4 DEF IsMacroCall
    <3>2. CASE n = 1
      BY <1>1, <2>1, <2>2, <2>5, <3>2 DEF Expanded
    <3>3. CASE n # 1
      <4>1. ~IsMacroCall(Slot(d))
        BY <1>1, <2>1, <2>2 DEF Expanded
      <4>2. new[1] = items[1]
        BY <2>1, <2>4, <2>5, <3>3
      <4>. QED  BY <3>1, <4>1, <4>2
    <3>. QED  BY <3>2, <3>3
  <2>8. ~IsMacroCall(List(new)) /\ Items(List(new)) = new
    BY <2>7 DEF IsMacroCall, List, Items, IsCons
  <2>9. ASSUME NEW j \in DOMAIN new, j < n + 1 PROVE Clean(F, new[j])
    <3>1. \A k \in DOMAIN items : k < n => Clean(F, items[k])
      BY <1>1, <2>1, <2>2 DEF Expanded
    <3>2. j \in 1 .. Len(items) /\ DOMAIN items = 1 .. Len(items) /\ n \in Nat
      BY <2>1, <2>4, <2>5
    <3>3. CASE j = n
      BY <1>2, <1>3, <1>4, <2>5, <3>3
    <3>4. CASE j # n
      BY <2>5, <2>9, <3>1, <3>2, <3>4
    <3>. QED  BY <3>3, <3>4
  <2>10. frames'[d].n = n + 1 /\ frames'[d].at = "walk"
    BY <2>1, <2>3 DEF Frames
  <2>11. ASSUME NEW i \in 1 .. d, frames'[i].at = "walk"
         PROVE  /\ ~IsMacroCall(Slot(i)')
                /\ \A j \in DOMAIN Items(Slot(i)') : j < frames'[i].n => Clean(F, Items(Slot(i)')[j])
    <3>1. CASE i = d
      BY <2>1, <2>8, <2>9, <2>10, <3>1
    <3>2. CASE i # d
      <4>1. i \in 1 .. d - 1
        BY <3>2
      <4>. QED  BY <1>1, <2>1, <2>2, <2>11, <4>1 DEF Expanded
    <3>. QED  BY <3>1, <3>2
  <2>12. ASSUME NEW i \in 1 .. d - 1, frames'[i].n = 1
         PROVE  ~NamesMacro(Slot(i + 1)')
    <3>1. CASE i + 1 = d
      BY <2>1, <3>1 DEF NamesMacro, List
    <3>2. CASE i + 1 # d
      <4>1. i + 1 \in 1 .. d - 1
        BY <3>2
      <4>. QED  BY <1>1, <2>1, <2>2, <2>12, <4>1 DEF Expanded
    <3>. QED  BY <3>1, <3>2
  <2>13. (1 .. Depth)' = 1 .. d /\ (1 .. Depth - 1)' = 1 .. d - 1
    BY <2>1 DEF Depth
  <2>. QED  BY <2>1, <2>11, <2>12, <2>13 DEF Expanded, IsMacroCall, NamesMacro, Items, IsCons, Clean
<1>. QED  BY <1>4, <1>5, <1>6

(* What an action has to show that changes the last frame alone.           *)
LEMMA OuterExpanded ==
  ASSUME NEW F, Forms(F), Inv(F), Expanded(F), status = "expanding", status' = "expanding",
         NEW d \in 1 .. Depth + 1, Len(frames') = d,
         \A i \in 1 .. d - 1 : Slot(i)' = Slot(i) /\ frames'[i] = frames[i],
         frames'[d].at = "walk" =>
           /\ ~IsMacroCall(Slot(d)')
           /\ \A j \in DOMAIN Items(Slot(d)') : j < frames'[d].n => Clean(F, Items(Slot(d)')[j]),
         d > 1 /\ frames[d - 1].n = 1 => ~NamesMacro(Slot(d)')
  PROVE  Expanded(F)'
<1>1. Depth \in Nat \ {0}
  BY Here
<1>2. (1 .. Depth)' = 1 .. d /\ (1 .. Depth - 1)' = 1 .. d - 1
  BY DEF Depth
<1>3. ASSUME NEW i \in 1 .. d, frames'[i].at = "walk"
      PROVE  /\ ~IsMacroCall(Slot(i)')
             /\ \A j \in DOMAIN Items(Slot(i)') : j < frames'[i].n => Clean(F, Items(Slot(i)')[j])
  <2>1. CASE i = d
    BY <1>3, <2>1
  <2>2. CASE i # d
    <3>1. i \in 1 .. d - 1 /\ i \in 1 .. Depth
      BY <1>1, <2>2
    <3>. QED  BY <1>3, <3>1 DEF Expanded
  <2>. QED  BY <2>1, <2>2
<1>4. ASSUME NEW i \in 1 .. d - 1, frames'[i].n = 1
      PROVE  ~NamesMacro(Slot(i + 1)')
  <2>1. CASE i + 1 = d
    <3>1. d > 1 /\ i = d - 1 /\ frames'[i] = frames[i]
      BY <2>1
    <3>2. frames[d - 1].n = 1
      BY <1>4, <3>1
    <3>. QED  BY <2>1, <3>1, <3>2
  <2>2. CASE i + 1 # d
    <3>1. i + 1 \in 1 .. d - 1 /\ i \in 1 .. Depth - 1 /\ frames'[i] = frames[i]
      BY <1>1, <2>2
    <3>2. Slot(i + 1)' = Slot(i + 1) /\ frames[i].n = 1
      BY <1>4, <3>1
    <3>3. ~NamesMacro(Slot(i + 1))
      BY <3>1, <3>2 DEF Expanded
    <3>. QED  BY <3>2, <3>3
  <2>. QED  BY <2>1, <2>2
<1>. QED  BY <1>2, <1>3, <1>4 DEF Expanded, IsMacroCall, NamesMacro, Items, IsCons, Clean

LEMMA NextExpanded ==
  ASSUME NEW F, Forms(F), NamesNone(F), Inv(F), Expanded(F), [Next]_mvars
  PROVE  Expanded(F)'
<1>1. status = "expanding" =>
        /\ Depth \in Nat \ {0} /\ Current \in Frames /\ Base \in Nat
        /\ \E d \in Nat \ {0} : d = Depth
  BY Here, Basics
<1>2. ASSUME NEW e, Signal(e), e \in {"SIG-ERROR", "TYPE-ERROR"} PROVE Expanded(F)'
  BY <1>2 DEF Signal, Expanded
<1>3. CASE TooDeep \/ WrongCount \/ MacroFails
  BY <1>2, <1>3 DEF TooDeep, WrongCount, MacroFails
<1>4. CASE Atom \/ EndWalk
  BY <1>4, ReturnExpanded
<1>5. CASE StartWalk
  <2>1. status = "expanding" /\ IsCons(Form) /\ ~IsMacroCall(Form) /\ Current.at = "entry"
    BY <1>5 DEF StartWalk, Entering, At
  <2>2. PICK d \in Nat \ {0} : d = Depth
    BY <1>1, <2>1
  <2>3. /\ stack' = stack /\ status' = "expanding" /\ Len(frames') = d
        /\ frames'[d] = [Current EXCEPT !.at = "walk", !.n = 1]
        /\ \A i \in 1 .. d - 1 : frames'[i] = frames[i]
    BY <1>5, <2>2, StartWalkStep
  <2>4. frames'[d].n = 1
    BY <1>1, <2>1, <2>3 DEF Frames
  <2>5. Base' = Base
    BY DEF Base
  <2>6. \A i \in 1 .. d : Slot(i)' = Slot(i)
    BY <2>3, <2>5 DEF Slot
  <2>7. Form = Slot(d) /\ Slot(d) \in F
    BY <2>1, <2>2, Here
  <2>8. ~ \E j \in DOMAIN Items(Slot(d)) : j < 1
    <3>1. Items(Slot(d)) \in Seq(F)
      BY <2>1, <2>7 DEF Items, Forms
    <3>. QED  BY <3>1
  <2>9. d > 1 /\ frames[d - 1].n = 1 => ~NamesMacro(Slot(d))
    <3>. SUFFICES ASSUME d > 1, frames[d - 1].n = 1 PROVE ~NamesMacro(Slot(d))
      OBVIOUS
    <3>1. d - 1 \in 1 .. Depth - 1 /\ (d - 1) + 1 = d
      BY <2>2
    <3>. QED  BY <2>1, <3>1 DEF Expanded
  <2>10. d \in 1 .. Depth + 1 /\ d \in 1 .. d
    BY <2>2
  <2>11. /\ ~IsMacroCall(Slot(d)')
         /\ \A j \in DOMAIN Items(Slot(d)') : j < frames'[d].n => Clean(F, Items(Slot(d)')[j])
         /\ d > 1 /\ frames[d - 1].n = 1 => ~NamesMacro(Slot(d)')
    <3>1. Slot(d)' = Slot(d)
      BY <2>6, <2>10
    <3>. QED  BY <2>1, <2>4, <2>7, <2>8, <2>9, <3>1
  <2>12. \A i \in 1 .. d - 1 : i \in 1 .. d
    BY <2>2
  <2>. QED  BY <2>1, <2>3, <2>6, <2>10, <2>11, <2>12, OuterExpanded
<1>6. CASE WalkElement
  <2>1. status = "expanding" /\ Current.at = "walk"
    BY <1>6 DEF WalkElement, At
  <2>2. PICK d \in Nat \ {0} : d = Depth
    BY <1>1, <2>1
  <2>3. /\ status' = "expanding" /\ Len(frames') = d + 1
        /\ Slot(d + 1)' = Items(Slot(d))[Current.n] /\ Current.n \in DOMAIN Items(Slot(d))
        /\ frames'[d + 1] = Frame(Current.rec + 1)
        /\ \A i \in 1 .. d : Slot(i)' = Slot(i) /\ frames'[i] = frames[i]
    BY <1>6, <2>2, WalkElementStep
  <2>4. PICK e \in Nat : e = d + 1 /\ e \in 1 .. Depth + 1 /\ e - 1 = d
    BY <2>2
  <2>5. frames'[e].at # "walk"
    BY <2>3, <2>4 DEF Frame
  <2>6. frames[d].n = 1 => ~NamesMacro(Items(Slot(d))[1])
    <3>1. d \in 1 .. Depth /\ frames[d] = Current
      BY <2>2 DEF Current
    <3>2. ~IsMacroCall(Slot(d)) /\ Walks(d)
      BY <2>1, <3>1 DEF Expanded, Inv, InPlace
    <3>. QED  BY <3>2 DEF IsMacroCall, Walks, Items
  <2>7. frames[e - 1].n = 1 => ~NamesMacro(Slot(e)')
    BY <2>2, <2>3, <2>4, <2>6 DEF Current
  <2>8. Len(frames') = e /\ \A i \in 1 .. e - 1 : Slot(i)' = Slot(i) /\ frames'[i] = frames[i]
    BY <2>3, <2>4
  <2>. QED  BY <2>1, <2>3, <2>4, <2>5, <2>7, <2>8, OuterExpanded
<1>7. CASE PushArguments
  <2>1. status = "expanding"
    BY <1>7 DEF PushArguments, Entering, At
  <2>2. PICK d \in Nat \ {0} : d = Depth
    BY <1>1, <2>1
  <2>3. /\ status' = "expanding" /\ Len(frames') = d /\ frames'[d].at = "run"
        /\ \A i \in 1 .. d : Slot(i)' = Slot(i)
        /\ \A i \in 1 .. d - 1 : frames'[i] = frames[i]
    BY <1>7, <2>2, PushArgumentsStep
  <2>4. d > 1 /\ frames[d - 1].n = 1 => ~NamesMacro(Slot(d)')
    <3>. SUFFICES ASSUME d > 1, frames[d - 1].n = 1 PROVE ~NamesMacro(Slot(d)')
      OBVIOUS
    <3>1. d - 1 \in 1 .. Depth - 1 /\ (d - 1) + 1 = d /\ d \in 1 .. d
      BY <2>2
    <3>. QED  BY <2>1, <2>3, <3>1 DEF Expanded
  <2>5. d \in 1 .. Depth + 1 /\ \A i \in 1 .. d - 1 : i \in 1 .. d
    BY <2>2
  <2>. QED  BY <2>1, <2>3, <2>4, <2>5, OuterExpanded
<1>8. CASE RunMacro
  <2>1. status = "expanding"
    BY <1>8 DEF RunMacro, At
  <2>2. PICK d \in Nat \ {0} : d = Depth
    BY <1>1, <2>1
  <2>3. /\ status' = "expanding" /\ Len(frames') = d
        /\ frames'[d] = Frame(Current.rec + 1)
        /\ \E m \in Macro, g \in Nat : \E p \in [1 .. Parameters(m) -> F] :
             Slot(d)' = Expansion(m, p, g) /\ Expansion(m, p, g) \in F
        /\ \A i \in 1 .. d - 1 : Slot(i)' = Slot(i) /\ frames'[i] = frames[i]
    BY <1>8, <2>2, RunMacroStep
  <2>4. ~NamesMacro(Slot(d)')
    BY <2>3 DEF NamesNone
  <2>5. frames'[d].at # "walk"
    BY <2>3 DEF Frame
  <2>6. d \in 1 .. Depth + 1
    BY <2>2
  <2>. QED  BY <2>1, <2>3, <2>4, <2>5, <2>6, OuterExpanded
<1>9. CASE UNCHANGED mvars
  BY <1>9 DEF mvars, Expanded, Slot, Base, Depth, Form, IsMacroCall, NamesMacro, Items, IsCons, Clean
<1>. QED
  BY <1>3, <1>4, <1>5, <1>6, <1>7, <1>8, <1>9 DEF Next, Step, Stopped

(* If no macro leaves the bare name of a macro, the form has no macro call *)
(* left in it when vm_macroexpand_rec returns, however deep: not in what   *)
(* macros leave, nor in their arguments, nor in lists that are no calls.   *)
THEOREM ExpanderFullyExpanded ==
  ASSUME NEW F, Forms(F), NamesNone(F) PROVE Spec => []FullyExpanded
<1>1. Init => Expanded(F)
  <2>. SUFFICES ASSUME Init PROVE Expanded(F)
    OBVIOUS
  <2>1. Len(frames) = 1 /\ frames[1].at = "entry" /\ status = "expanding"
    BY DEF Init, Frame
  <2>. QED  BY <2>1 DEF Expanded, Depth
<1>2. Inv(F) /\ Expanded(F) /\ [Next]_mvars => Expanded(F)'
  BY NextExpanded
<1>3. Inv(F) /\ Expanded(F) => FullyExpanded
  <2>. SUFFICES ASSUME Inv(F), Expanded(F), status = "done" PROVE FullyExpanded
    BY DEF FullyExpanded
  <2>1. Form \in F
    <3>1. stack \in Seq(F) /\ Len(stack) = Base + 1 /\ Base \in Nat
      BY Basics DEF Inv, Typed
    <3>. QED  BY <3>1 DEF Form
  <2>2. Clean(F, Form)
    BY DEF Expanded
  <2>3. \A n \in 0 .. MaxRec : n \in Nat
    BY Basics
  <2>. QED  BY <2>1, <2>2, <2>3, CleanParts DEF FullyExpanded
<1>4. Spec => []Inv(F)
  BY SpecInv
<1>. QED  BY <1>1, <1>2, <1>3, <1>4, PTL DEF Spec

===============================================================================
