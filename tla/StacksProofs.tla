----------------------------- MODULE StacksProofs ------------------------------
(***************************************************************************)
(* The discipline of the four stacks is enough: however deep calls and     *)
(* catch forms nest, and wherever an error strikes, what a caller or a     *)
(* catch form waits for is still on the stacks, and nothing is left of a   *)
(* form when the prompt is back.                                           *)
(***************************************************************************)
EXTENDS Stacks, TLAPS, SequenceTheorems

Inv == TypeOK /\ Nested

(* Cutting a sequence keeps its first elements.                            *)
LEMMA CutProp ==
  ASSUME NEW S, NEW s \in Seq(S), NEW n \in 0 .. Len(s)
  PROVE  /\ Cut(s, n) \in Seq(S) /\ Len(Cut(s, n)) = n
         /\ DOMAIN Cut(s, n) = 1 .. n
         /\ \A i \in 1 .. n : Cut(s, n)[i] = s[i]
         /\ n = 0 <=> Cut(s, n) = << >>
<1>1. \A i \in 1 .. n : s[i] \in S
  OBVIOUS
<1>2. Cut(s, n) \in Seq(S) /\ Len(Cut(s, n)) = n /\ \A i \in 1 .. n : Cut(s, n)[i] = s[i]
  BY <1>1 DEF Cut
<1>. QED  BY <1>2, EmptySeq

(* Appending leaves the elements that were there where they are.           *)
LEMMA AppendProp ==
  ASSUME NEW S, NEW s \in Seq(S), NEW x \in S
  PROVE  /\ Append(s, x) \in Seq(S) /\ Len(Append(s, x)) = Len(s) + 1
         /\ DOMAIN Append(s, x) = 1 .. Len(s) + 1
         /\ \A i \in 1 .. Len(s) : Append(s, x)[i] = s[i]
         /\ Append(s, x)[Len(s) + 1] = x
         /\ Append(s, x) # << >>
OBVIOUS

(* The types of calls and handlers, read off their elements.               *)
Shape ==
  /\ calls \in Seq(Calls) /\ Len(calls) \in Nat /\ DOMAIN calls = 1 .. Len(calls)
  /\ handlers \in Seq(Handlers) /\ Len(handlers) \in Nat /\ DOMAIN handlers = 1 .. Len(handlers)
  /\ calls = << >> <=> Len(calls) = 0
  /\ handlers = << >> <=> Len(handlers) = 0
  /\ \A j \in 1 .. Len(calls) :
       calls[j].base \in Nat /\ calls[j].back \in Nat /\ calls[j].own \in Nat /\ calls[j].outer \in Nat
  /\ \A i \in 1 .. Len(handlers) :
       handlers[i].off \in Nat /\ handlers[i].scopes \in Nat /\ handlers[i].depth \in Nat \ {0}
  /\ height \in Nat /\ scopes \in Nat

(* Well-typed stacks have well-typed elements.                             *)
LEMMA Elements == TypeOK => Shape
<1>. SUFFICES ASSUME TypeOK PROVE Shape
  OBVIOUS
<1>1. \A j \in 1 .. Len(calls) : calls[j] \in Calls
  BY DEF TypeOK
<1>2. \A i \in 1 .. Len(handlers) : handlers[i] \in Handlers
  BY DEF TypeOK
<1>3. \A j \in 1 .. Len(calls) : /\ calls[j].base \in Nat /\ calls[j].back \in Nat
                                 /\ calls[j].own \in Nat /\ calls[j].outer \in Nat
  BY <1>1 DEF Calls
<1>4. \A i \in 1 .. Len(handlers) : /\ handlers[i].off \in Nat /\ handlers[i].scopes \in Nat
                                    /\ handlers[i].depth \in Nat \ {0}
  BY <1>2 DEF Handlers
<1>5. calls = << >> <=> Len(calls) = 0
  BY EmptySeq DEF TypeOK
<1>6. handlers = << >> <=> Len(handlers) = 0
  BY EmptySeq DEF TypeOK
<1>. QED  BY <1>3, <1>4, <1>5, <1>6 DEF TypeOK, Shape

(* The floors: everything a call or a catch form waits for is below them.  *)
LEMMA Floors ==
  ASSUME Inv
  PROVE  /\ Floor \in Nat /\ Floor <= height
         /\ ScopeFloor \in Nat /\ ScopeFloor <= scopes
         /\ \A j \in DOMAIN calls : calls[j].base <= Floor /\ calls[j].own <= ScopeFloor
         /\ \A i \in DOMAIN handlers :
              handlers[i].off <= Floor /\ handlers[i].scopes <= ScopeFloor
         /\ handlers # << >> => Handler.depth <= Len(calls)
         /\ ~Catching => \A i \in DOMAIN handlers : handlers[i].depth < Len(calls)
<1>. USE DEF Inv, Nested, TypeOK
<1>1. Shape
  BY Elements DEF Inv
<1>2. ASSUME handlers # << >>
      PROVE  /\ Handler \in Handlers /\ Handler.depth \in 1 .. Len(calls)
             /\ Handler.off <= height /\ Handler.scopes <= scopes
             /\ \A i \in DOMAIN handlers : /\ handlers[i].off <= Handler.off
                                           /\ handlers[i].scopes <= Handler.scopes
                                           /\ handlers[i].depth <= Handler.depth
  BY <1>1, <1>2 DEF Handler, HandlersLive, HandlersNest, Shape
<1>3. ASSUME calls # << >>
      PROVE  /\ Here = calls[Len(calls)] /\ Here \in Calls
             /\ Here.base <= height /\ Here.own <= scopes
             /\ \A j \in DOMAIN calls : calls[j].base <= Here.base /\ calls[j].own <= Here.own
             /\ \A j \in DOMAIN calls : j < Len(calls) => /\ calls[j].base <= Here.back
                                                        /\ calls[j].own <= Here.outer
             /\ Here.back <= Here.base /\ Here.outer <= Here.own
  <2>. DEFINE n == Len(calls)
  <2>1. n \in DOMAIN calls /\ Here = calls[n] /\ Here \in Calls
    BY <1>1, <1>3 DEF Here, Shape
  <2>2. /\ Here.base <= height /\ Here.own <= scopes
        /\ Here.back <= Here.base /\ Here.outer <= Here.own
    BY <2>1 DEF CallsNest
  <2>3. \A j \in DOMAIN calls :
          j < n => calls[j].base <= Here.back /\ calls[j].own <= Here.outer
    BY <2>1 DEF CallsNest
  <2>4. ASSUME NEW j \in DOMAIN calls
        PROVE  calls[j].base <= Here.base /\ calls[j].own <= Here.own
    <3>1. CASE j = n  BY <1>1, <2>1, <3>1 DEF Shape
    <3>2. CASE j < n
      <4>1. calls[j] \in Calls  BY <1>1 DEF Shape
      <4>. QED  BY <1>1, <2>1, <2>2, <2>3, <3>2, <4>1 DEF Shape
    <3>. QED  BY <1>1, <3>1, <3>2 DEF Shape
  <2>. QED  BY <2>1, <2>2, <2>3, <2>4
<1>4. CASE Catching
  <2>1. /\ calls # << >> /\ Here.base <= Handler.off /\ Here.own <= Handler.scopes
    BY <1>1, <1>2, <1>3, <1>4 DEF Catching, HandlersLive, Handler, Shape
  <2>2. Floor = Handler.off /\ ScopeFloor = Handler.scopes /\ Handler \in Handlers
    BY <1>2, <1>4 DEF Catching, Floor, ScopeFloor
  <2>3. \A j \in DOMAIN calls : /\ calls[j].base <= Handler.off
                                /\ calls[j].own <= Handler.scopes
    <3>. SUFFICES ASSUME NEW j \in DOMAIN calls
                  PROVE  calls[j].base <= Handler.off /\ calls[j].own <= Handler.scopes
      OBVIOUS
    <3>1. calls[j].base <= Here.base /\ calls[j].own <= Here.own
      BY <1>3, <2>1
    <3>2. /\ calls[j].base \in Nat /\ calls[j].own \in Nat
          /\ Here.base \in Nat /\ Here.own \in Nat
      BY <1>1, <1>3, <2>1 DEF Shape, Calls
    <3>3. Handler.off \in Nat /\ Handler.scopes \in Nat
      BY <2>2 DEF Handlers
    <3>. QED  BY <2>1, <3>1, <3>2, <3>3
  <2>4. Handler.off \in Nat /\ Handler.scopes \in Nat /\ Handler.depth \in Nat
    BY <2>2 DEF Handlers
  <2>5. handlers # << >>
    BY <1>4 DEF Catching
  <2>. QED  BY <1>2, <1>4, <2>2, <2>3, <2>4, <2>5 DEF Catching
<1>5. CASE ~Catching
  <2>1. CASE calls = << >>
    BY <1>1, <1>5, <2>1 DEF Catching, Floor, ScopeFloor, Here, Main, Clean, Shape
  <2>2. CASE calls # << >>
    <3>1. \A i \in DOMAIN handlers : handlers[i].depth < Len(calls)
      BY <1>1, <1>2, <1>5 DEF Catching, Shape
    <3>2. \A i \in DOMAIN handlers : /\ handlers[i].off <= Here.base
                                     /\ handlers[i].scopes <= Here.own
      <4>. SUFFICES ASSUME NEW i \in DOMAIN handlers
                    PROVE  handlers[i].off <= Here.base /\ handlers[i].scopes <= Here.own
        OBVIOUS
      <4>1. handlers[i].off <= Here.back /\ handlers[i].scopes <= Here.outer
        BY <1>1, <1>3, <2>2, <3>1 DEF HandlersLive, Shape
      <4>2. /\ handlers[i].off \in Nat /\ handlers[i].scopes \in Nat
            /\ Here.back \in Nat /\ Here.base \in Nat /\ Here.own \in Nat /\ Here.outer \in Nat
        BY <1>1, <1>3, <2>2 DEF Shape, Calls
      <4>3. Here.back <= Here.base /\ Here.outer <= Here.own
        BY <1>3, <2>2
      <4>. QED  BY <4>1, <4>2, <4>3
    <3>. QED  BY <1>1, <1>2, <1>3, <1>5, <2>2, <3>1, <3>2 DEF Floor, ScopeFloor, Shape
  <2>. QED  BY <2>1, <2>2
<1>. QED  BY <1>4, <1>5

(* The empty stacks nest.                                                  *)
LEMMA InitInv == Init => Inv
BY DEF Init, Inv, TypeOK, Nested, CallsNest, HandlersLive, HandlersNest, Clean

(* Work stays above the floors.                                            *)
LEMMA WorkStep == Inv /\ Work => Inv'
<1>. SUFFICES ASSUME Inv, Work PROVE Inv'
  OBVIOUS
<1>1. /\ height' \in Nat /\ scopes' \in Nat /\ calls' = calls /\ handlers' = handlers
      /\ height' >= Floor /\ scopes' >= ScopeFloor /\ (calls = << >> => scopes' = scopes)
  BY DEF Work
<1>2. /\ Floor \in Nat /\ ScopeFloor \in Nat
      /\ \A j \in DOMAIN calls : calls[j].base <= Floor /\ calls[j].own <= ScopeFloor
      /\ \A i \in DOMAIN handlers : /\ handlers[i].off <= Floor
                                    /\ handlers[i].scopes <= ScopeFloor
  BY Floors
<1>3. Shape
  BY Elements DEF Inv
<1>4. TypeOK'
  BY <1>1 DEF Inv, TypeOK
<1>5. CallsNest'
  <2>1. ASSUME NEW j \in DOMAIN calls PROVE calls[j].base <= height' /\ calls[j].own <= scopes'
    <3>1. calls[j].base \in Nat /\ calls[j].own \in Nat
      BY <1>3 DEF Shape
    <3>. QED  BY <1>1, <1>2, <3>1
  <2>. QED  BY <1>1, <2>1 DEF Inv, Nested, CallsNest
<1>6. HandlersLive'
  <2>1. ASSUME NEW i \in DOMAIN handlers
        PROVE  handlers[i].off <= height' /\ handlers[i].scopes <= scopes'
    <3>1. handlers[i].off \in Nat /\ handlers[i].scopes \in Nat
      BY <1>3 DEF Shape
    <3>. QED  BY <1>1, <1>2, <3>1
  <2>. QED  BY <1>1, <2>1 DEF Inv, Nested, HandlersLive
<1>7. HandlersNest' /\ Clean'
  BY <1>1 DEF Inv, Nested, HandlersNest, Clean
<1>. QED  BY <1>4, <1>5, <1>6, <1>7 DEF Inv, Nested

(* A call is entered above everything that waits.                          *)
LEMMA CallStep == Inv /\ Call => Inv'
<1>. SUFFICES ASSUME Inv, Call PROVE Inv'
  OBVIOUS
<1>1. /\ Floor \in Nat /\ Floor <= height /\ ScopeFloor \in Nat /\ ScopeFloor <= scopes
      /\ \A j \in DOMAIN calls : calls[j].base <= Floor /\ calls[j].own <= ScopeFloor
      /\ \A i \in DOMAIN handlers : /\ handlers[i].off <= Floor
                                    /\ handlers[i].scopes <= ScopeFloor
  BY Floors
<1>2. Shape
  BY Elements DEF Inv
<1>3. PICK base \in Floor .. height, own \in {scopes, scopes + 1} : \E back \in Floor .. base :
         /\ calls' = Append(calls, [base |-> base, back |-> back, own |-> own, outer |-> scopes])
         /\ height' = base /\ scopes' = own /\ UNCHANGED handlers
  BY DEF Call
<1>4. PICK back \in Floor .. base :
         /\ calls' = Append(calls, [base |-> base, back |-> back, own |-> own, outer |-> scopes])
         /\ height' = base /\ scopes' = own /\ handlers' = handlers
  BY <1>3
<1>. DEFINE c == [base |-> base, back |-> back, own |-> own, outer |-> scopes]
<1>5. /\ base \in Nat /\ back \in Nat /\ own \in Nat /\ back <= base /\ base <= height
      /\ Floor <= back /\ scopes <= own /\ c \in Calls
  BY <1>1, <1>2 DEF Shape, Calls
<1>6. /\ calls' \in Seq(Calls) /\ Len(calls') = Len(calls) + 1
      /\ DOMAIN calls' = 1 .. Len(calls) + 1 /\ calls' # << >>
      /\ \A j \in 1 .. Len(calls) : calls'[j] = calls[j]
      /\ calls'[Len(calls) + 1] = c
  BY <1>2, <1>4, <1>5, AppendProp DEF Shape
<1>7. TypeOK'
  BY <1>2, <1>4, <1>5, <1>6 DEF TypeOK, Shape
<1>8. CallsNest'
  <2>1. ASSUME NEW j \in 1 .. Len(calls)
        PROVE  /\ calls[j].base <= back /\ calls[j].own <= scopes
               /\ calls[j].base \in Nat /\ calls[j].own \in Nat
               /\ calls[j].back \in Nat /\ calls[j].outer \in Nat
    <3>1. /\ calls[j].base \in Nat /\ calls[j].own \in Nat
          /\ calls[j].back \in Nat /\ calls[j].outer \in Nat
      BY <1>2 DEF Shape
    <3>2. calls[j].base <= Floor /\ calls[j].own <= ScopeFloor
      BY <1>1, <1>2 DEF Shape
    <3>3. Floor \in Nat /\ ScopeFloor \in Nat /\ Floor <= back /\ ScopeFloor <= scopes
      BY <1>1, <1>5
    <3>4. scopes \in Nat /\ back \in Nat
      BY <1>2, <1>5 DEF Shape
    <3>. QED  BY <3>1, <3>2, <3>3, <3>4
  <2>2. ASSUME NEW j \in 1 .. Len(calls) + 1
        PROVE  /\ calls'[j].back <= calls'[j].base /\ calls'[j].base <= height'
               /\ calls'[j].outer <= calls'[j].own /\ calls'[j].own <= scopes'
    <3>1. CASE j = Len(calls) + 1
      BY <1>2, <1>4, <1>5, <1>6, <3>1 DEF Shape
    <3>2. CASE j \in 1 .. Len(calls)
      <4>1. /\ calls'[j] = calls[j]
            /\ calls[j].back <= calls[j].base /\ calls[j].outer <= calls[j].own
        BY <1>2, <1>6, <3>2 DEF Inv, Nested, CallsNest, Shape
      <4>. QED  BY <1>2, <1>4, <1>5, <2>1, <3>2, <4>1 DEF Shape
    <3>. QED  BY <1>2, <3>1, <3>2 DEF Shape
  <2>3. ASSUME NEW i \in 1 .. Len(calls) + 1, NEW j \in 1 .. Len(calls) + 1, i < j
        PROVE  calls'[i].base <= calls'[j].back /\ calls'[i].own <= calls'[j].outer
    <3>1. i \in 1 .. Len(calls) /\ calls'[i] = calls[i]
      BY <1>2, <1>6, <2>3 DEF Shape
    <3>2. CASE j = Len(calls) + 1
      BY <1>6, <2>1, <3>1, <3>2
    <3>3. CASE j \in 1 .. Len(calls)
      BY <1>2, <1>6, <2>3, <3>1, <3>3 DEF Inv, Nested, CallsNest, Shape
    <3>. QED  BY <1>2, <3>2, <3>3 DEF Shape
  <2>. QED  BY <1>6, <2>2, <2>3 DEF CallsNest
<1>9. HandlersLive'
  <2>1. \A i \in DOMAIN handlers : /\ handlers[i].off <= back /\ handlers[i].off <= base
                                   /\ handlers[i].scopes <= scopes /\ handlers[i].scopes <= own
    BY <1>1, <1>2, <1>5 DEF Shape
  <2>. QED  BY <1>2, <1>4, <1>5, <1>6, <2>1 DEF Inv, Nested, HandlersLive, Shape
<1>10. HandlersNest'
  BY <1>4 DEF Inv, Nested, HandlersNest
<1>11. Clean'
  BY <1>2, <1>5, <1>6 DEF Inv, Nested, Clean, Shape
<1>. QED  BY <1>7, <1>8, <1>9, <1>10, <1>11 DEF Inv, Nested

(* Three steps put back heights that a call or a catch form remembers and  *)
(* cut what is above: calls to the first n, handlers to the first m.       *)
LEMMA CutStep ==
  ASSUME Inv, NEW n \in 0 .. Len(calls), NEW m \in 0 .. Len(handlers),
         calls' = Cut(calls, n), handlers' = Cut(handlers, m),
         height' \in Nat, scopes' \in Nat,
         \A j \in 1 .. n : calls[j].base <= height' /\ calls[j].own <= scopes',
         \A i \in 1 .. m : /\ handlers[i].depth <= n
                           /\ handlers[i].off <= height' /\ handlers[i].scopes <= scopes',
         n = 0 => scopes' = 1
  PROVE  Inv'
<1>1. Shape
  BY Elements DEF Inv
<1>2. /\ calls' \in Seq(Calls) /\ DOMAIN calls' = 1 .. n /\ Len(calls') = n
      /\ \A j \in 1 .. n : calls'[j] = calls[j]
      /\ n = 0 <=> calls' = << >>
  <2>1. calls \in Seq(Calls)
    BY <1>1 DEF Shape
  <2>. QED  BY <2>1, CutProp
<1>3. /\ handlers' \in Seq(Handlers) /\ DOMAIN handlers' = 1 .. m
      /\ \A i \in 1 .. m : handlers'[i] = handlers[i]
      /\ m = 0 <=> handlers' = << >>
  <2>1. handlers \in Seq(Handlers)
    BY <1>1 DEF Shape
  <2>. QED  BY <2>1, CutProp
<1>4. TypeOK'
  BY <1>2, <1>3 DEF TypeOK
<1>5. CallsNest'
  <2>1. \A j \in 1 .. n : j \in DOMAIN calls
    BY <1>1 DEF Shape
  <2>2. ASSUME NEW j \in 1 .. n
        PROVE  /\ calls'[j].back <= calls'[j].base /\ calls'[j].base <= height'
               /\ calls'[j].outer <= calls'[j].own /\ calls'[j].own <= scopes'
    BY <1>2, <2>1 DEF Inv, Nested, CallsNest
  <2>3. ASSUME NEW i \in 1 .. n, NEW j \in 1 .. n, i < j
        PROVE  calls'[i].base <= calls'[j].back /\ calls'[i].own <= calls'[j].outer
    BY <1>2, <2>1, <2>3 DEF Inv, Nested, CallsNest
  <2>. QED  BY <1>2, <2>2, <2>3 DEF CallsNest
<1>6. HandlersLive'
  <2>1. ASSUME NEW i \in 1 .. m PROVE handlers[i].depth \in 1 .. n
    <3>1. i \in 1 .. Len(handlers) /\ handlers[i].depth <= n
      BY <1>1 DEF Shape
    <3>2. handlers[i].depth \in Nat \ {0}
      BY <1>1, <3>1 DEF Shape
    <3>. QED  BY <3>1, <3>2
  <2>2. ASSUME NEW i \in 1 .. m
        PROVE  /\ calls[handlers[i].depth].base <= handlers[i].off
               /\ calls[handlers[i].depth].own <= handlers[i].scopes
    <3>1. i \in DOMAIN handlers
      BY <1>1 DEF Shape
    <3>. QED  BY <3>1 DEF Inv, Nested, HandlersLive
  <2>3. ASSUME NEW i \in 1 .. m
        PROVE  /\ handlers'[i].off <= height' /\ handlers'[i].scopes <= scopes'
               /\ handlers'[i].depth \in DOMAIN calls'
               /\ calls'[handlers'[i].depth].base <= handlers'[i].off
               /\ calls'[handlers'[i].depth].own <= handlers'[i].scopes
               /\ \A j \in DOMAIN calls' : handlers'[i].depth < j =>
                    handlers'[i].off <= calls'[j].back /\ handlers'[i].scopes <= calls'[j].outer
    <3>1. handlers'[i] = handlers[i]
      BY <1>3
    <3>2. calls'[handlers[i].depth] = calls[handlers[i].depth]
      BY <1>2, <2>1
    <3>3. /\ i \in DOMAIN handlers
          /\ \A j \in 1 .. n : j \in DOMAIN calls /\ calls'[j] = calls[j]
      BY <1>1, <1>2 DEF Shape
    <3>4. \A j \in 1 .. n : handlers[i].depth < j =>
            handlers[i].off <= calls'[j].back /\ handlers[i].scopes <= calls'[j].outer
      BY <3>3 DEF Inv, Nested, HandlersLive
    <3>. QED  BY <1>2, <2>1, <2>2, <3>1, <3>2, <3>4
  <2>. QED  BY <1>3, <2>3 DEF HandlersLive
<1>7. HandlersNest'
  <2>1. \A i \in 1 .. m : i \in DOMAIN handlers
    BY <1>1 DEF Shape
  <2>. QED  BY <1>3, <2>1 DEF Inv, Nested, HandlersNest
<1>8. Clean'
  <2>1. n = 0 => m = 0
    <3>. SUFFICES ASSUME n = 0, m # 0 PROVE FALSE
      OBVIOUS
    <3>1. 1 \in 1 .. m /\ handlers[1] \in Handlers
      BY <1>1 DEF Shape
    <3>. QED  BY <1>1, <3>1 DEF Shape
  <2>2. n # 0 => calls'[1] = calls[1] /\ calls # << >>
    BY <1>1, <1>2 DEF Shape
  <2>. QED  BY <1>2, <1>3, <2>1, <2>2 DEF Inv, Nested, Clean
<1>. QED  BY <1>4, <1>5, <1>6, <1>7, <1>8 DEF Inv, Nested

(* A return leaves what its caller waits for.                              *)
LEMMA ReturnStep == Inv /\ Return => Inv'
<1>. SUFFICES ASSUME Inv, Return PROVE Inv'
  OBVIOUS
<1>1. Shape
  BY Elements DEF Inv
<1>. DEFINE n == Len(calls)
            c == calls[n]
<1>2. n > 0 /\ c \in Calls /\ Here = c
  BY <1>1 DEF Return, Here, Shape
<1>3. \A i \in 1 .. Len(handlers) : handlers[i].depth < n
  BY <1>1, Floors DEF Return, Shape
<1>4. /\ height' = c.back + 1 /\ scopes' = c.outer
      /\ calls' = Cut(calls, n - 1) /\ handlers' = handlers
  BY <1>2 DEF Return
<1>5. handlers' = Cut(handlers, Len(handlers))
  BY <1>1, <1>4 DEF Cut, Shape
<1>6. ASSUME NEW j \in 1 .. n - 1 PROVE calls[j].base <= height' /\ calls[j].own <= scopes'
  <2>1. /\ j \in 1 .. Len(calls) /\ n \in 1 .. Len(calls) /\ j < n
        /\ DOMAIN calls = 1 .. Len(calls)
    BY <1>1, <1>2 DEF Shape
  <2>2. calls[j].base <= c.back /\ calls[j].own <= c.outer
    BY <2>1 DEF Inv, Nested, CallsNest
  <2>3. calls[j].base \in Nat /\ calls[j].own \in Nat /\ c.back \in Nat
    BY <1>1, <2>1 DEF Shape
  <2>. QED  BY <1>4, <2>2, <2>3
<1>7. ASSUME NEW i \in 1 .. Len(handlers)
      PROVE  /\ handlers[i].depth <= n - 1
             /\ handlers[i].off <= height' /\ handlers[i].scopes <= scopes'
  <2>1. n \in DOMAIN calls /\ i \in DOMAIN handlers /\ handlers[i].depth < n
    BY <1>1, <1>2, <1>3 DEF Shape
  <2>2. handlers[i].off <= c.back /\ handlers[i].scopes <= c.outer
    BY <2>1 DEF Inv, Nested, HandlersLive
  <2>3. handlers[i].off \in Nat /\ handlers[i].depth \in Nat /\ c.back \in Nat /\ n \in Nat
    BY <1>1, <2>1 DEF Shape
  <2>. QED  BY <1>4, <2>1, <2>2, <2>3
<1>8. n - 1 = 0 => scopes' = 1
  <2>1. n = 1 => c.outer = 1
    BY <1>1, <1>2 DEF Inv, Nested, Clean, Shape
  <2>2. n \in Nat
    BY <1>1 DEF Shape
  <2>. QED  BY <1>4, <2>1, <2>2
<1>9. height' \in Nat /\ scopes' \in Nat /\ n - 1 \in 0 .. n /\ Len(handlers) \in 0 .. Len(handlers)
  BY <1>1, <1>2, <1>4 DEF Shape
<1>. HIDE DEF n, c
<1>. QED  BY <1>4, <1>5, <1>6, <1>7, <1>8, <1>9, CutStep DEF n

(* A catch form remembers what is there, in the innermost chunk.           *)
LEMMA CatchStep == Inv /\ Catch => Inv'
<1>. SUFFICES ASSUME Inv, Catch PROVE Inv'
  OBVIOUS
<1>1. /\ Floor \in Nat /\ Floor <= height /\ ScopeFloor \in Nat /\ ScopeFloor <= scopes
      /\ \A j \in DOMAIN calls : calls[j].base <= Floor /\ calls[j].own <= ScopeFloor
      /\ \A i \in DOMAIN handlers : /\ handlers[i].off <= Floor
                                    /\ handlers[i].scopes <= ScopeFloor
  BY Floors
<1>2. Shape
  BY Elements DEF Inv
<1>3. PICK off \in Floor .. height :
         /\ handlers' = Append(handlers, [off |-> off, scopes |-> scopes, depth |-> Len(calls)])
         /\ height' = off + 1
  BY DEF Catch
<1>. DEFINE h == [off |-> off, scopes |-> scopes, depth |-> Len(calls)]
<1>4. scopes' = scopes /\ calls' = calls /\ off \in Nat /\ Floor <= off /\ h \in Handlers
  <2>1. Len(calls) \in Nat \ {0}
    BY <1>2 DEF Catch, Shape
  <2>. QED  BY <1>1, <1>2, <2>1 DEF Catch, Shape, Handlers
<1>5. /\ handlers' \in Seq(Handlers) /\ DOMAIN handlers' = 1 .. Len(handlers) + 1
      /\ \A i \in 1 .. Len(handlers) : handlers'[i] = handlers[i]
      /\ handlers'[Len(handlers) + 1] = h
  BY <1>2, <1>3, <1>4, AppendProp DEF Shape
<1>6. TypeOK'
  BY <1>2, <1>3, <1>4, <1>5 DEF TypeOK, Shape
<1>7. CallsNest'
  BY <1>1, <1>2, <1>3, <1>4 DEF Inv, Nested, CallsNest, Shape
<1>8. HandlersLive'
  <2>1. ASSUME NEW i \in 1 .. Len(handlers) PROVE handlers[i].off <= height'
    <3>1. handlers[i].off \in Nat /\ handlers[i].off <= Floor
      BY <1>1, <1>2 DEF Shape
    <3>. QED  BY <1>1, <1>3, <1>4, <3>1
  <2>2. /\ Len(calls) \in DOMAIN calls
        /\ calls[Len(calls)].base <= off /\ calls[Len(calls)].own <= scopes
    <3>1. Len(calls) \in DOMAIN calls
      BY <1>2 DEF Catch, Shape
    <3>2. calls[Len(calls)].base \in Nat /\ calls[Len(calls)].own \in Nat
      BY <1>2, <3>1 DEF Shape
    <3>. QED  BY <1>1, <1>2, <1>4, <3>1, <3>2 DEF Shape
  <2>3. ASSUME NEW i \in 1 .. Len(handlers) + 1
        PROVE  /\ handlers'[i].off <= height' /\ handlers'[i].scopes <= scopes'
               /\ handlers'[i].depth \in DOMAIN calls'
               /\ calls'[handlers'[i].depth].base <= handlers'[i].off
               /\ calls'[handlers'[i].depth].own <= handlers'[i].scopes
               /\ \A j \in DOMAIN calls' : handlers'[i].depth < j =>
                    handlers'[i].off <= calls'[j].back /\ handlers'[i].scopes <= calls'[j].outer
    <3>1. CASE i = Len(handlers) + 1
      <4>1. handlers'[i] = h /\ off <= height' /\ scopes <= scopes'
        BY <1>2, <1>3, <1>4, <1>5, <3>1 DEF Shape
      <4>2. \A j \in DOMAIN calls' : ~(Len(calls) < j)
        BY <1>2, <1>4 DEF Shape
      <4>. QED  BY <1>4, <2>2, <4>1, <4>2
    <3>2. CASE i \in 1 .. Len(handlers)
      <4>1. handlers'[i] = handlers[i] /\ i \in DOMAIN handlers
        BY <1>2, <1>5, <3>2 DEF Shape
      <4>2. /\ handlers[i].scopes <= scopes /\ handlers[i].depth \in DOMAIN calls
            /\ calls[handlers[i].depth].base <= handlers[i].off
            /\ calls[handlers[i].depth].own <= handlers[i].scopes
            /\ \A j \in DOMAIN calls : handlers[i].depth < j =>
                 handlers[i].off <= calls[j].back /\ handlers[i].scopes <= calls[j].outer
        BY <4>1 DEF Inv, Nested, HandlersLive
      <4>. QED  BY <1>4, <2>1, <3>2, <4>1, <4>2
    <3>. QED  BY <1>2, <3>1, <3>2 DEF Shape
  <2>. QED  BY <1>5, <2>3 DEF HandlersLive
<1>9. HandlersNest'
  <2>1. \A i \in 1 .. Len(handlers) : /\ handlers[i].off <= off /\ handlers[i].scopes <= scopes
                                      /\ handlers[i].depth <= Len(calls)
    BY <1>1, <1>2, <1>4 DEF Inv, Nested, HandlersLive, Shape
  <2>2. ASSUME NEW i \in 1 .. Len(handlers) + 1, NEW j \in 1 .. Len(handlers) + 1, i < j
        PROVE  /\ handlers'[i].off <= handlers'[j].off
               /\ handlers'[i].scopes <= handlers'[j].scopes
               /\ handlers'[i].depth <= handlers'[j].depth
    <3>1. i \in 1 .. Len(handlers) /\ handlers'[i] = handlers[i]
      BY <1>2, <1>5, <2>2 DEF Shape
    <3>2. CASE j = Len(handlers) + 1
      BY <1>5, <2>1, <3>1, <3>2
    <3>3. CASE j \in 1 .. Len(handlers)
      <4>1. i \in DOMAIN handlers /\ j \in DOMAIN handlers /\ handlers'[j] = handlers[j]
        BY <1>2, <1>5, <3>1, <3>3 DEF Shape
      <4>. QED  BY <2>2, <3>1, <4>1 DEF Inv, Nested, HandlersNest
    <3>. QED  BY <1>2, <3>2, <3>3 DEF Shape
  <2>. QED  BY <1>5, <2>2 DEF HandlersNest
<1>10. Clean'
  BY <1>4 DEF Inv, Nested, Clean, Catch
<1>. QED  BY <1>6, <1>7, <1>8, <1>9, <1>10 DEF Inv, Nested

(* Forgetting the innermost catch form disturbs no other.                  *)
LEMMA PopCatchStep == Inv /\ PopCatch => Inv'
<1>. SUFFICES ASSUME Inv, PopCatch PROVE Inv'
  OBVIOUS
<1>1. Shape
  BY Elements DEF Inv
<1>2. calls' = Cut(calls, Len(calls))
  BY <1>1 DEF PopCatch, Cut, Shape
<1>3. /\ height' = height /\ scopes' = scopes /\ handlers' = Cut(handlers, Len(handlers) - 1)
      /\ Len(handlers) > 0
  BY <1>1, EmptySeq DEF PopCatch, Catching, Shape
<1>. DEFINE n == Len(calls)
            m == Len(handlers) - 1
<1>4. /\ m \in 0 .. Len(handlers)
      /\ n \in 0 .. Len(calls)
  BY <1>1, <1>3 DEF Shape
<1>5. \A j \in 1 .. n : calls[j].base <= height' /\ calls[j].own <= scopes'
  BY <1>1, <1>3 DEF Inv, Nested, CallsNest, Shape
<1>6. ASSUME NEW i \in 1 .. m
      PROVE  /\ handlers[i].depth <= n
             /\ handlers[i].off <= height' /\ handlers[i].scopes <= scopes'
  <2>1. i \in DOMAIN handlers
    BY <1>1 DEF Shape
  <2>2. /\ handlers[i].off <= height /\ handlers[i].scopes <= scopes
        /\ handlers[i].depth \in 1 .. n
    BY <1>1, <2>1 DEF Inv, Nested, HandlersLive, Shape
  <2>. QED  BY <1>3, <2>2
<1>7. n = 0 => scopes' = 1
  BY <1>1, <1>3 DEF Inv, Nested, Clean, Shape
<1>8. calls' = Cut(calls, n) /\ handlers' = Cut(handlers, m) /\ height' \in Nat /\ scopes' \in Nat
  BY <1>1, <1>2, <1>3 DEF Shape
<1>. HIDE DEF n, m
<1>. QED  BY <1>4, <1>5, <1>6, <1>7, <1>8, CutStep

(* An error to a catch form leaves what the outer ones remember.           *)
LEMMA ThrowStep == ASSUME NEW k \in DOMAIN handlers PROVE Inv /\ Throw(k) => Inv'
<1>. SUFFICES ASSUME Inv, Throw(k) PROVE Inv'
  OBVIOUS
<1>1. Shape
  BY Elements DEF Inv
<1>. DEFINE h == handlers[k]
            n == h.depth
            m == k - 1
<1>2. /\ h \in Handlers /\ n \in 1 .. Len(calls) /\ m \in 0 .. Len(handlers)
      /\ calls[n].base <= h.off /\ calls[n].own <= h.scopes
  BY <1>1 DEF Inv, Nested, HandlersLive, Shape
<1>3. /\ height' \in Nat /\ h.off <= height' /\ scopes' = h.scopes /\ scopes' \in Nat
      /\ calls' = Cut(calls, n) /\ handlers' = Cut(handlers, m)
  BY <1>1, <1>2 DEF Throw, Shape
<1>4. \A j \in 1 .. n : calls[j].base <= height' /\ calls[j].own <= scopes'
  <2>1. ASSUME NEW j \in 1 .. n
        PROVE  calls[j].base <= calls[n].base /\ calls[j].own <= calls[n].own
    <3>1. j \in DOMAIN calls /\ n \in DOMAIN calls /\ j \in Nat /\ n \in Nat
      BY <1>1, <1>2 DEF Shape
    <3>2. j < n => calls[j].base <= calls[n].back /\ calls[j].own <= calls[n].outer
      BY <3>1 DEF Inv, Nested, CallsNest
    <3>3. calls[n].back <= calls[n].base /\ calls[n].outer <= calls[n].own
      BY <3>1 DEF Inv, Nested, CallsNest
    <3>4. /\ calls[j].base \in Nat /\ calls[j].own \in Nat /\ calls[n].back \in Nat
          /\ calls[n].base \in Nat /\ calls[n].own \in Nat /\ calls[n].outer \in Nat
      BY <1>1, <3>1 DEF Shape
    <3>. QED  BY <3>1, <3>2, <3>3, <3>4
  <2>2. ASSUME NEW j \in 1 .. n
        PROVE  /\ calls[j].base \in Nat /\ calls[j].own \in Nat
               /\ calls[n].base \in Nat /\ calls[n].own \in Nat
               /\ h.off \in Nat /\ h.scopes \in Nat
    <3>1. j \in 1 .. Len(calls) /\ n \in 1 .. Len(calls) /\ k \in 1 .. Len(handlers)
      BY <1>1, <1>2 DEF Shape
    <3>. QED  BY <1>1, <3>1 DEF Shape
  <2>. HIDE DEF n, h
  <2>3. ASSUME NEW j \in 1 .. n
        PROVE  calls[j].base <= height' /\ calls[j].own <= scopes'
    <3>1. calls[n].base <= h.off /\ calls[n].own <= h.scopes /\ h.off <= height' /\ scopes' = h.scopes
      BY <1>2, <1>3
    <3>. QED  BY <1>3, <2>1, <2>2, <3>1
  <2>. QED  BY <2>3
<1>5. ASSUME NEW i \in 1 .. m
      PROVE  /\ handlers[i].depth <= n
             /\ handlers[i].off <= height' /\ handlers[i].scopes <= scopes'
  <2>1. i \in DOMAIN handlers /\ i < k
    BY <1>1 DEF Shape
  <2>2. /\ handlers[i].off <= h.off /\ handlers[i].scopes <= h.scopes
        /\ handlers[i].depth <= n
    BY <2>1 DEF Inv, Nested, HandlersNest
  <2>3. handlers[i].off \in Nat /\ h.off \in Nat
    BY <1>1, <2>1 DEF Shape
  <2>. QED  BY <1>3, <2>2, <2>3
<1>6. n \in 0 .. Len(calls) /\ n # 0
  BY <1>1, <1>2 DEF Shape
<1>. HIDE DEF n, m
<1>. QED  BY <1>2, <1>3, <1>4, <1>5, <1>6, CutStep

(* An error that nothing catches leaves nothing.                           *)
LEMMA ResetStep == Inv /\ Reset => Inv'
BY DEF Reset, Inv, TypeOK, Nested, CallsNest, HandlersLive, HandlersNest, Clean

(* Abandoning a vm_eval leaves what its caller waits for.                  *)
LEMMA AbandonStep == ASSUME NEW k \in DOMAIN calls PROVE Inv /\ Abandon(k) => Inv'
<1>. SUFFICES ASSUME Inv, Abandon(k) PROVE Inv'
  OBVIOUS
<1>1. Shape
  BY Elements DEF Inv
<1>2. PICK m \in 0 .. Len(handlers) :
        /\ handlers' = Cut(handlers, m)
        /\ \A i \in DOMAIN handlers : handlers[i].depth < k <=> i <= m
  BY DEF Abandon
<1>. DEFINE c == calls[k]
            n == k - 1
<1>3. /\ c \in Calls /\ n \in 0 .. Len(calls) /\ calls' = Cut(calls, n) /\ scopes' = c.outer
      /\ height' \in {c.back, c.back + 1} /\ height' \in Nat /\ scopes' \in Nat
  BY <1>1 DEF Abandon, Shape
<1>4. ASSUME NEW j \in 1 .. n PROVE calls[j].base <= height' /\ calls[j].own <= scopes'
  <2>1. j \in DOMAIN calls /\ j < k
    BY <1>1 DEF Shape
  <2>2. calls[j].base <= c.back /\ calls[j].own <= c.outer
    BY <2>1 DEF Inv, Nested, CallsNest
  <2>3. calls[j].base \in Nat /\ c.back \in Nat
    BY <1>1, <2>1 DEF Shape
  <2>. QED  BY <1>3, <2>2, <2>3
<1>5. ASSUME NEW i \in 1 .. m
      PROVE  /\ handlers[i].depth <= n
             /\ handlers[i].off <= height' /\ handlers[i].scopes <= scopes'
  <2>1. i \in DOMAIN handlers /\ i <= m
    BY <1>1 DEF Shape
  <2>. HIDE DEF n
  <2>2. handlers[i].depth < k
    BY <1>2, <2>1
  <2>3. handlers[i].off <= c.back /\ handlers[i].scopes <= c.outer
    BY <2>1, <2>2 DEF Inv, Nested, HandlersLive
  <2>4. handlers[i].off \in Nat /\ c.back \in Nat /\ handlers[i].depth \in Nat /\ k \in Nat
    BY <1>1, <2>1 DEF Shape
  <2>5. handlers[i].depth <= n
    BY <2>2, <2>4 DEF n
  <2>6. height' \in Nat /\ c.back <= height' /\ scopes' = c.outer
    BY <1>3, <2>4
  <2>. HIDE DEF c
  <2>. QED  BY <2>3, <2>4, <2>5, <2>6
<1>6. n = 0 => scopes' = 1
  BY <1>1, <1>3 DEF Inv, Nested, Clean, Shape
<1>. HIDE DEF n, c
<1>. QED  BY <1>2, <1>3, <1>4, <1>5, <1>6, CutStep

(* Every step of the discipline keeps the invariant.                       *)
LEMMA NextInv == Inv /\ [Next]_stacks => Inv'
<1>. SUFFICES ASSUME Inv, [Next]_stacks PROVE Inv'
  OBVIOUS
<1>1. CASE UNCHANGED stacks
  BY <1>1 DEF stacks, Inv, TypeOK, Nested, CallsNest, HandlersLive, HandlersNest, Clean
<1>2. CASE Work  BY <1>2, WorkStep
<1>3. CASE Call  BY <1>3, CallStep
<1>4. CASE Return  BY <1>4, ReturnStep
<1>5. CASE Catch  BY <1>5, CatchStep
<1>6. CASE PopCatch  BY <1>6, PopCatchStep
<1>7. CASE Reset  BY <1>7, ResetStep
<1>8. CASE \E i \in DOMAIN handlers : Throw(i)  BY <1>8, ThrowStep
<1>9. CASE \E k \in DOMAIN calls : Abandon(k)  BY <1>9, AbandonStep
<1>. QED  BY <1>1, <1>2, <1>3, <1>4, <1>5, <1>6, <1>7, <1>8, <1>9 DEF Next

(* Whatever the program does, calls, catch forms, values and contexts nest *)
(* and the prompt is clean.                                                *)
THEOREM AlwaysNested == Spec => [](TypeOK /\ Nested)
<1>1. Inv => TypeOK /\ Nested
  BY DEF Inv
<1>. QED  BY <1>1, InitInv, NextInv, PTL DEF Spec

===============================================================================
