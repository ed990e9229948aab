--------------------------------- MODULE MCMacros ---------------------------------
(***************************************************************************)
(* Macro expansion on small forms: every macro of the standard library     *)
(* with arguments that have a value, an effect or an error, calls nested   *)
(* in calls, and calls with the wrong number of arguments.                 *)
(***************************************************************************)
EXTENDS Macros

MCBelow == <<Nil>>
L(items) == List(items)
Op(name, args) == List(<<Sym(name)>> \o args)
OneOf(S) == {<<x>> : x \in S}
TwoOf(S) == {<<x, y>> : x \in S, y \in S}
ThreeOf(S) == {<<x, y, z>> : x \in S, y \in S, z \in S}

X == Sym("X")
Silent == {Nil, X}
Loud == {Op("PRINT", <<Num(1)>>), Op("PRINT", <<X>>), Op("ERROR", <<Num(2)>>)}
Simple == Silent \cup Loud
Quietly == {Op("PRINT", <<Num(3)>>), X}       (* what a handler may be *)

Clauses(S) == {L(p) : p \in TwoOf(S)}
(* AND is told apart by a third argument that is NIL: see the README.      *)
Calls(S) ==
  {Op("PROGN", a) : a \in OneOf(S) \cup TwoOf(S)} \cup
  {Op("OR", a) : a \in OneOf(S) \cup TwoOf(S)} \cup
  {Op("AND", a) : a \in TwoOf(S)} \cup
  {Op("COND", a) : a \in OneOf(Clauses(S))} \cup
  {Op("NOT", a) : a \in OneOf(S)} \cup
  {Op("SWAP", a) : a \in TwoOf(S)} \cup
  {Op("UNWIND-PROTECT", <<b, h>>) : b \in S, h \in Quietly}
Three ==
  {Op("OR", a) : a \in ThreeOf(Simple)} \cup
  {Op("AND", a) : a \in {t \in ThreeOf(Simple) : t[3] # Nil}} \cup
  {Op("COND", a) : a \in TwoOf(Clauses({Nil, X, Op("PRINT", <<Num(1)>>)}))} \cup
  {Op("UNWIND-PROTECT", <<b, g, h>>) : b \in Simple, g \in Quietly, h \in Quietly}
Few == {Nil, Op("ERROR", <<Num(2)>>)} \cup
       {Op(m, <<X, Op("PRINT", <<X>>)>>) : m \in {"OR", "AND", "PROGN", "SWAP", "UNWIND-PROTECT"}}
Nested == Calls(Few) \cup {Op("OR", <<Nil, a, b>>) : a \in Few, b \in Few}

(* All within (let ((x 4)) ...), or x bound to the value of a macro.       *)
Within(form, value) == Op("LET", <<L(<<L(<<X, value>>)>>), form>>)
MCProper ==
  {Within(f, Num(4)) : f \in Calls(Simple) \cup Three \cup Nested} \cup
  {Within(Op("OR", <<Nil, X>>), f) : f \in Calls({Nil, Num(5), Op("PRINT", <<Num(1)>>)})} \cup
  {Within(Op("IF", <<f, Op("NOT", <<X>>), f>>), Num(4)) : f \in Calls({Nil, Num(5)})}
Miscalls ==
  {Op(m, << >>) : m \in DOMAIN Variance \ {"UNWIND-PROTECT", "SWAP"}} \cup
  {Op(m, <<Num(1)>>) : m \in DOMAIN Variance} \cup
  {Op(m, <<X, Nil, X>>) : m \in DOMAIN Variance} \cup
  {Op("AND", <<X, X, Nil>>), Op("COND", <<Nil>>)}
MCImproper == Miscalls \cup {Within(f, Nil) : f \in Miscalls}
===============================================================================
