--------------------------------- MODULE MCReader -------------------------------
(***************************************************************************)
(* Inputs for Reader: forms as a user types them or as PRINT prints them,  *)
(* with everything that may stand between two forms, and garbage.          *)
(***************************************************************************)
EXTENDS Reader

MCUpper == [a |-> "A", n |-> "N", i |-> "I", l |-> "L", s |-> "S", p |-> "P", c |-> "C", e |-> "E"]
MCSpelling == [NewLine |-> <<"N", "e", "w", "L", "i", "n", "e">>,
               Space |-> <<"S", "p", "a", "c", "e">>, Tab |-> <<"T", "a", "b">>]

ListOf(a) == ConsObj(a, NilObj)
A == SymObj(<<"A">>)
Atoms == {A, NilObj, SymObj(<<"A", "1", "\"">>), KeywordObj(<<":", "A">>), NumObj(0), NumObj(10),
          StrObj(<< >>), StrObj(<<"a", "\"", Newline, "(">>), StrObj(<<"\t", "1">>),
          CharObj("a"), CharObj(" "), CharObj("\t")}
FewAtoms == {A, NumObj(10), StrObj(<<"n">>), CharObj("a")}
Lists == {ListOf(a) : a \in Atoms} \cup {ConsObj(a, b) : a \in FewAtoms, b \in Atoms}
         \cup {ConsObj(a, ListOf(b)) : a \in Atoms, b \in FewAtoms}
         \cup {ConsObj(ConsObj(a, b), ListOf(b)) : a \in FewAtoms, b \in FewAtoms}
Abbreviated == {ConsObj(s, ListOf(o)) : s \in {QuoteSym, BacktickSym, CommaSym, CommaAtSym},
                                        o \in {A, ListOf(A), ConsObj(QuoteSym, ListOf(A))}}
Objects == Atoms \cup Lists \cup Abbreviated
Few == {NumObj(10), StrObj(<<"n">>), ListOf(A)}

(* Symbols in lower case, quotes abbreviated.                              *)
Lower(c) == IF \E d \in DOMAIN MCUpper : MCUpper[d] = c
              THEN CHOOSE d \in DOMAIN MCUpper : MCUpper[d] = c ELSE c
RECURSIVE Typed(_)
Typed(o) ==
  CASE o[1] = "sym" -> [i \in DOMAIN o[2] |-> Lower(o[2][i])]
    [] o[1] = "cons" /\ o[2] = QuoteSym    -> <<"'">> \o Typed(o[3][2])
    [] o[1] = "cons" /\ o[2] = BacktickSym -> <<Backtick>> \o Typed(o[3][2])
    [] o[1] = "cons" /\ o[2] = CommaSym    -> <<",">> \o Typed(o[3][2])
    [] o[1] = "cons" /\ o[2] = CommaAtSym  -> <<",", "@">> \o Typed(o[3][2])
    [] OTHER -> SprintObject(o)

Separators == {<<" ">>, <<Newline>>, <<";", "a", ")", Newline>>, <<Newline, " ", ";", Newline>>}
(* Two forms may touch where a token ends by itself: at the prompt after a *)
(* parenthesis or a string or before an opening parenthesis, in a file     *)
(* only after a string.                                                    *)
Touching(source, t1, t2) ==
  \/ Last(t1) = "\"" /\ Head(t1) = "\""
  \/ source = "prompt" /\ (Last(t1) = ")" \/ Head(t2) = "(")
Between(source, t1, t2) ==
  Separators \cup (IF Touching(source, t1, t2) THEN {<< >>} ELSE {})

Session(source, in, forms, exact) == [source |-> source, in |-> in, forms |-> forms, exact |-> exact]
Two(source, o1, o2, t1, t2) ==
  {Session(source, t1 \o sep \o t2 \o <<Newline>>, <<o1, o2>>, TRUE) : sep \in Between(source, t1, t2)}

Sources == {"prompt", "load", "boot"}
WrittenSessions ==
  UNION {Two(s, o, f, SprintObject(o), SprintObject(f)) \cup Two(s, f, o, Typed(f), Typed(o))
         : s \in Sources, o \in Objects, f \in Few}

(* The end of the input right after the last form.                         *)
CutOff(source) ==
  {Session(source, SprintObject(o), <<o>>, TRUE)
   : o \in {p \in Objects : p[1] \in {"cons", "str", "num"}}}
Slurped ==
  {Session("slurp", t, <<StrObj(t), StrObj(t)>>, TRUE)
   : t \in UNION {[1 .. n -> {"a", ";", "\"", Newline}] : n \in 0 .. 4}}

(* Garbage, then a line with a form.                                       *)
Strings(cs, n) == UNION {[1 .. k -> cs] : k \in 0 .. n}
Open(t) == FoldLeft(LAMBDA d, c : CASE c = "(" -> d + 1 [] c = ")" /\ d > 0 -> d - 1 [] OTHER -> d, 0, t)
Garbage == Strings({")", ".", "a", "1", " ", ";"}, 4)
           \cup {t \in Strings({"(", ")", "a", "'", Newline}, 5) :
                   Open(t) = 0 /\ \A i \in DOMAIN t : t[i] = "'" => i < Len(t) /\ t[i + 1] \in {"a", "("}}
GarbageSessions ==
  {Session("prompt", t \o <<Newline>> \o SprintObject(ListOf(A)) \o <<Newline>>, <<ListOf(A)>>, FALSE)
   : t \in Garbage}

MCSessions ==
  WrittenSessions \cup CutOff("prompt") \cup CutOff("load") \cup Slurped \cup GarbageSessions

(* Any few characters.                                                     *)
AnySessions ==
  {Session("prompt", t, << >>, FALSE) : t \in Strings({"(", ")", "#", "\\", "a", ".", "\"", Newline}, 3)}
===============================================================================
