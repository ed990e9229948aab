--------------------------------- MODULE Printer --------------------------------
(***************************************************************************)
(* The printer of object.c: the characters sprint_object makes of the      *)
(* objects that can be written in a file.  Functions, macros and streams   *)
(* print as addresses in #<...>, which nothing reads back, and are left    *)
(* out; so is NULL.                                                        *)
(***************************************************************************)
EXTENDS Parser

CONSTANT
  Spelling    (* the characters of the words the printer writes            *)

DigitOf(n) == CHOOSE d \in Digits : DigitValue(d) = n
Decimal[n \in Nat] ==
  IF n < 10 THEN <<DigitOf(n)>> ELSE Append(Decimal[n \div 10], DigitOf(n % 10))
SprintLong(n) == IF n < 0 THEN <<"-">> \o Decimal[-n] ELSE Decimal[n]

(* sprint_string puts a backslash before a quote and before nothing else.  *)
SprintString(text) ==
  <<"\"">> \o FlattenSeq([i \in DOMAIN text |->
                            IF text[i] = "\"" THEN <<"\\", "\"">> ELSE <<text[i]>>]) \o <<"\"">>

SprintChar(c) ==
  <<"#", "\\">> \o CASE c = Newline -> Spelling["NewLine"]
                    [] c = " "     -> Spelling["Space"]
                    [] c = "\t"    -> Spelling["Tab"]
                    [] OTHER       -> <<c>>

RECURSIVE SprintObject(_)

(* sprint_cons and sprint_cdr: the rest of a list, without parentheses.    *)
RECURSIVE SprintCons(_)
SprintCdr(o) ==
  CASE o = NilObj       -> << >>
    [] o[1] = "cons"    -> <<" ">> \o SprintCons(o)
    [] OTHER            -> <<" ", ".", " ">> \o SprintObject(o)
SprintCons(o) == SprintObject(o[2]) \o SprintCdr(o[3])

SprintObject(o) ==
  CASE o[1] \in {"sym", "keyword"} -> o[2]
    [] o[1] = "str"  -> SprintString(o[2])
    [] o[1] = "num"  -> SprintLong(o[2])
    [] o[1] = "char" -> SprintChar(o[2])
    [] o[1] = "cons" -> <<"(">> \o SprintCons(o) \o <<")">>

===============================================================================
