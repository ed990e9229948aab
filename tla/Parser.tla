--------------------------------- MODULE Parser ---------------------------------
(***************************************************************************)
(* parser.c: from tokens to objects by recursive descent, one token ahead. *)
(*                                                                         *)
(* The parser keeps a token until it is cleared or replaced, over an error *)
(* as well: the next form starts with whatever was left.  A form that      *)
(* starts with a closing parenthesis or a dot is C's NULL.                 *)
(***************************************************************************)
EXTENDS Lexer

SymObj(text) == <<"sym", text>>
KeywordObj(text) == <<"keyword", text>>
StrObj(text) == <<"str", text>>
NumObj(n) == <<"num", n>>
CharObj(c) == <<"char", c>>
ConsObj(a, d) == <<"cons", a, d>>
NilObj == SymObj(<<"N", "I", "L">>)
QuoteSym    == SymObj(<<"Q", "U", "O", "T", "E">>)
BacktickSym == SymObj(<<"B", "A", "C", "K", "T", "I", "C", "K">>)
CommaSym    == SymObj(<<"C", "O", "M", "M", "A">>)
CommaAtSym  == SymObj(<<"C", "O", "M", "M", "A", "_", "A", "T">>)

Type(s) == s.tok[1]
Returns(s, o) == [s EXCEPT !.o = o]

RECURSIVE NextForm(_), ParseList(_)

(* currtok, get_next_tok, clear_tok and tok_match.                         *)
CurrTok(s) == IF Going(s) /\ s.tok = NoToken THEN NextToken(s) ELSE s
GetNextTok(s) == IF Going(s) THEN NextToken(s) ELSE s
ClearTok(s) == IF Going(s) THEN [s EXCEPT !.tok = NoToken] ELSE s
TokMatch(s, type) ==
  LET c == CurrTok(s)
  IN IF Type(c) = type THEN ClearTok(c) ELSE EndsWith(c, "SIG-ERROR")

(* QUOTE and its kind: (sym form).                                         *)
Prefixed(s, sym) ==
  LET f == NextForm(s) IN Returns(f, ConsObj(sym, ConsObj(f.o, NilObj)))

ListFrom(c) ==
  LET Dotted(car) == TokMatch(NextForm(ClearTok(car)), "RPAREN")
      Rest(car) == IF Type(car) = "DOT" THEN Dotted(car) ELSE ParseList(car)
      Pair(car, cdr) == Returns(cdr, ConsObj(car.o, cdr.o))
      From(car) == Pair(car, Rest(car))
  IN CASE ~Going(c) -> c
       [] Going(c) /\ Type(c) = "RPAREN" -> Returns(ClearTok(c), NilObj)
       [] OTHER -> From(CurrTok(NextForm(c)))
ParseList(s) == ListFrom(CurrTok(s))

(* Only an opening parenthesis, an atom and a prefix start a form.  An     *)
(* error leaves the token where it is, but for LEX_ERR.                    *)
AfterComma(t) ==
  IF Type(t) = "AT_SYMBOL" THEN Prefixed(GetNextTok(t), CommaAtSym) ELSE Prefixed(t, CommaSym)
FormFrom(c) ==
  CASE ~Going(c) -> c
    [] Going(c) /\ Type(c) = "LPAREN"    -> ParseList(ClearTok(c))
    [] Going(c) /\ Type(c) = "SYM"       -> Returns(ClearTok(c), SymObj(c.tok[2]))
    [] Going(c) /\ Type(c) = "KEYWORD"   -> Returns(ClearTok(c), KeywordObj(c.tok[2]))
    [] Going(c) /\ Type(c) = "STRING"    -> Returns(ClearTok(c), StrObj(c.tok[2]))
    [] Going(c) /\ Type(c) = "NUM"       -> Returns(ClearTok(c), NumObj(c.tok[2]))
    [] Going(c) /\ Type(c) = "CHARACTER" -> Returns(ClearTok(c), CharObj(c.tok[2]))
    [] Going(c) /\ Type(c) = "QUOTE"     -> Prefixed(GetNextTok(c), QuoteSym)
    [] Going(c) /\ Type(c) = "BACKTICK"  -> Prefixed(GetNextTok(c), BacktickSym)
    [] Going(c) /\ Type(c) = "COMMA"     -> AfterComma(GetNextTok(c))
    [] Going(c) /\ Type(c) = "AT_SYMBOL" -> EndsWith(c, "SIG-ERROR")
    [] Going(c) /\ Type(c) = "END"       -> EndsWith(c, "END-OF-FILE")
    [] Going(c) /\ Type(c) = "LEX_ERR"   -> EndsWith(ClearTok(c), "LEX_ERR")
    [] Going(c) /\ Type(c) \in {"RPAREN", "DOT"} -> Returns(GetNextTok(c), Null)
NextForm(s) == FormFrom(CurrTok(s))

===============================================================================
