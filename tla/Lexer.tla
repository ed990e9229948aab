---------------------------------- MODULE Lexer ----------------------------------
(***************************************************************************)
(* lexer.c: from the characters of a FILE to tokens, one character ahead.  *)
(*                                                                         *)
(* The lexer keeps one character it has read and not used (look; 0 in the  *)
(* code when it has none).  Every character comes through skip_comments,   *)
(* inside strings too.  Loops that wait for a closing character do not     *)
(* look for the end of the file: they never end, and the model stops with  *)
(* fate "hang".  match() aborts the program if it does not find what it    *)
(* wants.                                                                  *)
(*                                                                         *)
(* Characters are strings of length one (but Backtick).  Character code 0  *)
(* does not occur in a file.                                               *)
(***************************************************************************)
EXTENDS Strings

CONSTANT
  Upper       (* the lower case letters in use, with their upper case      *)

NoLook == "none"
EOF == "eof"
NoToken == <<"NONE">>
Null == <<"null">>
NoChar == "code 0"
Newline == "\n"
Backtick == "backtick"    (* no string may hold the character itself       *)
Whitespace == {" ", Newline, "\t"}
Digits == {"0", "1", "2", "3", "4", "5", "6", "7", "8", "9"}
DigitValue(d) == CASE d = "0" -> 0 [] d = "1" -> 1 [] d = "2" -> 2 [] d = "3" -> 3 [] d = "4" -> 4
                   [] d = "5" -> 5 [] d = "6" -> 6 [] d = "7" -> 7 [] d = "8" -> 8 [] d = "9" -> 9
IsSymChar(c) == c \notin Whitespace \cup {"(", ")"}

(* A FILE with a lexer and a parser on it.  in and pos: the contents and   *)
(* how much of them was read; eof: feof(); look, tok: what lexer and       *)
(* parser have read ahead; text, o: the text and the object last made;     *)
(* fate: "ok", or how reading ended: an error, "abort" or "hang".          *)
Opened(in) == [in |-> in, pos |-> 0, eof |-> FALSE, look |-> NoLook, tok |-> NoToken,
               text |-> NewString, o |-> Null, fate |-> "ok"]
Going(s) == s.fate = "ok"
EndsWith(s, fate) == IF Going(s) THEN [s EXCEPT !.fate = fate] ELSE s

-------------------------------------------------------------------------------
(* Characters.                                                             *)

(* getc, then skip_comments: a comment becomes the newline that ends it.   *)
Fetch(s) ==
  LET ends == {i \in s.pos + 1 .. Len(s.in) : s.in[i] = Newline} IN
  CASE s.pos = Len(s.in)        -> [s EXCEPT !.look = EOF, !.eof = TRUE]
    [] s.pos < Len(s.in) /\ s.in[s.pos + 1] # ";" ->
         [s EXCEPT !.look = s.in[s.pos + 1], !.pos = @ + 1]
    [] OTHER -> IF ends = {} THEN EndsWith([s EXCEPT !.look = EOF, !.eof = TRUE], "hang")
                ELSE [s EXCEPT !.look = Newline, !.pos = Min(ends)]

Looked(s) == IF s.look = NoLook THEN Fetch(s) ELSE s
(* get_char: uses up the character and reads the one after it.             *)
GetChar(s) == Fetch(Looked(s))
(* match: uses it up and reads nothing.                                    *)
Match(s, c) ==
  LET l == Looked(s)
  IN IF l.look = c THEN [l EXCEPT !.look = NoLook] ELSE EndsWith(l, "abort")

RECURSIVE SkipWhitespace(_)
SkipWhitespace(s) ==
  LET l == Looked(s)
  IN IF Going(l) /\ l.look \in Whitespace THEN SkipWhitespace(GetChar(l)) ELSE l

(* The loops of parse_symbol, parse_character and parse_long.  The end of  *)
(* the file counts as a character of a symbol.                             *)
MutantBelongs(c, kind) == c = EOF \/ (IF kind = "digits" THEN c \in Digits ELSE IsSymChar(c))
Belongs(c, kind) == IF kind = "digits" THEN c \in Digits ELSE IsSymChar(c)
RECURSIVE Gather(_, _)
Gather(s, kind) ==
  LET l == Looked(s)
  IN IF ~Going(l) \/ ~Belongs(l.look, kind) THEN l
     ELSE IF l.look = EOF THEN EndsWith(l, "hang")
     ELSE Gather(GetChar([l EXCEPT !.text = StringAppend(@, l.look)]), kind)
Gathered(s, kind) == Gather([s EXCEPT !.text = NewString], kind)

-------------------------------------------------------------------------------
(* Tokens.                                                                 *)

Escaped(c) == CASE c = "n" -> Newline [] c = "t" -> "\t" [] c = "\"" -> "\"" [] OTHER -> "?"

RECURSIVE StringBody(_)
StringBody(s) ==
  LET l == Looked(s)
      escaped == Looked(Match(l, "\\"))
  IN CASE ~Going(l) \/ l.look = "\"" -> l
       [] Going(l) /\ l.look = EOF -> EndsWith(l, "hang")
       [] Going(l) /\ l.look = "\\" ->
            StringBody(GetChar([escaped EXCEPT !.text = StringAppend(@, Escaped(escaped.look))]))
       [] OTHER -> StringBody(GetChar([l EXCEPT !.text = StringAppend(@, l.look)]))
MutantParseString(s) ==   (* reads on after the closing quote *)
  GetChar(StringBody([Match(s, "\"") EXCEPT !.text = NewString]))
ParseString(s) == Match(StringBody([Match(s, "\"") EXCEPT !.text = NewString]), "\"")

Upcase(text) == [i \in DOMAIN text |-> IF text[i] \in DOMAIN Upper THEN Upper[text[i]] ELSE text[i]]

(* strtol with base 0: a leading zero makes the number octal, and it ends  *)
(* before a digit that is not.                                             *)
InBase(ds, base) == FoldLeft(LAMBDA n, d : base * n + DigitValue(d), 0, ds)
LongValue(ds) ==
  LET beyond == {i \in DOMAIN ds : DigitValue(ds[i]) > 7} IN
  CASE ds[1] # "0" -> InBase(ds, 10)
    [] ds[1] = "0" /\ beyond = {} -> InBase(ds, 8)
    [] OTHER -> InBase(SubSeq(ds, 1, Min(beyond) - 1), 8)

(* parse_character: one character stands for itself, more are a name;      *)
(* none, and a name that name_to_char does not know, is 0, an error.       *)
NamedChars == <<<<"Newline", Newline>>, <<"Space", " ">>, <<"Tab", "\t">>>>
Spelled(name) == [i \in 1 .. Len(name) |-> SubSeq(name, i, i)]
CharNamed(text) ==
  LET known == {i \in DOMAIN NamedChars : Spelled(NamedChars[i][1]) = text}
  IN IF known = {} THEN NoChar ELSE NamedChars[CHOOSE i \in known : TRUE][2]
OneChar(text) ==
  CASE text = << >> -> NoChar [] Len(text) = 1 -> text[1] [] Len(text) > 1 -> CharNamed(text)
CharacterToken(g, c) == [g EXCEPT !.tok = IF c = NoChar THEN <<"LEX_ERR">> ELSE <<"CHARACTER", c>>]
ParseCharacter(s) ==
  LET Named(g) == CharacterToken(g, OneChar(g.text.chars)) IN Named(Gathered(Match(s, "\\"), "symbol"))

(* next_token.                                                             *)
Punctuation(c) ==
  CASE c = "(" -> "LPAREN" [] c = ")" -> "RPAREN" [] c = "'" -> "QUOTE" [] c = "." -> "DOT"
    [] c = Backtick -> "BACKTICK" [] c = "," -> "COMMA" [] c = "@" -> "AT_SYMBOL" [] OTHER -> "other"
WithTok(s, type, data) == [s EXCEPT !.tok = <<type, data>>]
Upcased(g, type) == WithTok(g, type, Upcase(g.text.chars))
SymbolToken(s, type) == Upcased(Gathered(s, "symbol"), type)
WithText(q, type) == WithTok(q, type, q.text.chars)
NumberToken(g) == WithTok(g, "NUM", LongValue(g.text.chars))
TokenAt(l) ==
  CASE ~Going(l) -> l
    [] Going(l) /\ l.look = EOF -> [l EXCEPT !.tok = <<"END">>]
    [] Going(l) /\ Punctuation(l.look) # "other" ->
         GetChar([l EXCEPT !.tok = <<Punctuation(l.look)>>])
    [] Going(l) /\ l.look = "\"" -> WithText(ParseString(l), "STRING")
    [] Going(l) /\ l.look = ":" -> SymbolToken(l, "KEYWORD")
    [] Going(l) /\ l.look = "#" -> ParseCharacter(GetChar(l))
    [] Going(l) /\ l.look \in Digits -> NumberToken(Gathered(l, "digits"))
    [] OTHER -> SymbolToken(l, "SYM")
NextToken(s) == TokenAt(SkipWhitespace(s))

===============================================================================
