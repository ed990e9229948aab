--------------------------------- MODULE Reader ---------------------------------
(***************************************************************************)
(* Who calls the parser, and what becomes of what was read ahead.          *)
(*                                                                         *)
(* READ without an argument (vm_read) uses one parser for the life of the  *)
(* program: the prompt.  READ of a stream makes a lexer and a parser for   *)
(* each call and throws them away with the character and the token they    *)
(* have read ahead: load-file and the bootstrap.  READ-CHAR takes the next *)
(* character of the FILE itself: slurp.  Each loop ends in its own way.    *)
(* Evaluation is a choice: it succeeds or signals an error; a form with a  *)
(* NULL inside makes it follow a null pointer.                             *)
(***************************************************************************)
EXTENDS Printer

CONSTANT
  Sessions    (* who reads, what there is to read and the forms it stands  *)
              (* for: [source, in, forms, exact]                           *)

VARIABLES
  session,    (* one of them                                               *)
  stream,     (* the FILE, and lexer and parser on it                      *)
  got,        (* the forms that were read and the errors that were caught  *)
  bad,        (* an evaluation has failed                                  *)
  mode        (* where the loop is                                         *)

vars == <<session, stream, got, bad, mode>>

(* What a stream may be between two forms, and NextForm on it as a         *)
(* function, which TLC evaluates once for each step.                       *)
Tokens ==
  {<<t>> : t \in {"NONE", "END", "LEX_ERR", "LPAREN", "RPAREN", "QUOTE", "DOT", "BACKTICK", "COMMA", "AT_SYMBOL"}}
    \cup ({"SYM", "KEYWORD", "STRING"} \X Seq(STRING)) \cup ({"NUM"} \X Int) \cup ({"CHARACTER"} \X STRING)
Streams == [in : Seq(STRING), pos : Nat, eof : BOOLEAN, look : STRING, tok : Tokens,
            text : [chars : Seq(STRING), cap : Nat], o : {Null}, fate : {"ok"}]
FormOf == [s \in Streams |-> NextForm(s)]

Ended == {"done", "failed", "boot failed", "abort", "hang", "crash"}

Init ==
  /\ session \in Sessions /\ stream = Opened(session.in)
  /\ got = << >> /\ bad = FALSE
  /\ mode = IF session.source = "slurp" THEN "called" ELSE "reading"

(* vm_read makes NIL of the parser's NULL.                                 *)
Form(s) == IF s.o = Null THEN NilObj ELSE s.o
RECURSIVE HoldsNull(_)
HoldsNull(o) == o[1] = "cons" /\ \E i \in {2, 3} : o[i] = Null \/ HoldsNull(o[i])
Error(e) == <<"error", e>>

(* What stays of a parser that goes on, and of one that is thrown away.    *)
MutantKept(s) == [s EXCEPT !.o = Null]    (* fails for ever after an error *)
Kept(s) == [s EXCEPT !.fate = "ok", !.o = Null]
Dropped(s) == [Kept(s) EXCEPT !.look = NoLook, !.tok = NoToken]

Reads(s, rest) ==
  /\ stream' = rest
  /\ got' = CASE Going(s) -> Append(got, Form(s))
              [] ~Going(s) /\ s.fate \in {"hang", "abort"} -> got
              [] OTHER -> Append(got, Error(s.fate))

(* One turn of a loop that reads a form and evaluates it.  after: what the *)
(* loop does when an error is caught.                                      *)
Turn(s, rest, after) ==
  /\ mode = "reading" /\ Reads(s, rest)
  /\ \E fails \in BOOLEAN :
       /\ bad' = (bad \/ (Going(s) /\ fails))
       /\ mode' = CASE s.fate \in {"hang", "abort"} -> s.fate
                    [] Going(s) /\ HoldsNull(Form(s)) -> "crash"
                    [] Going(s) /\ ~HoldsNull(Form(s)) /\ ~fails -> "reading"
                    [] OTHER -> after
  /\ UNCHANGED session

(* main(): any error ends the program once the input has ended.            *)
MutantPrompt ==           (* a parser for each form here too *)
  /\ session.source = "prompt"
  /\ \E s \in {FormOf[Dropped(stream)]} : Turn(s, Kept(s), IF s.eof THEN "done" ELSE "reading")
ReadPrompt ==
  /\ session.source = "prompt"
  /\ \E s \in {FormOf[stream]} : Turn(s, Kept(s), IF s.eof THEN "done" ELSE "reading")

(* load-file: END-OF-FILE is caught, any other error is thrown on.         *)
ReadLoad ==
  /\ session.source = "load"
  /\ \E s \in {FormOf[stream]} : Turn(s, Dropped(s), IF s.fate = "END-OF-FILE" THEN "done" ELSE "failed")

(* main(): the end of the file is looked for before each form, and told    *)
(* from an error by feof.                                                  *)
MutantReadBoot ==         (* every error is taken for the end *)
  /\ session.source = "boot"
  /\ \/ ~stream.eof /\ \E s \in {FormOf[stream]} : Turn(s, Dropped(s), "done")
     \/ stream.eof /\ mode = "reading" /\ mode' = "done" /\ UNCHANGED <<session, stream, got, bad>>
ReadBoot ==
  /\ session.source = "boot"
  /\ \/ ~stream.eof /\ \E s \in {FormOf[stream]} : Turn(s, Dropped(s), IF s.eof THEN "done" ELSE "boot failed")
     \/ stream.eof /\ mode = "reading" /\ mode' = "done" /\ UNCHANGED <<session, stream, got, bad>>

(* slurp: READ-CHAR and STR-APPEND until END-OF-FILE.  The string it       *)
(* starts with is a literal of slurp, and let copies it; the program       *)
(* slurps the same file twice.                                             *)
LiteralText == << >>
Slurp ==
  /\ mode = "called" /\ UNCHANGED <<session, got, bad>>
  /\ \/ /\ Len(got) < 2 /\ mode' = "reading"
        /\ stream' = [Opened(session.in) EXCEPT !.text = NewStringCopy(LiteralText)]
     \/ Len(got) = 2 /\ mode' = "done" /\ UNCHANGED stream
ReadChar ==
  /\ session.source = "slurp" /\ mode = "reading" /\ stream.pos < Len(stream.in)
  /\ stream' = [stream EXCEPT !.pos = @ + 1, !.text = StringAppend(@, stream.in[stream.pos + 1])]
  /\ UNCHANGED <<session, got, bad, mode>>
ReadCharAtEnd ==
  /\ session.source = "slurp" /\ mode = "reading" /\ stream.pos = Len(stream.in)
  /\ stream' = [stream EXCEPT !.eof = TRUE]
  /\ got' = Append(got, StrObj(stream.text.chars)) /\ mode' = "called"
  /\ UNCHANGED <<session, bad>>

Stopped == mode \in Ended /\ UNCHANGED vars

Step == ReadPrompt \/ ReadLoad \/ ReadBoot \/ Slurp \/ ReadChar \/ ReadCharAtEnd
Next == Step \/ Stopped
Spec == Init /\ [][Next]_vars
(* One thread reads, and a file is always ready to be read: the loop goes  *)
(* on until it ends.  This is WF_vars(Step), since Step is enabled until   *)
(* mode is in Ended, in a form that spares TLC parsing for ENABLED.        *)
FairSpec == Spec /\ ([]<>(mode \in Ended) \/ []<><<Next>>_vars)

-------------------------------------------------------------------------------
(* Properties.                                                             *)

FormsRead == SelectSeq(got, LAMBDA o : o[1] # "error")

(* Type invariant.                                                         *)
TypeOK ==
  /\ mode \in Ended \cup {"called", "reading"} /\ bad \in BOOLEAN
  /\ stream \in Streams /\ stream.pos <= Len(stream.in)
  /\ \A i \in DOMAIN got : got[i][1] \in
       {"sym", "keyword", "str", "num", "char", "cons", "error"}

(* Forms are read as they were written, in order, and all of them before   *)
(* the loop ends: nothing read ahead by lexer or parser is lost or read    *)
(* twice, whatever separates the forms, also by a parser that lives for    *)
(* one form only (vm_read).                                                *)
ReadsBack ==
  session.exact => /\ IsPrefix(FormsRead, session.forms)
                   /\ mode = "done" => FormsRead = session.forms

(* Whatever was typed before, as long as it opens nothing, the form typed  *)
(* last is read: an error or a stray parenthesis leaves at most a token    *)
(* behind and never takes one too many.                                    *)
LastIsRead ==
  session.source = "prompt" /\ mode = "done"
    => FormsRead # << >> /\ Last(FormsRead) = Last(session.forms)

(* No string is written past the end of its buffer (string_append).        *)
TextFits == Fits(stream.text)

(* main.c:43-50: an error in the bootstrap file stops the program, unless  *)
(* it is the end of the file.                                              *)
BootErrorsSeen == session.source = "boot" /\ bad => mode # "done"

(* Input that is complete is read to its end: the lexer finds the end of   *)
(* every token, no error leaves the parser where it was, and each loop     *)
(* recognises the end of the file.                                         *)
Ends == <>(mode \in {"done", "failed", "boot failed"})

(* lexer.c:84, on match(): "This should never happen. If it does, it is a  *)
(* bug in the VM."                                                         *)
NoBadMatch == mode # "abort"

===============================================================================
