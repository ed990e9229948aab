------------------------------- MODULE Semantics -------------------------------
(***************************************************************************)
(* What a form means, with no compiler, stack or trap in sight: a direct   *)
(* evaluator over environments.  It says what the special forms of         *)
(* compiler.c promise and is the yardstick for Compiler and Vm together.   *)
(*                                                                         *)
(* Variables are lexical, or global if no scope has them; a closure keeps  *)
(* the environment it was made in, a function is resolved when the form    *)
(* that calls it is compiled, and an error or a go abandons evaluation up  *)
(* to the form that wants it.                                              *)
(***************************************************************************)
EXTENDS Compiler

(* Evaluation so far.  env: the variables in scope; globals: the others;   *)
(* fns: the global functions; known: the functions the running code was compiled against;  *)
(* defs: every function made so far; v: the last value; x: what is being   *)
(* thrown; out: what was printed.                                          *)
Quiet == <<"quiet">>
Blank == [env |-> NoVars, globals |-> NoVars, fns |-> [f \in FnNames |-> Unbound],
          known |-> [f \in FnNames |-> Unbound], defs |-> << >>,
          v |-> Nil, x |-> Quiet, out |-> << >>]

Give(s, v) == IF s.x = Quiet THEN [s EXCEPT !.v = v] ELSE s
Throw(s, e) == IF s.x = Quiet THEN [s EXCEPT !.x = <<"error", e>>] ELSE s
Assign(s, name) == IF s.x = Quiet THEN [s EXCEPT !.env[name] = s.v] ELSE s
ValueOf(s, name) == CASE name \notin Syms -> Sym(name)
                      [] name \in Syms /\ s.env[name] # Unbound -> s.env[name]
                      [] OTHER -> s.globals[name]
MeaningOfSet(s, name) ==
  IF s.x = Quiet /\ s.env[name] = Unbound THEN [s EXCEPT !.globals[name] = s.v] ELSE Assign(s, name)

(* After a scope: the names it bound mean what they meant before.          *)
Leave(s, t, names) ==
  [t EXCEPT !.env = [n \in Syms |-> IF n \in names THEN s.env[n] ELSE t.env[n]]]

RECURSIVE Eval(_, _)

InOrder(s, forms) == FoldLeft(Eval, s, forms)

(* The state after evaluating the forms, and their values.                 *)
Values(s, forms) ==
  FoldLeft(LAMBDA r, f : LET t == Eval(r.s, f) IN [s |-> t, vs |-> Append(r.vs, t.v)],
           [s |-> s, vs |-> << >>], forms)

MeaningOfLet(s, binds, body) ==
  LET bound == FoldLeft(LAMBDA t, b : Assign(Eval(t, b[2]), b[1]), s, binds)
  IN Leave(s, InOrder(bound, body), {binds[i][1] : i \in DOMAIN binds})

MeaningOfIf(s, cond, yes, no) ==
  LET c == Eval(s, cond) IN Eval(c, IF c.v = Nil THEN no ELSE yes)

MeaningOfCatch(s, type, name, wrapped, handler) ==
  LET t == Eval(s, type)
      r == Eval(t, wrapped)
      caught == t.x = Quiet /\ r.x[1] = "error" /\ t.v \in {Nil, ErrorName(r.x[2])}
  IN IF ~caught THEN r
     ELSE Leave(s, Eval(Assign([r EXCEPT !.v = r.x[2], !.x = Quiet], name), handler), {name})

RECURSIVE FromItem(_, _, _)
FromItem(s, items, i) ==
  IF i > Len(items) THEN Give(s, Nil)
  ELSE LET t == IF items[i][1] = "tag" THEN s ELSE Eval(s, items[i])
           to == {j \in DOMAIN items : t.x[1] = "go" /\ items[j] = <<"tag", t.x[2]>>}
       IN CASE t.x = Quiet -> FromItem(t, items, i + 1)
            [] to # {} -> FromItem([t EXCEPT !.x = Quiet], items, Max(to) + 1)
            [] OTHER -> t

(* A function made here; named: the global names that now mean it.         *)
Define(s, named, params, rest, body) ==
  LET k == Len(s.defs) + 1
      fns == [f \in FnNames |-> IF f \in named THEN CodeRef(k) ELSE s.fns[f]]
  IN [s EXCEPT !.fns = fns,
               !.defs = Append(@, [params |-> params, rest |-> rest, body |-> body,
                                   env |-> s.env, known |-> fns]),
               !.v = IF named = {} THEN CodeRef(k) ELSE Nil]

Apply(s, fn, args) ==
  LET d == s.defs[fn[2]]
      fixed == Len(d.params) - (IF d.rest THEN 1 ELSE 0)
      more == SubSeq(args, fixed + 1, Len(args))
      arg(p) == LET i == CHOOSE j \in DOMAIN d.params : d.params[j] = p
                IN IF i <= fixed THEN args[i] ELSE IF more = << >> THEN Nil ELSE List(more)
      inside == [s EXCEPT !.known = d.known,
                          !.env = [n \in Syms |-> IF n \in ToSet(d.params) THEN arg(n) ELSE d.env[n]]]
  IN IF s.x # Quiet THEN s
     ELSE IF fn[1] # "code" \/ Len(args) < fixed \/ (Len(args) > fixed /\ ~d.rest)
       THEN Throw(s, SigError)
       ELSE [InOrder(inside, d.body) EXCEPT !.env = s.env, !.known = s.known]

(* The whole number of times b goes into a, whatever their signs.          *)
Divided(a, b) ==
  CHOOSE q \in -Abs(a) .. Abs(a) :
    q * b * a >= 0 /\ Abs(q * b) <= Abs(a) /\ Abs(a) < Abs(q * b) + Abs(b)
Calculated(s, op, vs) ==
  LET n == Len(vs)
      sum[i \in 0 .. n] == IF i = 0 THEN 0 ELSE sum[i - 1] + vs[i][2]
      product[i \in 0 .. n] == IF i = 0 THEN 1 ELSE product[i - 1] * vs[i][2]
      quotient[i \in 1 .. n] == IF i = 1 THEN vs[1][2] ELSE Divided(quotient[i - 1], vs[i][2])
  IN CASE \E i \in DOMAIN vs : vs[i][1] # "num" -> Throw(s, TypeError)
       [] op = "add" -> Give(s, Num(sum[n]))
       [] op = "multiply" -> Give(s, Num(product[n]))
       [] op = "divide" /\ n = 0 -> Throw(s, SigError)
       [] op = "divide" /\ n > 0 -> Give(s, Num(quotient[n]))
       [] op = "subtract" -> Give(s, Num(2 * vs[1][2] - sum[n]))
       [] op = "num_eq" -> Give(s, IF ToSet(vs) = {vs[1]} THEN T ELSE Nil)

Native1(s, f, vs) ==
  CASE f = "PRINT" -> [Give(s, Nil) EXCEPT !.out = Append(@, <<"value", vs[1]>>)]
    [] f = "ERROR" -> Throw(s, vs[1])
    [] f = "LIST" -> Give(s, List(vs))
    [] f \in {">", "<"} ->
         IF \E i \in DOMAIN vs : vs[i][1] # "num" THEN Throw(s, TypeError)
         ELSE LET a == vs[1][2]
                  b == vs[2][2]
              IN Give(s, IF (f = ">" /\ a > b) \/ (f = "<" /\ a < b) THEN T ELSE Nil)
    [] f = "BIND" -> [Give(s, vs[2]) EXCEPT !.globals[vs[1][2]] = vs[2]]
    [] f = "FUNCTION" -> Give(s, IF s.fns[vs[1][2]] = Unbound THEN Nil ELSE s.fns[vs[1][2]])
    [] f = "EVAL" ->
         LET inside == [s EXCEPT !.env = NoVars, !.known = s.fns]
         IN [Eval(inside, vs[1][2]) EXCEPT !.env = s.env, !.known = s.known]

WithValues(s, forms, Use(_, _)) ==
  LET r == Values(s, forms) IN IF r.s.x = Quiet THEN Use(r.s, r.vs) ELSE r.s

Eval(s, o) ==
  IF s.x # Quiet THEN s ELSE
  CASE o[1] = "quote"   -> Give(s, o[2])
    [] o[1] = "var"     -> Give(s, ValueOf(s, o[2]))
    [] o[1] = "let"     -> MeaningOfLet(s, o[2], o[3])
    [] o[1] = "if"      -> MeaningOfIf(s, o[2], o[3], o[4])
    [] o[1] = "catch"   -> MeaningOfCatch(s, o[2], o[3], o[4], o[5])
    [] o[1] = "tagbody" -> FromItem(s, o[2], 1)
    [] o[1] = "go"      -> [s EXCEPT !.x = <<"go", o[2]>>]
    [] o[1] = "set"     -> Give(MeaningOfSet(Eval(s, o[3]), o[2]), Nil)
    [] o[1] = "fn"      -> Define(s, {o[2]}, o[3], o[4], o[5])
    [] o[1] = "lambda"  -> Define(s, {}, o[2], o[3], o[4])
    [] o[1] = "funcall" -> WithValues(s, o[3], LAMBDA t, vs :
                             LET f == Eval(t, o[2]) IN Apply(f, f.v, vs))
    [] o[1] = "arith"   -> WithValues(s, o[3], LAMBDA t, vs : Calculated(t, o[2], vs))
    [] o[1] = "call"    -> WithValues(s, o[3], LAMBDA t, vs : Apply(t, s.known[o[2]], vs))
    [] o[1] = "native"  -> WithValues(s, o[3], LAMBDA t, vs : Native1(t, o[2], vs))

(* A session at the prompt: each form is evaluated on its own, its value   *)
(* or its error printed, and the end of the input is an error too.         *)
Answer(s, o) ==
  LET r == Eval([s EXCEPT !.env = NoVars, !.known = s.fns, !.x = Quiet], o)
      a == IF r.x = Quiet THEN <<"value", r.v>> ELSE r.x
  IN [r EXCEPT !.out = Append(@, a)]
Transcript(session) ==
  LET out == FoldLeft(Answer, Blank, session).out
  IN [i \in 1 .. Len(out) + 1 |->
        IF i <= Len(out) THEN <<out[i][1], Shown(out[i][2])>> ELSE <<"error", Sym("END-OF-FILE")>>]

===============================================================================
