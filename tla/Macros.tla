---------------------------------- MODULE Macros ----------------------------------
(***************************************************************************)
(* The macros of bootstrap.lisp and io.lisp: what their code leaves of its *)
(* parameters, with vm_list, vm_append, vm_splice, vm_backtick and         *)
(* vm_gensym under it, and what they are for, said without expanding       *)
(* anything.                                                               *)
(*                                                                         *)
(* A form is a symbol, a number or a proper list of forms.                 *)
(***************************************************************************)
EXTENDS Expander, Semantics

-------------------------------------------------------------------------------
(* Lists, as the macros take them apart and put them together.             *)

ListOf(items) == IF items = << >> THEN Nil ELSE List(items)
Car(x) == CASE IsCons(x) -> x[2][1] [] x = Nil -> Nil [] OTHER -> Bad
Cdr(x) == CASE IsCons(x) -> ListOf(Tail(x[2])) [] x = Nil -> Nil [] OTHER -> Bad

(* vm_append and vm_splice: what each element of a template adds to the    *)
(* list.  NIL spliced into what is still NIL makes a list of NIL.          *)
Appended(x) == <<x>>
Spliced(x, first) ==
  CASE IsCons(x) -> Items(x)
    [] x = Nil -> IF first THEN <<Nil>> ELSE << >>
    [] OTHER -> <<Bad>>

(* vm_backtick: what the code for a template leaves, where Comma(n) and    *)
(* CommaAt(n) stand for the value of n.                                    *)
Comma(n) == <<"comma", n>>
CommaAt(n) == <<"comma-at", n>>
RECURSIVE Filled(_, _), FilledFrom(_, _, _)
FilledFrom(i, items, value) ==
  IF i > Len(items) THEN << >>
  ELSE (IF items[i][1] = "comma-at" THEN Spliced(value[items[i][2]], i = 1)
        ELSE Appended(Filled(items[i], value)))
       \o FilledFrom(i + 1, items, value)
Filled(template, value) ==
  CASE template[1] = "comma" -> value[template[2]]
    [] template[1] = "list" ->
         LET items == FilledFrom(1, template[2], value)
         IN IF Bad \in ToSet(items) THEN Bad ELSE ListOf(items)
    [] OTHER -> template

-------------------------------------------------------------------------------
(* The macros.                                                             *)

(* The required parameters, and whether a &rest parameter follows.         *)
StandardVariance ==
  ("UNWIND-PROTECT" :> 1) @@
  [PROGN |-> 0, COND |-> 0, OR |-> 0, AND |-> 0, NOT |-> 1, AGAIN |-> 1, SWAP |-> 2]
StandardRest == {"PROGN", "COND", "OR", "AND", "UNWIND-PROTECT"}

Gensym(n) == Sym("gensym-" \o ToString(n))
StandardGensyms ==
  [m \in DOMAIN StandardVariance |-> CASE m = "OR" -> 1 [] m = "UNWIND-PROTECT" -> 2 [] OTHER -> 0]

(* `(name ,@rest), or NIL where there is no rest.                          *)
Again(name, rest) == IF rest = Nil THEN Nil ELSE Filled(List(<<Sym(name), CommaAt("rest")>>), [rest |-> rest])

Progn(body) == Filled(List(<<Sym("LET"), Nil, CommaAt("body")>>), [body |-> body])

Cond(args) ==
  LET pair == Car(args) IN
  Filled(List(<<Sym("IF"), Comma("a"), Comma("b"), Comma("more")>>),
         [a |-> Car(pair), b |-> Car(Cdr(pair)), more |-> Again("COND", Cdr(args))])

MutantOr(args, g) ==      (* no variable: the form is evaluated twice *)
  Filled(List(<<Sym("IF"), Comma("first"), Comma("first"), Comma("more")>>),
         [first |-> Car(args), more |-> Again("OR", Cdr(args))])
Or(args, g) ==
  Filled(List(<<Sym("LET"), List(<<List(<<Comma("sym"), Comma("first")>>)>>),
                List(<<Sym("IF"), Comma("sym"), Comma("sym"), Comma("more")>>)>>),
         [sym |-> Gensym(g), first |-> Car(args), more |-> Again("OR", Cdr(args))])

And(args) ==
  LET rest == Cdr(args) IN
  Filled(List(<<Sym("IF"), Comma("first"), Comma("more")>>),
         [first |-> Car(args),
          more |-> IF Car(Cdr(rest)) = Nil THEN Car(rest) ELSE Again("AND", rest)])

Not(form) == Filled(List(<<Sym("IF"), Comma("form"), Nil, T>>), [form |-> form])

(* io.lisp replaces the unwind-protect of bootstrap.lisp.                  *)
UnwindProtect(body, handler, g) ==
  Filled(List(<<Sym("CATCH"), List(<<Nil, Sym("E")>>),
                List(<<Sym("LET"), List(<<List(<<Comma("ret"), Comma("body")>>)>>),
                       CommaAt("handler"), Comma("ret")>>),
                List(<<Sym("PROGN"), CommaAt("handler"), List(<<Sym("ERROR"), Sym("E")>>)>>)>>),
         [ret |-> Gensym(g), body |-> body, handler |-> handler])

(* (defmacro again (x) `(again ,x)) and (defmacro swap (x y) `(progn ,y    *)
(* ,x)), as a program might define them.                                   *)
ExpandAgain(x) == Filled(List(<<Sym("AGAIN"), Comma("x")>>), [x |-> x])
Swap(x, y) == Filled(List(<<Sym("PROGN"), Comma("y"), Comma("x")>>), [x |-> x, y |-> y])

(* Running the code of a macro; p: its parameters.                         *)
StandardExpansion(m, p, g) ==
  CASE m = "PROGN" -> Progn(p[1])
    [] m = "COND" -> Cond(p[1])
    [] m = "OR" -> Or(p[1], g)
    [] m = "AND" -> And(p[1])
    [] m = "NOT" -> Not(p[1])
    [] m = "UNWIND-PROTECT" -> UnwindProtect(p[1], p[2], g)
    [] m = "AGAIN" -> ExpandAgain(p[1])
    [] m = "SWAP" -> Swap(p[1], p[2])

-------------------------------------------------------------------------------
(* From the expansion on: the dispatch of compile_bytecode and             *)
(* compile_cons to the special forms of Compiler.                          *)
RECURSIVE FormOf(_)
Forms(items) == [i \in DOMAIN items |-> FormOf(items[i])]
FormOf(x) ==
  IF ~IsCons(x) THEN IF x[1] = "sym" THEN <<"var", x[2]>> ELSE <<"quote", x>>
  ELSE LET head == x[2][1]
           arg(i) == IF i < Len(x[2]) THEN x[2][i + 1] ELSE Nil
           from(i) == Forms(SubSeq(x[2], i + 1, Len(x[2])))
       IN CASE head = Sym("LET") ->
                 <<"let", [i \in DOMAIN Items(arg(1)) |->
                             <<Car(Items(arg(1))[i])[2], FormOf(Car(Cdr(Items(arg(1))[i])))>>], from(2)>>
            [] head = Sym("IF") -> <<"if", FormOf(arg(1)), FormOf(arg(2)), FormOf(arg(3))>>
            [] head = Sym("CATCH") ->
                 <<"catch", FormOf(Car(arg(1))), Car(Cdr(arg(1)))[2], FormOf(arg(2)), FormOf(arg(3))>>
            [] head = Sym("SET") -> <<"set", arg(1)[2], FormOf(arg(2))>>
            [] OTHER -> <<"native", head[2], from(1)>>

-------------------------------------------------------------------------------
(* What the macros mean, said without expanding anything.                  *)

RECURSIVE Means(_, _), MeansOr(_, _), MeansAnd(_, _), MeansCond(_, _)

MeansOr(s, forms) ==
  IF forms = << >> THEN Give(s, Nil)
  ELSE LET t == Means(s, Head(forms)) IN IF t.v # Nil THEN t ELSE MeansOr(t, Tail(forms))
MeansAnd(s, forms) ==
  LET t == Means(s, Head(forms)) IN IF Len(forms) = 1 \/ t.v = Nil THEN t ELSE MeansAnd(t, Tail(forms))
MeansCond(s, pairs) ==
  IF pairs = << >> THEN Give(s, Nil)
  ELSE LET t == Means(s, Head(pairs)[2][1])
       IN IF t.v # Nil THEN Means(t, Head(pairs)[2][2]) ELSE MeansCond(t, Tail(pairs))

(* The handlers run once, whether the body signals an error or not; an     *)
(* error goes on afterwards.                                               *)
MeansUnwindProtect(s, body, handlers) ==
  LET r == Means(s, body)
      h == FoldLeft(Means, [r EXCEPT !.x = Quiet], handlers)
  IN [h EXCEPT !.v = r.v, !.x = r.x]

MeansLet(s, binds, body) ==
  LET bound == FoldLeft(LAMBDA t, b : Assign(Means(t, b[2][2]), b[2][1][2]), s, binds)
  IN Leave(s, FoldLeft(Means, bound, body), {binds[i][2][1][2] : i \in DOMAIN binds})

Means(s, x) ==
  IF s.x # Quiet THEN s
  ELSE IF ~IsCons(x) THEN Eval(s, FormOf(x))
  ELSE LET head == x[2][1][2]
           args == Tail(x[2])
       IN CASE head = "PROGN" -> FoldLeft(Means, s, args)
            [] head = "OR" -> MeansOr(s, args)
            [] head = "AND" -> MeansAnd(s, args)
            [] head = "COND" -> MeansCond(s, args)
            [] head = "NOT" -> LET t == Means(s, args[1]) IN Give(t, IF t.v = Nil THEN T ELSE Nil)
            [] head = "UNWIND-PROTECT" -> MeansUnwindProtect(s, args[1], Tail(args))
            [] head = "SWAP" -> Means(Means(s, args[2]), args[1])
            [] head = "IF" -> LET t == Means(s, args[1])
                              IN IF t.x # Quiet THEN t ELSE Means(t, args[IF t.v = Nil THEN 3 ELSE 2])
            [] head = "LET" -> MeansLet(s, Items(args[1]), Tail(args))
            [] OTHER -> LET t == FoldLeft(Means, s, args)   \* of one argument
                        IN IF t.x = Quiet THEN Native1(t, head, <<t.v>>) ELSE t

Outcome(s) == <<s.x, IF s.x = Quiet THEN s.v ELSE Nil, s.out>>

-------------------------------------------------------------------------------
(* Properties.                                                             *)

(* The expansion does what the macros are for: each form is evaluated at   *)
(* most once, in order, and only if it is called for; the variables of the *)
(* program keep their values; errors get out.                              *)
Meaning ==
  status # "expanding" /\ input \notin Improper =>
    /\ status = "done"
    /\ Outcome(Eval(Blank, FormOf(Form))) = Outcome(Means(Blank, input))

===============================================================================
