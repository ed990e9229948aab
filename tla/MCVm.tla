---------------------------------- MODULE MCVm ----------------------------------
(***************************************************************************)
(* Programs for TLC.  They are built by wrapping: a leaf in up to two      *)
(* special forms, each with something after the hole that shows whether    *)
(* the hole left the stacks as it should.  A program p is a record with    *)
(* what decides where it may stand:                                        *)
(*   form                                                                  *)
(*   uses    the variables it takes from outside                           *)
(*   far     those of them it uses inside a lambda                         *)
(*   catches it has a catch of its own chunk                               *)
(*   makes   it makes a lambda in its own chunk                            *)
(*   jumps   it has a tagbody of its own chunk                             *)
(* Out of the grammar, because the compiler is known to be wrong there     *)
(* (README, limits of the compiler): a lambda before a use of a variable,  *)
(* a catch in the wrapped form of a catch or inside an eval's caller's     *)
(* locals, a tagbody in a tagbody, a variable used two lambdas down.       *)
(***************************************************************************)
EXTENDS Vm

Quote(v) == <<"quote", v>>
Lit(n) == Quote(Num(n))
Var(s) == <<"var", s>>
NilForm == Var("NIL")
Show(f) == <<"native", "PRINT", <<f>>>>
Err(s) == <<"native", "ERROR", <<Quote(Sym(s))>>>>
ErrMsg == <<"native", "ERROR", <<<<"native", "LIST", <<Quote(Sym("foo")), Lit(1)>>>>>>>>
Add(f, g) == <<"arith", "add", <<f, g>>>>
Equal(f, g) == <<"arith", "num_eq", <<f, g>>>>
BindGlobal(s, f) == <<"native", "BIND", <<Quote(Sym(s)), f>>>>
FunctionOf(f) == <<"native", "FUNCTION", <<Quote(Sym(f))>>>>
Let1(s, f, body) == <<"let", <<<<s, f>>>>, body>>
Progn(body) == <<"let", << >>, body>>

Leaf(f, uses) == [form |-> f, uses |-> uses, far |-> {}, catches |-> FALSE,
                  makes |-> FALSE, jumps |-> FALSE]
Leaves(vs) == {Leaf(Lit(1), {}), Leaf(NilForm, {}), Leaf(Err("foo"), {}), Leaf(ErrMsg, {}),
               Leaf(Add(Quote(Sym("foo")), Lit(1)), {}), Leaf(<<"funcall", Lit(1), <<>>>>, {})}
              \cup {Leaf(Var(v), {v}) : v \in vs}

(* The wrappers.  x, e: the variables this level binds; l: its label.      *)
Without(p, x) == [p EXCEPT !.uses = @ \ {x}, !.far = @ \ {x}]
In(p, f) == [p EXCEPT !.form = f]

LetBody(p, x) == {Without(In(p, Let1(x, Lit(3), <<p.form>>)), x)}
LetValue(p, x) ==
  IF p.makes \/ x \in p.uses THEN {}
  ELSE {In(p, Let1(x, p.form, <<Show(Lit(4)), Var(x)>>))}
LetAfter(p, x) ==
  IF p.makes THEN {}
  ELSE {Without(In(p, <<"let", <<<<x, Lit(3)>>>>, <<p.form, Show(Var(x))>>>>), x)}
IfTest(p) == IF p.makes THEN {} ELSE {In(p, <<"if", p.form, Lit(5), Lit(6)>>)}
IfThen(p) == {In([p EXCEPT !.makes = FALSE], <<"if", Lit(5), p.form, Lit(6)>>)}
IfElse(p) == {In(p, <<"if", NilForm, Lit(5), p.form>>)}
Sum1(p, x) ==
  IF p.makes \/ x \in p.uses THEN {}
  ELSE {In(p, Let1(x, Lit(3), <<Add(p.form, Var(x))>>)), In(p, Add(Lit(2), p.form))}
SetIt(p, x) ==
  IF p.makes THEN {}
  ELSE {Without(In(p, Let1(x, Lit(3), <<<<"set", x, p.form>>, Var(x)>>)), x)}
CatchIt(p, x, e) ==
  IF p.catches THEN {}
  ELSE {[p EXCEPT !.form = Let1(x, Lit(3), <<<<"catch", type, e, p.form, Add(Lit(7), Var(x))>>>>),
                  !.uses = @ \ {x}, !.far = @ \ {x}, !.catches = TRUE, !.makes = FALSE]
        : type \in {NilForm, Quote(Sym("foo")), Quote(Sym("bar"))}}
Handle(p, e) ==
  {[Without(p, e) EXCEPT !.form = <<"catch", Quote(Sym("foo")), e, Err("foo"), p.form>>,
                         !.catches = TRUE]}
Lambda1(p, x) ==
  IF p.far # {} THEN {}
  ELSE {[Without(p, x) EXCEPT !.form = <<"funcall", <<"lambda", <<x>>, FALSE, <<p.form>>>>, <<Lit(3)>>>>,
                              !.far = p.uses \ {x}, !.catches = FALSE, !.makes = TRUE,
                              !.jumps = FALSE]}
(* Twice around a loop.                                                    *)
LoopIt(p, x, l) ==
  IF p.jumps \/ x \in p.uses THEN {}
  ELSE {[p EXCEPT !.form =
           Let1(x, Lit(0), <<<<"tagbody", <<<<"tag", l>>, p.form, <<"set", x, Add(Var(x), Lit(1))>>,
                                          <<"if", Equal(Var(x), Lit(2)), NilForm, <<"go", l>>>>>>>>,
                             Var(x)>>),
           !.jumps = TRUE, !.makes = FALSE]}
EvalIt(p) ==
  IF p.makes \/ p.uses # {} THEN {}
  ELSE {In([p EXCEPT !.catches = FALSE, !.jumps = FALSE],
           <<"native", "EVAL", <<Quote(<<"form", p.form>>)>>>>)}

Wrapped(p, x, e, l) ==
  LetBody(p, x) \cup LetValue(p, x) \cup LetAfter(p, x) \cup IfTest(p) \cup IfThen(p) \cup IfElse(p)
  \cup Sum1(p, x) \cup SetIt(p, x) \cup CatchIt(p, x, e) \cup Handle(p, e)
  \cup Lambda1(p, x) \cup LoopIt(p, x, l) \cup EvalIt(p)

Forms(ps, scope) == {p.form : p \in {q \in ps : q.uses \subseteq scope}}

OneDeep == UNION {Wrapped(p, "x", "e", "A") : p \in Leaves({"x", "e", "y", "d"})}
TwoDeep == UNION {Wrapped(p, "y", "d", "B") : p \in OneDeep}

(* What is typed last, to see that nothing is left of what came before.    *)
After == Let1("x", Lit(8), <<Var("x")>>)

FnForm(name, params, rest, body) == <<"fn", name, params, rest, body>>
Good == FnForm("F", <<"x">>, FALSE, <<Var("x")>>)
CallF(args) == <<"call", "F", args>>
CallG(args) == <<"call", "G", args>>

Expressions == {<<f, After>> : f \in Forms(OneDeep \cup TwoDeep, {})}

(* The body of a function, alone and closed over a variable.               *)
Functions1 ==
  {<<FnForm("F", <<"y">>, FALSE, <<f>>), CallF(<<Lit(1)>>), After>> : f \in Forms(OneDeep, {"y"})}
Closures ==
  {<<Let1("d", Lit(2), <<FnForm("F", <<"y">>, FALSE, <<f>>)>>), CallF(<<Lit(1)>>)>>
   : f \in Forms(OneDeep, {"y", "d"})}

(* (do ((x 0 (+ x 1))) ((= x 3) 7)), (or nil 5), and (unwind-protect f     *)
(* (print 5)) as bootstrap.lisp expands them.                              *)
Not(f) == <<"if", f, NilForm, Var("T")>>
DoLoop ==
  Let1("x", Lit(0),
    <<<<"tagbody", <<<<"go", "C">>, <<"tag", "B">>, <<"set", "x", Add(Var("x"), Lit(1))>>,
                     <<"tag", "C">>, <<"if", Not(Equal(Var("x"), Lit(3))), <<"go", "B">>, NilForm>>>>>>,
      Lit(7)>>)
OrForm == Let1("x", NilForm, <<<<"if", Var("x"), Var("x"), Let1("y", Lit(5), <<Var("y")>>)>>>>)
Protected(f) ==
  Progn(<<<<"catch", NilForm, "e", f, Progn(<<Show(Lit(5)), <<"native", "ERROR", <<Var("e")>>>>>>)>>,
          Show(Lit(5))>>)

(* Recursion, &rest, and callers that keep the function they were compiled *)
(* against.                                                                *)
CountDown ==
  FnForm("F", <<"x">>, FALSE,
    <<<<"if", Equal(Var("x"), Lit(0)), Lit(0),
        Add(Var("x"), CallF(<<<<"arith", "subtract", <<Var("x"), Lit(1)>>>>>>))>>>>)
Handwritten ==
  { <<DoLoop, OrForm, After>>, <<Protected(Err("foo")), Protected(Lit(1))>>,
    <<CountDown, CallF(<<Lit(3)>>)>>,
    <<FnForm("F", <<"x", "y">>, TRUE, <<Var("y")>>), CallF(<<Lit(1), Lit(2)>>), After>>,
    <<FnForm("F", <<>>, FALSE, <<Lit(1)>>), FnForm("G", <<>>, FALSE, <<CallF(<<>>)>>),
      FnForm("F", <<>>, FALSE, <<Lit(2)>>), CallG(<<>>), CallF(<<>>)>> }

(* Every operation on numbers on both sides of zero, with a local variable *)
(* before and after it.  num_eq has two operands at most (Wild has three). *)
Minus7 == <<"arith", "subtract", <<Lit(3), Lit(10)>>>>
NumbersUpTo(n) == UNION {[1 .. k -> {Minus7, Lit(2), Lit(3)}] : k \in 1 .. n}
Operations ==
  {<<"arith", op, args>> : op \in {"add", "subtract", "multiply", "divide"}, args \in NumbersUpTo(3)}
  \cup {<<"arith", "num_eq", args>> : args \in NumbersUpTo(2)}
  \cup {<<"native", op, args>> : op \in {">", "<"}, args \in [1 .. 2 -> {Minus7, Lit(2), NilForm}]}
  \cup {<<"arith", op, << >>>> : op \in {"add", "multiply", "divide"}}
  \cup {<<"arith", op, <<Lit(2), NilForm>>>> : op \in {"multiply", "divide"}}
Calculations == {<<Let1("x", Lit(3), <<Add(Var("x"), Lit(1)), Show(f), Var("x")>>), After>> : f \in Operations}

(* A global variable, used, set and bound anew, by itself, in functions,   *)
(* behind a parameter of the same name and in a lambda that is returned.   *)
Globals ==
  {<<BindGlobal("x", Lit(5)), f, BindGlobal("x", Lit(9)), Var("x"), f>> :
     f \in {Var("x"), Add(Var("x"), Lit(1)), <<"set", "x", Lit(6)>>,
            <<"if", Var("x"), Show(Var("x")), Lit(6)>>,
            <<"catch", NilForm, "e", Progn(<<<<"set", "x", Lit(6)>>, Err("foo")>>), Var("x")>>,
            Let1("y", Var("x"), <<<<"set", "x", Add(Var("y"), Lit(1))>>, Var("y")>>),
            <<"funcall", <<"lambda", <<"y">>, FALSE, <<Add(Var("x"), Var("y"))>>>>, <<Lit(3)>>>>,
            <<"native", "EVAL", <<Quote(<<"form", <<"set", "x", Lit(6)>>>>)>>>>}}
  \cup {<<BindGlobal("x", Lit(5)), FnForm("F", <<"y">>, FALSE, <<Add(Var("x"), Var("y"))>>), CallF(<<Lit(1)>>),
          BindGlobal("x", Lit(9)), CallF(<<Lit(1)>>)>>,
        <<BindGlobal("x", Lit(5)), FnForm("F", <<"x">>, FALSE, <<<<"set", "x", Lit(6)>>, Var("x")>>),
          CallF(<<Lit(1)>>), Var("x")>>,
        <<FunctionOf("F"), Good, <<"funcall", FunctionOf("F"), <<Lit(2)>>>>, FunctionOf("F")>>}

Programs == Expressions \cup Functions1 \cup Closures \cup Handwritten \cup Calculations \cup Globals

(* Sessions with forms that do not compile: a variable bound nowhere, the  *)
(* wrong number of arguments, a function that is not there (any more).     *)
Unresolved == {<<p.form, After>> : p \in {q \in OneDeep : "d" \in q.uses}}
Bad == FnForm("F", <<"x">>, FALSE, <<Var("d")>>)
Rough ==
  Unresolved
  \cup {<<Good, Bad, CallF(<<Lit(1)>>), Good, CallF(<<Lit(1)>>)>>,
        <<Good, CallF(<<>>), CallF(<<Lit(1), Lit(2)>>), CallG(<<>>), After>>,
        <<FnForm("G", <<>>, FALSE, <<Bad>>), Good, CallG(<<>>), CallF(<<Lit(1)>>)>>,
        <<<<"native", "PRINT", <<Lit(1), Lit(2)>>>>, <<"native", "ERROR", <<>>>>, After>>,
        <<<<"native", "<", <<Lit(1)>>>>, <<"native", "BIND", <<Lit(1)>>>>, <<"native", "FUNCTION", << >>>>, After>>,
        <<BindGlobal("x", Lit(5)), FnForm("F", <<"y">>, FALSE, <<<<"set", "x", Var("d")>>>>), Var("x")>>,
        <<<<"catch", NilForm, "e", Bad, Lit(7)>>, CallF(<<Lit(1)>>), After>>}

(* Recursion without end, from the prompt, under a catch, through a        *)
(* closure's context and a loop's; and loops that end.                     *)
Endless == FnForm("F", <<"x">>, FALSE, <<CallF(<<Var("x")>>)>>)
Nested == FnForm("F", <<"x">>, FALSE, <<Add(Lit(1), Let1("y", Lit(2), <<CallF(<<Var("y")>>)>>))>>)
Looping == FnForm("F", <<"x">>, FALSE, <<<<"tagbody", <<CallF(<<Var("x")>>)>>>>>>)
Deep ==
  {<<def, f, After>> :
     def \in {Endless, Nested, Looping},
     f \in {CallF(<<Lit(1)>>), DoLoop,
            <<"catch", Quote(Sym("STACK-OVERFLOW")), "e", CallF(<<Lit(1)>>), Var("e")>>,
            Protected(CallF(<<Lit(1)>>)), <<"native", "EVAL", <<Quote(<<"form", CallF(<<Lit(1)>>)>>)>>>>}}

RoughAndDeep == Rough \cup Deep

(* The finally form of unwind-protect prints 5; the body has a catch of    *)
(* its own before the error.                                               *)
Unwinding ==
  {<<Protected(Progn(<<<<"catch", NilForm, "d", Lit(1), Lit(2)>>, Err("foo")>>))>>,
   <<Protected(Err("foo"))>>}
FinallyRuns == mode = Done => <<"value", Num(5)>> \in ToSet(answers)

(* Forms for which the compiler is wrong.  Each does to the stacks what the *)
(* grammar above keeps out: variables addressed after a lambda, a stale    *)
(* variable closed over, jumps into a tagbody, out of a catch and out of a *)
(* let, a label that is nowhere, &rest calls with other than one extra     *)
(* argument, a function two lambdas down, more catches than traps,         *)
(* operations without their operands or by zero, a global variable that a  *)
(* function or a loop sets, one that a let hides, and an = of three.  And  *)
(* functions of every kind, whose chunks may have been left a wrong flag.  *)
Id == <<"lambda", <<"d">>, FALSE, <<Var("d")>>>>
Tags(items) == <<"tagbody", items>>
Label1 == <<"tag", "A">>
GoA == <<"go", "A">>
Rest == FnForm("F", <<"x", "y">>, TRUE, <<Var("x")>>)
CountTo2(f, g) == <<<<"set", "x", Add(Var("x"), Lit(1))>>, <<"if", Equal(Var("x"), Lit(2)), f, g>>>>
Wild ==
  { <<<<"let", <<<<"y", Lit(1)>>, <<"x", Id>>>>, <<Var("y")>>>>, After>>,
    <<After, Id, After>>,
    <<Tags(<<Tags(<<Label1, Lit(1)>>), GoA>>)>>,
    <<Let1("x", Lit(0), <<Tags(<<<<"catch", NilForm, "e",
        Progn(<<Tags(<<Label1, Lit(1)>>)>> \o CountTo2(Err("foo"), GoA)), Lit(7)>>>>)>>)>>,
    <<Tags(<<<<"catch", NilForm, "e", GoA, Lit(7)>>, Label1>>), Err("foo")>>,
    <<Progn(<<GoA, Tags(<<Label1>>)>>)>>,
    <<Let1("x", Lit(0), <<Tags(<<Label1, Let1("y", Lit(1), CountTo2(NilForm, GoA))>>), Var("x")>>), After>>,
    <<Show(Lit(1)), GoA>>,
    <<Rest, CallF(<<Lit(1)>>), After>>,
    <<Rest, Let1("d", Lit(1), <<CallF(<<Lit(1), Lit(2), Lit(3)>>)>>)>>,
    <<FnForm("F", <<"x">>, FALSE, <<<<"catch", Quote(Sym("bar")), "e", CallF(<<Lit(1)>>), Lit(2)>>>>),
      CallF(<<Lit(1)>>)>>,
    <<FnForm("F", <<"x">>, FALSE, <<<<"lambda", <<"y">>, FALSE,
        <<<<"lambda", <<"d">>, FALSE, <<Add(Var("x"), Var("d"))>>>>>>>>>>),
      <<"funcall", <<"funcall", CallF(<<Lit(1)>>), <<Lit(2)>>>>, <<Lit(3)>>>>, After>>,
    <<BindGlobal("x", Lit(5)), FnForm("F", <<"y">>, FALSE, <<<<"set", "x", Var("y")>>, Var("x")>>),
      CallF(<<Lit(1)>>), Tags(<<<<"set", "x", Lit(2)>>>>), Var("x"), CallF(<<Lit(1)>>)>>,
    <<BindGlobal("x", Lit(5)), After, Var("x"), Let1("y", Lit(1), <<Var("x")>>)>> }
  \cup {<<Let1("x", Lit(3), <<f, Var("x")>>), After>> :
          f \in {<<"native", ">", args>> : args \in {<< >>, <<Lit(2)>>, <<Lit(1), Lit(2), Lit(3)>>}}
                \cup {<<"arith", op, << >>>> : op \in {"subtract", "num_eq"}}
                \cup {<<"arith", "divide", <<Lit(1), Lit(0)>>>>}}
  \cup {<<f, Let1("x", Lit(3), <<Add(Var("x"), Lit(1)), Show(f), Var("x")>>), After>> :
          f \in {<<"arith", "num_eq", args>> : args \in [1 .. 3 -> {Lit(2), Lit(3), NilForm}]}}
  \cup {<<Good, CallF(args), After>> : args \in {<< >>, <<Lit(1)>>, <<Lit(1), Lit(2)>>}}
  \cup {<<CountDown, CallF(<<Lit(2)>>), After>>,
        <<FnForm("F", <<>>, FALSE, <<Lit(1)>>), Let1("x", Lit(3), <<CallF(<<>>), Var("x")>>), After>>}

MCSyms == {"x", "y", "e", "d"}
===============================================================================
