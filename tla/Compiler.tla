------------------------------- MODULE Compiler -------------------------------
(***************************************************************************)
(* compiler.c: one pass from a macro-expanded form to threaded code.       *)
(*                                                                         *)
(* Local variables live on the VM stack.  The compiler remembers the level *)
(* at which a variable was pushed (a STACKOFFSET object bound to its       *)
(* symbol in the top context) and addresses the variable by its distance   *)
(* from the top.  Nothing at run time checks the level: code is right only *)
(* as long as stacklevel is.                                               *)
(*                                                                         *)
(* A form is a tuple tagged with its special form; what the reader and the *)
(* macro expander do to get there is left out, as are strings, characters  *)
(* and backquote.                                                          *)
(***************************************************************************)
EXTENDS Emitter

Resolve(c, s) ==
  LET b == LookupVar(c.scopes, s) IN
  CASE s \in {"NIL", "T"} -> Push(c, Sym(s))
    [] s \notin {"NIL", "T"} /\ b = Unbound -> Fail(c)
    [] IsOffset(b) -> Emit(c, "push_from_stack", c.level - b[2], 1)
    [] OTHER -> Emit(Push(c, Sym(s)), "resolve_sym", 0, 0)

MutantSetOff(c, s) ==     (* stores one slot too low *)
  LET b == LookupVar(c.scopes, s) IN
  CASE b = Unbound -> Fail(c)
    [] IsOffset(b) -> Emit(c, "pop_to_stack", c.level - b[2] + 1, -1)
    [] OTHER -> BindVar(Push(c, Sym(s)))
MutantSetLost(c, s) ==    (* pops the value and stores it nowhere *)
  Pop(c)
SetVar(c, s) ==
  LET b == LookupVar(c.scopes, s) IN
  CASE b = Unbound -> Fail(c)
    [] IsOffset(b) -> Emit(c, "pop_to_stack", c.level - b[2], -1)
    [] OTHER -> BindVar(Push(c, Sym(s)))

-------------------------------------------------------------------------------
(* Forms.                                                                  *)

RECURSIVE Compile(_, _)

Args(c, forms) == FoldLeft(Compile, c, forms)

(* A body: every result but the last is popped.                            *)
Body(c, forms) ==
  FoldLeftDomain(LAMBDA d, i : Compile(IF i > 1 THEN Pop(d) ELSE d, forms[i]), c, forms)

(* vm_let: the variables are bound in the current context and stay bound.  *)
MutantLet(c, binds, body) ==     (* the variables stay on the stack *)
  LET bound == FoldLeft(LAMBDA d, b : Bind(Compile(d, b[2]), b[1]), c, binds)
  IN Body(bound, body)
Let(c, binds, body) ==
  LET bound == FoldLeft(LAMBDA d, b : Bind(Compile(d, b[2]), b[1]), c, binds)
  IN ChewTop(Body(bound, body), Len(binds))

MutantIf(c, cond, yes, no) ==    (* stacklevel not reset for the false branch *)
  LET else == MadeLabel(c.labnum)
      end  == MadeLabel(c.labnum + 1)
      test == GoIfNil(Compile([c EXCEPT !.labnum = @ + 2], cond), else)
      then == Go(Compile(test, yes), end)
  IN Label(Compile(Label(then, else), no), end)
If(c, cond, yes, no) ==
  LET else == MadeLabel(c.labnum)
      end  == MadeLabel(c.labnum + 1)
      test == GoIfNil(Compile([c EXCEPT !.labnum = @ + 2], cond), else)
      then == Go(Compile(test, yes), end)
  IN Label(Compile(Label(AtLevel(then, test.level), else), no), end)

(* vm_catch: when the error branch starts, the error is on the stack.      *)
MutantCatchForm(c, type, s, wrapped, handler) ==    (* no pop_catch *)
  LET branch == MadeLabel(c.labnum)
      end    == MadeLabel(c.labnum + 1)
      test   == GoIfNotNil(CatchInstr(Compile([c EXCEPT !.labnum = @ + 2], type)), branch)
      try    == Go(Compile(test, wrapped), end)
      caught == Label(Bind(AtLevel(try, test.level + 1), s), branch)
  IN Label(ChewTop(Compile(caught, handler), 1), end)
CatchForm(c, type, s, wrapped, handler) ==
  LET branch == MadeLabel(c.labnum)
      end    == MadeLabel(c.labnum + 1)
      test   == GoIfNotNil(CatchInstr(Compile([c EXCEPT !.labnum = @ + 2], type)), branch)
      try    == Go(PopCatch(Compile(test, wrapped)), end)
      caught == Label(Bind(AtLevel(try, test.level + 1), s), branch)
  IN Label(ChewTop(Compile(caught, handler), 1), end)

(* vm_tagbody: tags are labels of the chunk; the value is always NIL.      *)
Tagbody(c, items) ==
  LET start == SaveStackoff(PushContext(c))
      item(d, i) ==
        LET e == IF i > 1 THEN Pop(d) ELSE d IN
        IF items[i][1] = "tag" THEN Push(Label(e, items[i][2]), Nil)
                               ELSE Compile(AtLevel(e, start.level), items[i])
  IN PopContext(Push(RestoreStackoff(FoldLeftDomain(item, start, items)), Nil))

(* bind_vars_for_closure: copy the local variables of every context into   *)
(* the context that push_lex_context has just pushed.                      *)
Closure(c) ==
  LET locals == {s \in Syms : \E i \in DOMAIN c.scopes : IsOffset(c.scopes[i][s])}
  IN FoldLeft(LAMBDA d, s : BindVar(Push(Resolve(d, s), Sym(s))), c, SetToSeq(locals))

Uncompiled(params, rest, body) == <<"fn", params, rest, body>>

(* vm_fn and vm_lambda.                                                    *)
Fn(c, name, params, rest, body) ==
  LET args == Push(Push(Closure(PushContext(c)), Uncompiled(params, rest, body)), Sym(name))
  IN Push(PopContext(CallFn(Push(args, Native("COMPILE-FN")), 2)), Nil)

Lambda(c, params, rest, body) ==
  LET arg == Push(Closure(PushContext(c)), Uncompiled(params, rest, body))
  IN PopContext(CallFn(Push(arg, Native("COMPILE-LAMBDA")), 2))

(* A call of a function bound when the call is compiled.                   *)
Call(c, name, args) ==
  LET fn == c.fns[name]
      n == Len(args)
      chunk == c.chunks[fn[2]]
      d == Args(c, args)
      e == CASE n > chunk.variance /\ chunk.rest ->
                  CallFn(Push(d, Native("LIST")), n - chunk.variance)
             [] n > chunk.variance /\ ~chunk.rest -> Fail(d)
             [] n < chunk.variance -> Fail(d)
             [] n = chunk.variance -> IF chunk.rest THEN Push(d, Nil) ELSE d
  IN IF fn = Unbound THEN Fail(c) ELSE CallFn(Push(e, fn), n)

CallNative(c, f, args) == CallFn(Push(Args(c, args), Native(f)), Len(args))

(* vm_funcall: the arguments, then whatever the function is computed by.   *)
Funcall(c, fun, args) == CallFn(Compile(Args(c, args), fun), Len(args))

(* vm_set: SET is NIL.                                                     *)
Set(c, s, f) == Push(SetVar(Compile(c, f), s), Nil)

(* compile_cons, and compile_bytecode, which sends it the pairs.           *)
CompileCons(c, o) ==
  CASE o[1] = "let"     -> Let(c, o[2], o[3])
    [] o[1] = "if"      -> If(c, o[2], o[3], o[4])
    [] o[1] = "catch"   -> CatchForm(c, o[2], o[3], o[4], o[5])
    [] o[1] = "tagbody" -> Tagbody(c, o[2])
    [] o[1] = "go"      -> Go(c, o[2])
    [] o[1] = "set"     -> Set(c, o[2], o[3])
    [] o[1] = "fn"      -> Fn(c, o[2], o[3], o[4], o[5])
    [] o[1] = "lambda"  -> Lambda(c, o[2], o[3], o[4])
    [] o[1] = "funcall" -> Funcall(c, o[2], o[3])
    [] o[1] = "arith"   -> Arith(Args(c, o[3]), o[2], Len(o[3]))
    [] o[1] = "call"    -> Call(c, o[2], o[3])
    [] o[1] = "native"  -> CallNative(c, o[2], o[3])
Compile(c, o) ==
  CASE ~c.ok                     -> c
    [] c.ok /\ o[1] = "quote"    -> Push(c, o[2])
    [] c.ok /\ o[1] = "var"      -> Resolve(c, o[2])
    [] OTHER                     -> CompileCons(c, o)

(* compile_form: what EVAL runs.                                           *)
CompileForm(c, o) == Exit(Compile(c, o))

(* fn_bind_params and fn_call: the caller has pushed the arguments, the    *)
(* last one on top.  The parameters get a context of their own, which goes *)
(* away with the compilation.                                              *)
Params(c, params) ==
  LET bound == FoldLeft(LAMBDA d, p : AtLevel(Bind(d, p), d.level + 1), c, params)
  IN AtLevel(bound, bound.level - 1)

CompileFn(c, params, body) ==
  LET inner == [c EXCEPT !.scopes = Append(@, NoVars)]
  IN Exit(Body(Params(inner, params), body))

===============================================================================
