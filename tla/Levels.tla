--------------------------------- MODULE Levels ---------------------------------
(***************************************************************************)
(* What makes compiled code right about the stack.  Nothing at run time    *)
(* compares stacklevel with the stack, so whether code can be trusted has  *)
(* to be read off the code: there must be a plan, which gives every        *)
(* instruction that can be reached one height of the stack, one number of  *)
(* contexts, the catch form it is in and the height save_stackoff saved,   *)
(* the same on every path, after every jump and every error.               *)
(*                                                                         *)
(* Heights count from where the chunk starts: above its arguments.         *)
(***************************************************************************)
EXTENDS Emitter

NoSave == -1
AnyValue == <<"any">>

(* The arguments a chunk finds below its start.                            *)
Parameters(c) == c.variance + IF c.rest THEN 1 ELSE 0

AtStart == [height |-> 0, scopes |-> 0, catch |-> 0, saved |-> NoSave]

(* What a push just before has left on top, if it is the only way here.    *)
Targets(c) == {1} \cup {c.labels[l] : l \in DOMAIN c.labels}
Known(c, i) ==
  IF i > 1 /\ i \notin Targets(c) /\ c.code[i - 1][1] = "push" THEN c.code[i - 1][2] ELSE AnyValue

(* What a call of v with n arguments pops, v itself included, and pushes.  *)
Pops(v, n) ==
  CASE v \in {Native("COMPILE-FN"), Native(">")} -> 3
    [] v = Native("COMPILE-LAMBDA") -> 2
    [] v = Native("READ") -> 1
    [] OTHER -> n + 1
Pushes(v) == IF v = Native("COMPILE-FN") THEN 0 ELSE 1

-------------------------------------------------------------------------------
(* From one instruction to the next.                                       *)

Rise(c, i) ==
  LET op == c.code[i][1]
      x == c.code[i][2]
  IN CASE op \in {"push", "push_from_stack"} -> 1
       [] op \in {"pop", "pop_to_stack", "go_if_nil", "go_if_not_nil"} -> -1
       [] op = "chew_top" -> -x
       [] op = "bind_var" -> -2
       [] op \in {"add", "subtract", "multiply", "divide", "num_eq"} -> 1 - x
       [] op = "call" -> Pushes(Known(c, i)) - Pops(Known(c, i), x)
       [] OTHER -> 0
Moved(c, i, v) ==
  LET op == c.code[i][1] IN
  CASE op = "push_lex_context" -> [v EXCEPT !.scopes = @ + 1]
    [] op = "pop_lex_context"  -> [v EXCEPT !.scopes = @ - 1]
    [] op = "save_stackoff"    -> [v EXCEPT !.saved = v.height]
    [] op = "restore_stackoff" -> [v EXCEPT !.height = v.saved, !.saved = NoSave]
    [] op = "pop_catch"        -> [v EXCEPT !.catch = 0]
    [] OTHER                   -> [v EXCEPT !.height = @ + Rise(c, i)]
Follows(c, i) ==
  LET op == c.code[i][1]
      x == c.code[i][2]
  IN CASE op = "exit" \/ (op = "divide" /\ x = 0) -> {}
       [] op = "go" -> {Place(c, x)}
       [] op \in {"go_if_nil", "go_if_not_nil"} -> {i + 1, Place(c, x)}
       [] OTHER -> {i + 1}

(* A catch is one with the go_if_not_nil behind it, which jumps only after *)
(* the longjmp, with the error on the stack and the trap gone.             *)
Entered(v, i) == [v EXCEPT !.catch = i]
Thrown(v) == [v EXCEPT !.height = @ + 1]
Steps(c, i, v) ==
  IF c.code[i][1] = "catch"
    THEN {<<i + 2, [Entered(v, i) EXCEPT !.height = @ - 1]>>, <<Place(c, c.code[i + 1][2]), v>>}
    ELSE {<<j, Moved(c, i, v)>> : j \in Follows(c, i)}

-------------------------------------------------------------------------------
(* A plan, and what an instruction demands of it.  There is no plan for    *)
(* num_eq with three operands or more: how many of them it pops depends on *)
(* their values.                                                           *)

Views(c) == [height : Nat, scopes : Nat, catch : {0} \cup DOMAIN c.code, saved : Nat \cup {NoSave}]

(* What an active catch form keeps for itself.                             *)
Low(p, v) == IF v.catch = 0 THEN 0 ELSE p[v.catch].height - 1
LowScopes(p, v) == IF v.catch = 0 THEN 0 ELSE p[v.catch].scopes

(* Where a catch form will go on is as it left it.                         *)
Kept(c, p, v) ==
  v.catch # 0 =>
    /\ v.catch \in DOMAIN p /\ c.code[v.catch][1] = "catch" /\ p[v.catch].height > 0
    /\ p[v.catch].saved # NoSave => v.saved = p[v.catch].saved

Fits(c, p, i) ==
  LET v == p[i]
      op == c.code[i][1]
      x == c.code[i][2]
      holds(n) == v.height - n >= Low(p, v)
  IN /\ op \in {"pop", "resolve_sym", "go_if_nil", "go_if_not_nil"} => holds(1)
     /\ op = "push" => x # <<"junk">>
     /\ op = "resolve_sym" => \E s \in Syms : Known(c, i) = Sym(s)
     /\ op = "bind_var" => holds(2)
     /\ op = "chew_top" => x \in Nat /\ holds(1 + x)
     /\ op \in {"push_from_stack", "pop_to_stack"} =>
          /\ c.code[i][3] = c.entry + v.height
          /\ x \in Nat /\ x < v.height + Parameters(c)
     /\ op = "pop_to_stack" => x > 0 /\ holds(1)
     /\ op \in {"add", "multiply"} => x \in Nat /\ holds(x)
     /\ op \in {"subtract", "divide"} => x \in Nat /\ holds(x) /\ (x > 0 \/ op = "divide")
     /\ op = "num_eq" => x \in 1 .. 2 /\ holds(x)
     /\ op = "call" => x \in Nat /\ holds(Pops(Known(c, i), x)) /\ holds(x + 1)
     /\ op = "pop_lex_context" => v.scopes > 0
     /\ op = "restore_stackoff" => v.saved # NoSave /\ v.saved <= v.height
     /\ op = "catch" => /\ v.catch = 0 /\ holds(1) /\ i + 1 \notin DOMAIN p
                        /\ i + 1 \in DOMAIN c.code /\ c.code[i + 1][1] = "go_if_not_nil"
     /\ op = "pop_catch" => v.catch # 0
     /\ op = "exit" => v = [AtStart EXCEPT !.height = 1, !.saved = v.saved]

IsPlan(c, p) ==
  /\ c.entry \in Int /\ Parameters(c) \in Nat /\ DOMAIN c.code \subseteq Nat \ {0}
  /\ 1 \in DOMAIN p /\ p[1] = AtStart
  /\ \A i \in DOMAIN p :
       /\ i \in DOMAIN c.code /\ p[i] \in Views(c)
       /\ Kept(c, p, p[i]) /\ p[i].height >= Low(p, p[i]) /\ p[i].scopes >= LowScopes(p, p[i])
       /\ Fits(c, p, i)
       /\ \A s \in Steps(c, i, p[i]) : s[1] \in DOMAIN p /\ p[s[1]] = s[2]

(* The only plan there can be: follow every path from the start.           *)
Plan(c) ==
  LET Round[n \in Nat] ==
        IF n = 0 THEN [seen |-> [i \in {1} |-> AtStart], new |-> {1}]
        ELSE LET before == Round[n - 1]
                 seen == before.seen
                 steps == UNION {Steps(c, i, seen[i]) : i \in before.new}
                 new == ({s[1] : s \in steps} \cap DOMAIN c.code) \ DOMAIN seen
             IN [seen |-> [i \in DOMAIN seen \cup new |->
                             IF i \in DOMAIN seen THEN seen[i] ELSE (CHOOSE s \in steps : s[1] = i)[2]],
                 new |-> new]
  IN Round[Len(c.code)].seen

Level(c) == IsPlan(c, Plan(c))

===============================================================================
