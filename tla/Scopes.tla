---------------------------------- MODULE Scopes ----------------------------------
(***************************************************************************)
(* What the program may expect of its names: a context is a function from  *)
(* names to values, a variable is looked for in the contexts of the chain  *)
(* from the innermost outwards, and functions are global.  Names are       *)
(* texts; how they are stored does not show.                               *)
(***************************************************************************)
EXTENDS Integers, Sequences

CONSTANTS
  Texts,      (* the names                                                 *)
  Values,     (* what can be bound to one as a variable,                   *)
  Functions,  (* and as a function                                         *)
  Contexts,
  Global,
  None        (* no value                                                  *)

VARIABLES
  vars,       (* [Contexts -> [Texts -> Values or None]]                   *)
  fns,        (* [Texts -> Functions or None]                              *)
  chain,      (* the contexts in force, the innermost last                 *)
  asked       (* the name this step was about, and what it found           *)

scopes == <<vars, fns, chain, asked>>

Empty == [t \in Texts |-> None]
Init ==
  /\ \E t \in Texts, v \in Values, f \in Functions :
       /\ vars = [c \in Contexts |-> IF c = Global THEN [Empty EXCEPT ![t] = v] ELSE Empty]
       /\ fns = [Empty EXCEPT ![t] = f]
  /\ chain = <<Global>> /\ asked = << >>

Bind(t, v) ==
  /\ asked' = <<t, v>>
  /\ vars' = [vars EXCEPT ![chain[Len(chain)]][t] = v]
  /\ UNCHANGED <<fns, chain>>
Lookup(t) ==
  /\ \/ \E i \in DOMAIN chain :
          /\ asked' = <<t, vars[chain[i]][t]>> /\ vars[chain[i]][t] # None
          /\ \A j \in DOMAIN chain : j > i => vars[chain[j]][t] = None
     \/ asked' = <<t, None>> /\ \A i \in DOMAIN chain : vars[chain[i]][t] = None
  /\ UNCHANGED <<vars, fns, chain>>
BindFn(t, f) == asked' = <<t, f>> /\ fns' = [fns EXCEPT ![t] = f] /\ UNCHANGED <<vars, chain>>
LookupFn(t) == asked' = <<t, fns[t]>> /\ UNCHANGED <<vars, fns, chain>>
UnbindFn(t) == asked' = <<t, None>> /\ fns' = [fns EXCEPT ![t] = None] /\ UNCHANGED <<vars, chain>>

(* Into a new context or one entered before; out of some.                  *)
EnterNew(c) ==
  /\ asked' = << >> /\ \A i \in DOMAIN chain : chain[i] # c
  /\ chain' = Append(chain, c) /\ vars' = [vars EXCEPT ![c] = Empty]
  /\ UNCHANGED fns
Enter(c) == asked' = << >> /\ chain' = Append(chain, c) /\ UNCHANGED <<vars, fns>>
Leave(n) == asked' = << >> /\ chain' = SubSeq(chain, 1, n) /\ UNCHANGED <<vars, fns>>

(* Anything else.                                                          *)
Other == asked' = << >> /\ UNCHANGED <<chain, vars, fns>>

Next ==
  \/ Other
  \/ \E t \in Texts : Lookup(t) \/ LookupFn(t) \/ UnbindFn(t)
  \/ \E t \in Texts, v \in Values : Bind(t, v)
  \/ \E t \in Texts, f \in Functions : BindFn(t, f)
  \/ \E c \in Contexts : EnterNew(c) \/ Enter(c)
  \/ \E n \in 1 .. Len(chain) : Leave(n)
Spec == Init /\ [][Next]_scopes
===============================================================================
