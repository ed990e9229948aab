-------------------------------- MODULE Stacks ---------------------------------
(***************************************************************************)
(* What the interpreter owes to a running program: the discipline of its   *)
(* four stacks, whatever is on them.  The value stack, the contexts, the   *)
(* active chunks and the catch forms grow and shrink together; an error    *)
(* cuts all four at once.  threaded_vm.c checks no height anywhere, so     *)
(* this is a promise of the compiler's code and of the C functions around  *)
(* it.  Both models of the main thread implement it: Gc, where a program   *)
(* is whatever its actions allow, and Machine, where it is verified code.  *)
(*                                                                         *)
(* main's own chunk and trap are below everything here.  A call knows      *)
(* where its values begin (base) and where its result will be put (back),  *)
(* the level of its own context (own) and of its caller's (outer).         *)
(***************************************************************************)
EXTENDS Integers, Sequences

VARIABLES
  height,     (* s_off: the values on the stack                            *)
  scopes,     (* the contexts on the context stack                         *)
  calls,      (* the active chunks                                         *)
  handlers    (* the active catch forms                                    *)

stacks == <<height, scopes, calls, handlers>>

Main == [base |-> 0, back |-> 0, own |-> 1, outer |-> 1]
Here == IF calls = << >> THEN Main ELSE calls[Len(calls)]
Handler == handlers[Len(handlers)]
Cut(s, n) == SubSeq(s, 1, n)

(* What belongs to the callers, or is kept for a catch form of this chunk. *)
Catching == handlers # << >> /\ Handler.depth = Len(calls)
Floor == IF Catching THEN Handler.off ELSE Here.base
ScopeFloor == IF Catching THEN Handler.scopes ELSE Here.own

Init == height = 0 /\ scopes = 1 /\ calls = << >> /\ handlers = << >>

(* A chunk moves its own values and contexts; main has only values.        *)
Work ==
  /\ height' \in Nat /\ height' >= Floor
  /\ scopes' \in Nat /\ scopes' >= ScopeFloor
  /\ calls = << >> => scopes' = scopes
  /\ UNCHANGED <<calls, handlers>>

(* call and vm_eval; a called function brings its context with it.         *)
Call ==
  \E base \in Floor .. height, own \in {scopes, scopes + 1} :
    \E back \in Floor .. base :
      /\ calls' = Append(calls, [base |-> base, back |-> back, own |-> own, outer |-> scopes])
      /\ height' = base /\ scopes' = own /\ UNCHANGED handlers

(* exit: one value is left, no context of its own and no catch form.       *)
Return ==
  /\ calls # << >> /\ ~Catching
  /\ height = Here.base + 1 /\ scopes = Here.own
  /\ height' = Here.back + 1 /\ scopes' = Here.outer
  /\ calls' = Cut(calls, Len(calls) - 1) /\ UNCHANGED handlers

Catch ==
  /\ calls # << >>
  /\ \E off \in Floor .. height :
       /\ handlers' = Append(handlers, [off |-> off, scopes |-> scopes, depth |-> Len(calls)])
       /\ height' = off + 1
  /\ UNCHANGED <<scopes, calls>>

PopCatch ==
  /\ Catching /\ handlers' = Cut(handlers, Len(handlers) - 1)
  /\ UNCHANGED <<height, scopes, calls>>

(* An error: to the catch form i, which goes on in its own chunk with the  *)
(* error (and T) on the stack; to main; or out of a vm_eval, which throws  *)
(* it again.                                                               *)
Throw(i) ==
  /\ \E n \in 1 .. 2 : height' = handlers[i].off + n
  /\ scopes' = handlers[i].scopes
  /\ calls' = Cut(calls, handlers[i].depth)
  /\ handlers' = Cut(handlers, i - 1)

Reset ==
  /\ height' \in 0 .. 1 /\ scopes' = 1
  /\ calls' = << >> /\ handlers' = << >>

Abandon(k) ==
  /\ height' \in {calls[k].back, calls[k].back + 1} /\ scopes' = calls[k].outer
  /\ calls' = Cut(calls, k - 1)
  /\ \E n \in 0 .. Len(handlers) :
       /\ handlers' = Cut(handlers, n)
       /\ \A i \in DOMAIN handlers : handlers[i].depth < k <=> i <= n

Next ==
  \/ Work \/ Call \/ Return \/ Catch \/ PopCatch \/ Reset
  \/ \E i \in DOMAIN handlers : Throw(i)
  \/ \E k \in DOMAIN calls : Abandon(k)

Spec == Init /\ [][Next]_stacks

-------------------------------------------------------------------------------
(* Types, and what makes an error safe at any time.                        *)

Calls == [base : Nat, back : Nat, own : Nat, outer : Nat]
Handlers == [off : Nat, scopes : Nat, depth : Nat \ {0}]
TypeOK ==
  /\ height \in Nat /\ scopes \in Nat
  /\ calls \in Seq(Calls) /\ handlers \in Seq(Handlers)

(* What a caller waits for with is not above what is there, and calls nest *)
(* in calls.                                                               *)
CallsNest ==
  /\ \A j \in DOMAIN calls :
       /\ calls[j].back <= calls[j].base /\ calls[j].base <= height
       /\ calls[j].outer <= calls[j].own /\ calls[j].own <= scopes
  /\ \A i, j \in DOMAIN calls :
       i < j => calls[i].base <= calls[j].back /\ calls[i].own <= calls[j].outer

(* What a catch form would restore is still there, and belongs to a chunk  *)
(* that is still running.                                                  *)
HandlersLive ==
  \A i \in DOMAIN handlers :
    LET h == handlers[i] IN
    /\ h.off <= height /\ h.scopes <= scopes /\ h.depth \in DOMAIN calls
    /\ calls[h.depth].base <= h.off /\ calls[h.depth].own <= h.scopes
    /\ \A j \in DOMAIN calls :
         h.depth < j => h.off <= calls[j].back /\ h.scopes <= calls[j].outer

(* Inner catch forms are in inner chunks and higher up on every stack.     *)
HandlersNest ==
  \A i, j \in DOMAIN handlers :
    i < j => /\ handlers[i].off <= handlers[j].off
             /\ handlers[i].scopes <= handlers[j].scopes
             /\ handlers[i].depth <= handlers[j].depth

(* At the prompt nothing is left of what was typed before.                 *)
Clean ==
  /\ calls = << >> => handlers = << >> /\ scopes = 1
  /\ calls # << >> => calls[1].outer = 1

Nested == CallsNest /\ HandlersLive /\ HandlersNest /\ Clean

===============================================================================
