---------------------------------- MODULE Repl ----------------------------------
(***************************************************************************)
(* What the loop of main.c promises its user: each form of the session is  *)
(* answered, in order, by what the form means, until the input ends.  An   *)
(* error answers its own form and no other.                                *)
(***************************************************************************)
EXTENDS Semantics

CONSTANT Sessions
VARIABLES session, answers, done
loopvars == <<session, answers, done>>

Init == session \in Sessions /\ answers = << >> /\ done = FALSE

Answered(n) == n = Len(Transcript(session))
(* The last answer, to the end of the input, is the one that stops it.     *)
Reply ==
  /\ answers' # answers
  /\ ~done /\ ~Answered(Len(answers))
  /\ answers' = Append(answers, Transcript(session)[Len(answers) + 1])
  /\ done' = Answered(Len(answers) + 1)
  /\ UNCHANGED session
Spec == Init /\ [][Reply]_loopvars

===============================================================================
