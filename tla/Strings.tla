---------------------------------- MODULE Strings ---------------------------------
(***************************************************************************)
(* lstring.c: strings that grow.  A string is the characters before its    *)
(* terminator and the capacity of its buffer (0: no buffer); len and the   *)
(* terminator follow from them.  Only ever one character is appended: the  *)
(* functions that append a whole text call string_append for each.         *)
(***************************************************************************)
EXTENDS Integers, SequencesExt

CONSTANT
  InitialCapacity   (* STR_INITIAL_CAPACITY                                *)

ASSUME InitialCapacityAssumption == InitialCapacity \in Nat \ {0}

NewString == [chars |-> << >>, cap |-> 0]
NewStringCopy(chars) == [chars |-> chars, cap |-> Len(chars) + 1]

Capacity(s) ==
  CASE s.cap = 0              -> InitialCapacity
    [] s.cap = Len(s.chars) + 1 -> 2 * s.cap
    [] OTHER                  -> s.cap
MutantStringAppend(s, c) ==     (* the terminator is not counted *)
  [chars |-> Append(s.chars, c),
   cap |-> CASE s.cap = 0 -> InitialCapacity [] s.cap = Len(s.chars) -> 2 * s.cap [] OTHER -> s.cap]
StringAppend(s, c) == [chars |-> Append(s.chars, c), cap |-> Capacity(s)]

(* What was written lies within the buffer, the terminator included.       *)
Fits(s) == IF s.cap = 0 THEN s.chars = << >> ELSE Len(s.chars) < s.cap
===============================================================================
