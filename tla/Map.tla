----------------------------------- MODULE Map -----------------------------------
(***************************************************************************)
(* map.c: an association of keys and values in two arrays of which the     *)
(* first count elements are in use.  A key is an address; a map compares   *)
(* keys by address (sym_equal) or by the text at the address (str_eq and   *)
(* string_equal).  Null is C's NULL: no key, and no value; it also stands  *)
(* for whatever lies beyond count.                                         *)
(***************************************************************************)
EXTENDS Integers

CONSTANTS
  Keys,           (* the addresses that serve as keys                      *)
  Text,           (* what is written at an address                         *)
  Null,
  InitialSpace    (* INITIAL_SPACE                                         *)

ASSUME MapAssumption ==
  /\ Null \notin Keys
  /\ InitialSpace \in Nat \ {0}

MapCreate(equal) ==
  [equal |-> equal, count |-> 0, space |-> InitialSpace,
   keys |-> [i \in 0 .. InitialSpace - 1 |-> Null],
   vals |-> [i \in 0 .. InitialSpace - 1 |-> Null]]

Same(m, j, k) == IF m.equal = "str" THEN Text[j] = Text[k] ELSE j = k
Slots(m) == 0 .. m.count - 1
Holding(m, k) == {i \in Slots(m) : Same(m, m.keys[i], k)}
SlotOf(m, k) == CHOOSE i \in Holding(m, k) : \A j \in Holding(m, k) : i <= j

(* increase_map_space.                                                     *)
Longer(array, space) == [i \in 0 .. 2 * space - 1 |-> IF i < space THEN array[i] ELSE Null]
MutantIncreaseMapSpace(m) ==  (* the values keep their array *)
  [m EXCEPT !.space = 2 * @, !.keys = Longer(@, m.space)]
IncreaseMapSpace(m) ==
  [equal |-> m.equal, count |-> m.count, space |-> 2 * m.space,
   keys |-> Longer(m.keys, m.space), vals |-> Longer(m.vals, m.space)]

(* map_put makes room before it looks whether the key is there.            *)
Overwrite(m, k, v) == [m EXCEPT !.vals = [@ EXCEPT ![SlotOf(m, k)] = v]]
Add(m, k, v) == [m EXCEPT !.count = @ + 1, !.keys = [@ EXCEPT ![m.count] = k],
                          !.vals = [@ EXCEPT ![m.count] = v]]
MutantMapPut(m, k, v) ==      (* does not look for the key *)
  Add(IF m.count = m.space THEN IncreaseMapSpace(m) ELSE m, k, v)
MapPut(m, k, v) ==
  LET roomy == IF m.count = m.space THEN IncreaseMapSpace(m) ELSE m
  IN IF Holding(m, k) # {} THEN Overwrite(roomy, k, v) ELSE Add(roomy, k, v)

MapGet(m, k) == IF k = Null \/ Holding(m, k) = {} THEN Null ELSE m.vals[SlotOf(m, k)]

(* map_delete: the last pair fills the hole.                               *)
Filled(array, hole, last) == [array EXCEPT ![hole] = array[last], ![last] = Null]
MutantMapDelete(m, k) ==      (* the hole is left at the end *)
  IF Holding(m, k) = {} THEN m ELSE [m EXCEPT !.count = @ - 1]
MapDelete(m, k) ==
  LET last == m.count - 1
  IN IF Holding(m, k) = {} THEN m
     ELSE [equal |-> m.equal, count |-> last, space |-> m.space,
           keys |-> Filled(m.keys, SlotOf(m, k), last), vals |-> Filled(m.vals, SlotOf(m, k), last)]

(* An iterator stands on a slot.  It moves on with map_iterator_next and   *)
(* ends where the slot would be count.                                     *)
PairAt(m, i) == <<m.keys[i], m.vals[i]>>
AtLast(m, i) == i + 1 = m.count

KeysOf(m) == {m.keys[i] : i \in Slots(m)}
Pairs(m) == {PairAt(m, i) : i \in Slots(m)}

(* Within bounds, no slot in use is empty, and no key is there twice.      *)
IsMap(m, V) ==
  /\ m = [equal |-> m.equal, count |-> m.count, space |-> m.space, keys |-> m.keys, vals |-> m.vals]
  /\ m.equal \in {"ptr", "str"}
  /\ m.count \in Nat /\ m.space \in Nat \ {0} /\ m.count <= m.space
  /\ m.keys \in [0 .. m.space - 1 -> Keys \cup {Null}]
  /\ m.vals \in [0 .. m.space - 1 -> V \cup {Null}]
  /\ \A i \in Slots(m) : m.keys[i] \in Keys /\ m.vals[i] \in V
OnlyOnce(m) == \A i, j \in Slots(m) : Same(m, m.keys[i], m.keys[j]) => i = j

===============================================================================
