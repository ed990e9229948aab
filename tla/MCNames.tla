--------------------------------- MODULE MCNames --------------------------------
(***************************************************************************)
(* Contexts and the intern table on a small instance: two names, one of    *)
(* which is written at two addresses, maps that start with one slot, the   *)
(* global context and one more.                                            *)
(***************************************************************************)
EXTENDS Context, TLC

CONSTANTS s1, s2, s3, u, v, f, global, c1, null

Symmetry == Permutations({s1, s2}) \cup Permutations({u, v})
MCText == [s \in {s1, s2, s3} |-> IF s = s3 THEN "b" ELSE "a"]
===============================================================================
