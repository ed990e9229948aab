-------------------------------- MODULE MCGc --------------------------------
(* The heap and its collector on small instances: two objects, the global   *)
(* context and one closure context, at most one variable and one function   *)
(* name.                                                                    *)
EXTENDS Gc, TLC

CONSTANTS o1, o2, global, c1, x, f, nil

NoConstructs == {}
OnlyLambdas == {"lambda"}
FunctionsOnly == {"lambda", "redefine"}

Symmetry2 == Permutations({o1, o2})

=============================================================================
