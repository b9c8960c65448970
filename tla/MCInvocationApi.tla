--------------------------- MODULE MCInvocationApi ---------------------------
(* Two calls at a time on one scope, one key and two different requests.   *)
EXTENDS InvocationApi, TLC

Symmetry == Permutations(Ids) \cup Permutations(Prints) \cup Permutations(Calls)
=============================================================================
