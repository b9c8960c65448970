-------------------------- MODULE MCInvocationStore --------------------------
(* Three invocations in one scope, one unfinished and two stored at a      *)
(* time, one key that all of them may be created under, and a retention as *)
(* short as the configuration allows (equal to the lifetime of the key).   *)
EXTENDS InvocationStore, TLC

Symmetry == Permutations(Ids)
=============================================================================
