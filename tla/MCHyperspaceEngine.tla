-------------------------- MODULE MCHyperspaceEngine --------------------------
(* Two IRIs and two contents: enough for a record that is overwritten, one *)
(* that is deleted, and an identifier to be confused with another.         *)
EXTENDS HyperspaceEngine, TLC

Symmetry == Permutations(Iris) \cup Permutations(Values)
=============================================================================
