---------------------------- MODULE MCGroupKeys ----------------------------
(* GroupKeys on a small group. *)
EXTENDS GroupKeys, TLC

Symmetry == Permutations(Users \ {Admin})
=============================================================================
