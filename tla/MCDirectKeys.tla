---------------------------- MODULE MCDirectKeys ----------------------------
(* DirectKeys with a few tasks over the browsers of two users. *)
EXTENDS DirectKeys, TLC

Symmetry == Permutations(Tasks) \cup Permutations(Users)
=============================================================================
