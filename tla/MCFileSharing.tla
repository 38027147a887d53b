---------------------------- MODULE MCFileSharing ---------------------------
(* FileSharing with two files and the browsers of two members. *)
EXTENDS FileSharing, TLC

Symmetry == Permutations(Files) \cup Permutations(Loads)
=============================================================================
