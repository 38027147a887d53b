--------------------------- MODULE MCIdentityKeys ---------------------------
(* IdentityKeys on two browsers. *)
EXTENDS IdentityKeys, TLC

Symmetry == Permutations(Unlocks) \cup Permutations(Passwords)
=============================================================================
