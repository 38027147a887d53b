----------------------------- MODULE MCRealtime -----------------------------
(* Realtime on a user with a few pages. *)
EXTENDS Realtime, TLC

Symmetry == Permutations(Sockets) \cup Permutations(Tasks)
=============================================================================
