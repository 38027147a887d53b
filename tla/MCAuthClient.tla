---------------------------- MODULE MCAuthClient ----------------------------
(* AuthClient in a browser with a few tabs. *)
EXTENDS AuthClient, TLC

Symmetry == Permutations(Calls) \cup Permutations(Tabs)
=============================================================================
