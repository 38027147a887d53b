---------------------------- MODULE MCMfaFactors ----------------------------
(* MfaFactors with a few concurrent requests. *)
EXTENDS MfaFactors, TLC

Symmetry == Permutations(Requests)
=============================================================================
