----------------------------- MODULE MCAccounts -----------------------------
(* Accounts with a few concurrent requests; Local is no member of Subjects. *)
EXTENDS Accounts, TLC

Symmetry == Permutations(Requests)
=============================================================================
