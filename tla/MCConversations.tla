-------------------------- MODULE MCConversations --------------------------
(* Conversations on small sets of requests, users and uuids. *)
EXTENDS Conversations, TLC

Symmetry == Permutations(Users) \cup Permutations(Convs) \cup Permutations(Requests)
=============================================================================
