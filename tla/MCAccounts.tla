----------------------------- MODULE MCAccounts -----------------------------
(* Instances of Accounts. *)
EXTENDS Accounts, TLC

Symmetry ==
  Permutations(Phones) \cup Permutations(Clients) \cup Permutations(Requests)
=============================================================================
