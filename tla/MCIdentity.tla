----------------------------- MODULE MCIdentity -----------------------------
(* Identity with two tabs and two accounts, which are interchangeable. *)
EXTENDS Identity, TLC

Interchangeable == Permutations(Tab) \cup Permutations(Account)
=============================================================================
