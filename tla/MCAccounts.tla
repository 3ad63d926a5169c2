----------------------------- MODULE MCAccounts -----------------------------
(* Symmetry for TLC: clients and non-empty passwords are interchangeable.   *)
EXTENDS Accounts, TLC

Symmetry == Permutations(Clients) \cup Permutations(Passwords \ {Empty})
=============================================================================
