------------------------------ MODULE MCVault ------------------------------
(* Values of Vault's constants for TLC.                                     *)
EXTENDS Vault, TLC

CONSTANTS alice, bob, mail, bank

OneService  == {mail}
TwoServices == {mail, bank}

\* Two credentials that differ in login and in password, and a third that
\* shares its login with the first: an update may change one column or both.
Creds2 == {[login |-> "l1", password |-> "p1"], [login |-> "l1", password |-> "p2"]}
Creds3 == {[login |-> "l1", password |-> "p1"], [login |-> "l2", password |-> "p2"],
           [login |-> "l1", password |-> "p3"]}

EmptyPassword == {[login |-> "l1", password |-> ""]}

Symmetry == Permutations(Clients) \cup Permutations(Users)
=============================================================================
