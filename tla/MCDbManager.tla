---------------------------- MODULE MCDbManager ----------------------------
(* For TLC: the two databases are interchangeable, as only safety is checked. *)
EXTENDS DbManager, TLC

Symmetry == Permutations(Urls)
=============================================================================
