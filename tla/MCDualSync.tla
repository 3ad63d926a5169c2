----------------------------- MODULE MCDualSync -----------------------------
(* Values of DualSync's constants for TLC.  Two fields suffice to tell the  *)
(* first from the others.  One thread changes any row, alone or together,   *)
(* the others those that both databases hold from the start.                *)
EXTENDS DualSync

TwoFields == <<"login", "password">>

Main == CHOOSE t \in Threads : TRUE

OneForAll == [t \in Threads |-> IF t = Main THEN Rows ELSE Seeded]
=============================================================================
