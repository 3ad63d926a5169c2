--------------------------- MODULE CredentialStore ---------------------------
(***************************************************************************)
(* What PasswordManager promises, with no rows, keys, tombstones or         *)
(* database sessions in sight: every account has at most one credential    *)
(* per service, a request takes effect as a whole or not at all, and no     *)
(* other client's step shows in between.                                   *)
(***************************************************************************)
CONSTANTS Clients, Users, Services, Creds, BadCreds, None, Deleted

VARIABLES
  store,    \* the credential of each account and service, or None
  pending   \* what each client has asked for and not yet been answered

vars == <<store, pending>>

Init ==
  /\ store = [u \in Users |-> [s \in Services |-> None]]
  /\ pending = [c \in Clients |-> None]

\* A client asks for new credentials or, of one service, for its deletion.
\* Only what is stored can be deleted.
Request(c, u, asked) ==
  /\ pending[c] = None
  /\ pending' = [pending EXCEPT ![c] = [user |-> u, asked |-> asked]]
  /\ \A s \in Services : asked[s] = Deleted => store[u][s] # None
  /\ UNCHANGED store

\* All of the request takes effect in one step.  A request with an empty
\* login or password never does.
Perform(c) ==
  /\ pending[c] # None
  /\ \A s \in Services : pending[c].asked[s] \notin BadCreds
  /\ store' = [store EXCEPT ![pending[c].user] =
                 [s \in Services |->
                    IF pending[c].asked[s] = None THEN @[s]
                    ELSE IF pending[c].asked[s] = Deleted THEN None
                    ELSE pending[c].asked[s]]]
  /\ pending' = [pending EXCEPT ![c] = None]

\* The client is told of a failure, or never hears an answer: no effect.
Abandon(c) ==
  /\ pending[c] # None
  /\ pending' = [pending EXCEPT ![c] = None]
  /\ UNCHANGED store

\* The account and everything it stores is deleted.
Erase(u) ==
  /\ store' = [store EXCEPT ![u] = [s \in Services |-> None]]
  /\ UNCHANGED pending

Asked == [Services -> Creds \cup BadCreds \cup {Deleted, None}]

Next ==
  \/ \E c \in Clients :
       \/ \E u \in Users, asked \in Asked : Request(c, u, asked)
       \/ Perform(c)
       \/ Abandon(c)
  \/ \E u \in Users : Erase(u)

Spec == Init /\ [][Next]_vars
=============================================================================
