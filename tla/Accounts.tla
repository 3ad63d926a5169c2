------------------------------ MODULE Accounts ------------------------------
(***************************************************************************)
(* The accounts of passlair: the rows of standard_users, the sessions of   *)
(* UserManager, and the operations of UserManager, UserWriter and Identity *)
(* that register an account, open and close sessions, change or reset a    *)
(* password and delete an account.                                         *)
(*                                                                         *)
(* Each operation is one step per database session it opens; other clients *)
(* run between those steps.  A call that raises before it has changed      *)
(* anything is no step.                                                    *)
(***************************************************************************)
EXTENDS Naturals, FiniteSets

CONSTANTS
  Clients,          \* processes (or threads) with an Identity of their own
  Names,            \* usernames
  Passwords,
  Empty,            \* the empty password
  None,
  MaxDraws,         \* bound: operations that draw fresh key material
  RegisterLoggedIn, \* accounts that a client may register while it has a session
  MayFail           \* accounts for which a process may end, or its query raise,
                    \* before it has reported what it committed

\* The salt, the backup KEK and, for a new account, the DEK that one operation
\* draws are all named by the number of that draw; so is the recovery phrase,
\* which encodes the backup KEK.
Draws == 1 .. MaxDraws

VARIABLES
  users,    \* the table standard_users; a username is unique for good
  session,  \* UserManager's user_id and dek, per client
  op,       \* the operation each client has under way
  told,     \* the recovery phrases returned to callers, per account
  kept,     \* the [user, dek] pairs a caller may have kept for restore_session
  draws     \* how many operations have drawn key material

vars == <<users, session, op, told, kept, draws>>

\* What the KDF makes of a password and a salt: the hash and, independently,
\* the KEK.  Both tell passwords and salts apart, so one value stands for each.
Derived == [password : Passwords, salt : Draws]

\* The credential columns: master_password, salt, dek (wrapped under the
\* password's KEK) and backup_dek (wrapped under the backup KEK).
Credentials == [hash : Derived, salt : Draws,
                dek : [dek : Draws, kek : Derived],
                backup : [dek : Draws, kek : Draws]]

Row == [cred : Credentials, live : BOOLEAN]

\* An operation between two of its database sessions: a registration about to
\* log in, a change whose old password was right, prepared credentials about to
\* be committed, committed ones about to be reported.
Op == [kind : {"login"}, name : Names, password : Passwords, phrase : Draws]
        \cup [kind : {"check"}, name : Names, old : Passwords, new : Passwords]
        \cup [kind : {"write"}, name : Names, cred : Credentials,
              phrase : Draws, used : Draws \cup {None}]
        \cup [kind : {"answer"}, name : Names, phrase : Draws]

ASSUME PasswordsAssumption == Empty \in Passwords
ASSUME NoneAssumption ==
  None \notin Names \cup Passwords \cup Draws \cup Derived /\ None \notin Row /\ None \notin Op
ASSUME BoundAssumption == MaxDraws \in Nat
ASSUME ModeAssumption == RegisterLoggedIn \cup MayFail \subseteq Names

NoSession == [user |-> None, dek |-> None]

TypeOK ==
  /\ users \in [Names -> Row \cup {None}]
  /\ session \in [Clients -> [user : Names, dek : Draws] \cup {NoSession}]
  /\ op \in [Clients -> Op \cup {None}]
  /\ told \in [Names -> SUBSET Draws]
  /\ kept \subseteq [user : Names, dek : Draws]
  /\ draws \in 0 .. MaxDraws

Init ==
  /\ users = [n \in Names |-> None]
  /\ session = [c \in Clients |-> NoSession]
  /\ op = [c \in Clients |-> None]
  /\ told = [n \in Names |-> {}]
  /\ kept = {}
  /\ draws = 0

----------------------------------------------------------------------------
(* Credentials.  An operator named after another with an underscore is a    *)
(* slip a programmer could make in it; no definition of the model uses one. *)

Derive(password, salt) == [password |-> password, salt |-> salt]

Wrap(dek, kek) == [dek |-> dek, kek |-> kek]

\* None stands for the exception that a wrong key raises.
Unwrap(wrapped, kek) == IF wrapped.kek = kek THEN wrapped.dek ELSE None

\* The KEK when the password is right, else None.
VerifyPassword(password, cred) ==
  IF Derive(password, cred.salt) = cred.hash THEN Derive(password, cred.salt)
                                             ELSE None

\* A query for a live account.
Found(n) == users[n] # None /\ users[n].live

Verified_AnyPassword(n, password) == Found(n)

Verified(n, password) == Found(n) /\ VerifyPassword(password, users[n].cred) # None

NewCredentials_NewDek(dek, password, n) ==
  [hash |-> Derive(password, n), salt |-> n,
   dek |-> Wrap(n, Derive(password, n)), backup |-> Wrap(n, n)]

\* The six columns for a password, with the salt and backup KEK of draw n.
NewCredentials(dek, password, n) ==
  [hash |-> Derive(password, n), salt |-> n,
   dek |-> Wrap(dek, Derive(password, n)), backup |-> Wrap(dek, n)]

Draw == draws < MaxDraws /\ draws' = draws + 1

Stop(c) == op' = [op EXCEPT ![c] = None]

Tell(n, phrase) == told' = [told EXCEPT ![n] = @ \cup {phrase}]

\* A session that begins with user n's DEK, unwrapped with the password's KEK.
Enter(c, n, password) ==
  /\ session' = [session EXCEPT ![c] =
       [user |-> n,
        dek  |-> Unwrap(users[n].cred.dek, VerifyPassword(password, users[n].cred))]]
  /\ kept' = kept \cup {session'[c]}

----------------------------------------------------------------------------
(* Registration *)

\* prepare_new_user and save_user.  The unique constraint refuses a name that
\* any row has, a tombstone too.
RegisterSave(c, n, password) ==
  /\ op[c] = None
  /\ session[c].user = None \/ n \in RegisterLoggedIn
  /\ password # Empty
  /\ users[n] = None
  /\ Draw
  /\ users' = [users EXCEPT ![n] = [cred |-> NewCredentials(draws', password, draws'),
                                    live |-> TRUE]]
  /\ op' = [op EXCEPT ![c] = [kind |-> "login", name |-> n, password |-> password,
                              phrase |-> draws']]
  /\ UNCHANGED <<session, told, kept>>

\* The automatic login.  If the client has a session, login raises and
\* register_user reports a failure without the phrase; if the login merely
\* fails, it reports success and the phrase.
RegisterLogin(c) ==
  /\ op[c] # None /\ op[c].kind = "login"
  /\ LET n == op[c].name
         password == op[c].password
     IN  \/ /\ session[c].user # None
            /\ UNCHANGED <<session, kept, told>>
         \/ /\ session[c].user = None
            /\ Verified(n, password)
            /\ Enter(c, n, password)
            /\ Tell(n, op[c].phrase)
         \/ /\ session[c].user = None
            /\ ~Verified(n, password)
            /\ Tell(n, op[c].phrase)
            /\ UNCHANGED <<session, kept>>
  /\ Stop(c)
  /\ UNCHANGED <<users, draws>>

\* The query of the automatic login raises something register_user does not
\* catch: the account is saved, its phrase never returned.
RegisterRaises(c) ==
  /\ op[c] # None /\ op[c].kind = "login"
  /\ op[c].name \in MayFail
  /\ Stop(c)
  /\ UNCHANGED <<users, session, told, kept, draws>>

----------------------------------------------------------------------------
(* Sessions *)

Login(c, n, password) ==
  /\ op[c] = None
  /\ session[c].user = None
  /\ Verified(n, password)
  /\ Enter(c, n, password)
  /\ UNCHANGED <<users, op, told, draws>>

\* login_by_dek, given a pair that a session has had: nothing is checked.
RestoreSession(c, pair) ==
  /\ op[c] = None
  /\ session' = [session EXCEPT ![c] = pair]
  /\ UNCHANGED <<users, op, told, kept, draws>>

Logout(c) ==
  /\ op[c] = None
  /\ session[c].user # None /\ session[c].dek # None
  /\ session' = [session EXCEPT ![c] = NoSession]
  /\ UNCHANGED <<users, op, told, kept, draws>>

----------------------------------------------------------------------------
(* Changing and resetting a password *)

\* change_user_password up to compare_passwords.  Only the old password is
\* checked for emptiness.
ChangeCheck(c, old, new) ==
  /\ op[c] = None
  /\ old # Empty
  /\ session[c].user # None /\ session[c].dek # None
  /\ Verified(session[c].user, old)
  /\ op' = [op EXCEPT ![c] = [kind |-> "check", name |-> session[c].user,
                              old |-> old, new |-> new]]
  /\ UNCHANGED <<users, session, told, kept, draws>>

Rewrap_OldPhrase(c, n, dek, new, used) ==
  /\ Draw
  /\ op' = [op EXCEPT ![c] = [kind |-> "write", name |-> n,
                              cred |-> NewCredentials(dek, new, draws'),
                              phrase |-> IF used = None THEN draws' ELSE used,
                              used |-> used]]

Rewrap_PhraseKept(c, n, dek, new, used) ==
  /\ Draw
  /\ LET phrase == IF used = None THEN draws' ELSE used
         cred == [NewCredentials(dek, new, draws') EXCEPT !.backup.kek = phrase]
     IN  op' = [op EXCEPT ![c] = [kind |-> "write", name |-> n, cred |-> cred,
                                  phrase |-> phrase, used |-> used]]

\* The operation leaves credentials that wrap the given DEK, to be committed.
Rewrap(c, n, dek, new, used) ==
  /\ Draw
  /\ op' = [op EXCEPT ![c] = [kind |-> "write", name |-> n,
                              cred |-> NewCredentials(dek, new, draws'),
                              phrase |-> draws', used |-> used]]

\* UserWriter.change_password reads the account again and verifies the old
\* password again; it raises when either fails, or when the query does.
ChangeFetch(c) ==
  /\ op[c] # None /\ op[c].kind = "check"
  /\ LET n == op[c].name
         kek == VerifyPassword(op[c].old, users[n].cred)
     IN  \/ /\ Verified(n, op[c].old)
            /\ Rewrap(c, n, Unwrap(users[n].cred.dek, kek), op[c].new, None)
         \/ /\ Stop(c)
            /\ UNCHANGED draws
  /\ UNCHANGED <<users, session, told, kept>>

\* reset_password: no session is needed, the phrase must unwrap backup_dek.
\* Nobody can enter a phrase that was never told.
ResetFetch(c, n, phrase, new) ==
  /\ op[c] = None
  /\ phrase \in told[n]
  /\ Found(n)
  /\ Unwrap(users[n].cred.backup, phrase) # None
  /\ Rewrap(c, n, Unwrap(users[n].cred.backup, phrase), new, phrase)
  /\ UNCHANGED <<users, session, told, kept>>

Updated_Merged(row, cred) == [cred |-> cred, live |-> TRUE]

Updated_SaltForgotten(row, cred) ==
  [row EXCEPT !.cred = [cred EXCEPT !.salt = row.cred.salt]]

Updated_PhraseForgotten(row, cred) ==
  [row EXCEPT !.cred = [cred EXCEPT !.backup = row.cred.backup]]

\* The UPDATE of the six columns; deleted_at is not among them.
Updated(row, cred) == [row EXCEPT !.cred = cred]

\* _change_password commits the six columns in one UPDATE by primary key, of
\* an account that may have been changed or deleted since it was read.
WriteCredentials(c) ==
  /\ op[c] # None /\ op[c].kind = "write"
  /\ users' = [users EXCEPT ![op[c].name] = Updated(@, op[c].cred)]
  /\ op' = [op EXCEPT ![c] = [kind |-> "answer", name |-> op[c].name,
                              phrase |-> op[c].phrase]]
  /\ UNCHANGED <<session, told, kept, draws>>

\* The new phrase is returned to the caller.
Answer(c) ==
  /\ op[c] # None /\ op[c].kind = "answer"
  /\ Tell(op[c].name, op[c].phrase)
  /\ Stop(c)
  /\ UNCHANGED <<users, session, kept, draws>>

\* The commit fails and db.session() rolls back; the old phrase stays valid.
Rollback(c) ==
  /\ op[c] # None /\ op[c].kind = "write"
  /\ Stop(c)
  /\ UNCHANGED <<users, session, told, kept, draws>>

Crash(c) ==
  /\ op[c] # None
  /\ op[c].name \in MayFail
  /\ Stop(c)
  /\ session' = [session EXCEPT ![c] = NoSession]
  /\ UNCHANGED <<users, told, kept, draws>>

\* UserWriter.delete_user stamps deleted_at and leaves the session active.
DeleteUser(c) ==
  /\ op[c] = None
  /\ session[c].user # None
  /\ Found(session[c].user)
  /\ users' = [users EXCEPT ![session[c].user].live = FALSE]
  /\ UNCHANGED <<session, op, told, kept, draws>>

----------------------------------------------------------------------------

Next ==
  \E c \in Clients :
    \/ \E n \in Names, password \in Passwords :
         RegisterSave(c, n, password) \/ Login(c, n, password)
    \/ RegisterLogin(c)
    \/ RegisterRaises(c)
    \/ \E pair \in kept : RestoreSession(c, pair)
    \/ Logout(c)
    \/ \E old, new \in Passwords : ChangeCheck(c, old, new)
    \/ ChangeFetch(c)
    \/ \E n \in Names, phrase \in Draws, new \in Passwords :
         ResetFetch(c, n, phrase, new)
    \/ WriteCredentials(c)
    \/ Answer(c)
    \/ Rollback(c)
    \/ Crash(c)
    \/ DeleteUser(c)

Spec == Init /\ [][Next]_vars

----------------------------------------------------------------------------
(* AccountRegistry: an account's password is the one its hash was made of, and  *)
(* its phrase the one that encodes its backup KEK.                             *)

AccountOf(n) ==
  IF Found(n) THEN [password |-> users[n].cred.hash.password,
                    phrase   |-> users[n].cred.backup.kek]
              ELSE [password |-> None, phrase |-> None]

OperationOf(o) ==
  IF o = None THEN [step |-> "idle"]
  ELSE CASE o.kind = "login"  -> [step |-> "registered", name |-> o.name,
                                  password |-> o.password, phrase |-> o.phrase]
         [] o.kind = "check"  -> [step |-> "asked", name |-> o.name,
                                  old |-> o.old, new |-> o.new]
         [] o.kind = "write"  -> [step |-> "granted", name |-> o.name,
                                  password |-> o.cred.hash.password, phrase |-> o.phrase]
         [] o.kind = "answer" -> [step |-> "changed", name |-> o.name, phrase |-> o.phrase]

Account == [n \in Names |-> AccountOf(n)]
Gone    == {n \in Names : users[n] # None /\ ~users[n].live}
Issued  == 1 .. draws
Who     == [c \in Clients |-> session[c].user]
Entered == {pair.user : pair \in kept}
Doing   == [c \in Clients |-> OperationOf(op[c])]

Registry == INSTANCE AccountRegistry WITH
  Phrases <- Draws, account <- Account, gone <- Gone, issued <- Issued,
  who <- Who, entered <- Entered, doing <- Doing

----------------------------------------------------------------------------
(* Properties *)

\* The hashes, salts and wrapped keys behave as a password and a phrase per
\* account: a session or new credentials only for who shows the account's own,
\* both replaced at once, and never those of a deleted account (UserWriter,
\* UserManager).
ImplementsRegistry == Registry!Spec

\* The password that passes the check unwraps the DEK, and the backup KEK
\* unwraps the same one, whatever changes and resets raced: the six columns of
\* an account always come from one operation (_change_password).
Coherent ==
  \A n \in Names : users[n] # None =>
    LET cred == users[n].cred
    IN  /\ Unwrap(cred.dek, VerifyPassword(cred.hash.password, cred)) # None
        /\ cred.backup.dek = cred.dek.dek

\* An account once registered is never removed and never gets another DEK, so
\* its vault stays readable; once deleted it never comes back, not even by a
\* change or reset that had read it before (change_password, delete_user).
AccountStays(n) ==
  users[n] # None =>
    /\ users'[n] # None
    /\ users'[n].cred.dek.dek = users[n].cred.dek.dek
    /\ ~users[n].live => ~users'[n].live

AccountsStay == [][\A n \in Names : AccountStays(n)]_vars

\* Every active session holds its account's DEK, also after the password was
\* changed or reset by somebody else, and also a session restored from a kept
\* pair (UserManager.login, login_by_dek).
SessionsHoldDek ==
  \A c \in Clients : session[c] # NoSession =>
    /\ users[session[c].user] # None
    /\ session[c].dek = users[session[c].user].cred.dek.dek

\* The phrase that can recover a live account was returned to a caller or is on
\* its way to one.
Recoverable(n) ==
  Found(n) =>
    \/ users[n].cred.backup.kek \in told[n]
    \/ \E c \in Clients : /\ op[c] # None
                          /\ op[c].kind \in {"login", "answer"}
                          /\ op[c].name = n
                          /\ op[c].phrase = users[n].cred.backup.kek

\* Unless a failure or an active session cuts an operation short, an account can
\* be recovered: no race of changes and resets replaces its phrase by one that
\* nobody gets to see (UserWriter._change_password).
RecoveryPossible ==
  \A n \in Names \ (MayFail \cup RegisterLoggedIn) : Recoverable(n)

\* So it can when it was registered by a client that has a session
\* (prepare_new_user: "which the caller must show the user exactly once").
PhraseShown == \A n \in Names \ MayFail : Recoverable(n)

\* Whatever changes and resets of an account overlap, the commit of any of them
\* leaves no phrase that a caller already has working, not even one that another
\* of them had replaced before (reset_password: "the phrase the user already has
\* stops working").
Works(n, phrase) == users[n] # None /\ Unwrap(users[n].cred.backup, phrase) # None

ToldStopsWorking ==
  [][\A n \in Names : \A phrase \in told[n] :
       Works(n, phrase)' => Works(n, phrase) /\ users'[n].cred = users[n].cred]_vars

\* A recovery phrase resets a password once: no reset takes effect with a phrase
\* that was replaced since the reset read the account (reset_password: "one-time
\* backup KEK phrase").
OneTimePhrase ==
  [][\A c \in Clients :
       WriteCredentials(c) /\ op[c].used # None
         => users[op[c].name].cred.backup.kek = op[c].used]_vars
=============================================================================
