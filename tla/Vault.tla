------------------------------- MODULE Vault -------------------------------
(***************************************************************************)
(* The encrypted vault of passlair: the rows of the table vault_entries,   *)
(* the session every client process keeps in its UserManager, and the      *)
(* operations of PasswordWriter and PasswordReader on them.                *)
(*                                                                         *)
(* A client runs one operation at a time.  An operation that writes reads  *)
(* rows first and commits later (save_password even does so in a second    *)
(* database session), so it is two steps here: one that reads and prepares *)
(* the changed objects, and Commit or Rollback.  Between them other clients*)
(* of the same database may commit.  delete_user is two steps as well: it  *)
(* looks at its account, and then updates and commits in one transaction.  *)
(***************************************************************************)
EXTENDS Naturals, FiniteSets

CONSTANTS
  Clients,         \* processes (or threads) with a UserManager of their own
  Users,           \* accounts; an account's DEK is named by the account
  Services,
  Creds,           \* [login, password] pairs that callers ask to store
  BadCreds,        \* pairs with an empty login or password
  None,
  Deleted,         \* what delete_password asks for
  MaxDraws,        \* bound: calls that draw a fresh uuid and nonce
  SharedAccounts,  \* may two clients hold sessions of one account?
  RestoreAny       \* may restore_session be given another account's DEK?

Logins    == {cred.login : cred \in Creds}
Passwords == {cred.password : cred \in Creds}

\* One call draws a uuid and a nonce for each service it encrypts for; the
\* pair of the call's number and the service stands for both of them.
Ids == (1 .. MaxDraws) \X Services

\* The columns of vault_entries that an operation may change.
Columns == {"login", "password", "nonce", "live"}

Ciphertext == [text : Passwords, key : Users, nonce : Ids]

\* A row of vault_entries.  Its id carries its service_name, which no code
\* changes; live is "deleted_at IS NULL".
Row == [user : Users, login : Logins, password : Ciphertext, nonce : Ids,
        live : BOOLEAN]

\* A changed object: the row it belongs to, the values the object now holds,
\* and the columns that differ from what was loaded.
Write == [id : Ids, row : Row, dirty : SUBSET Columns]

Session == [user : Users \cup {None}, dek : Users \cup {None}]

\* An operation under way: what was asked of each service, and its changed
\* objects.  ok is FALSE when the operation has raised.
Txn == [user   : Users,
        asked  : [Services -> Creds \cup BadCreds \cup {Deleted, None}],
        writes : [Services -> Write \cup {None}],
        ok     : BOOLEAN]

ASSUME CredsAssumption ==
  /\ \A cred \in Creds \cup BadCreds : cred = [login |-> cred.login,
                                               password |-> cred.password]
  /\ Creds \cap BadCreds = {}
  /\ {None, Deleted} \cap (Creds \cup BadCreds) = {}
  /\ None # Deleted
ASSUME NoneAssumption ==
  /\ None \notin Users \cup Ids \cup Passwords
  /\ None \notin [login : Logins, password : Passwords]
  /\ None \notin Row
  /\ None \notin Write
  /\ None \notin Txn
  /\ None \notin [user : Users, asked : [Services -> Creds \cup BadCreds \cup {Deleted, None}]]
ASSUME BoundAssumption == MaxDraws \in Nat
ASSUME ModeAssumption == SharedAccounts \in BOOLEAN /\ RestoreAny \in BOOLEAN

VARIABLES
  entries,   \* the table vault_entries: None where no row has that id
  session,   \* UserManager's user_id and dek, per client
  txn,       \* the operation each client has under way
  draws,     \* how many calls have drawn uuids and nonces
  gone,      \* accounts whose row in the users table is a tombstone
  erasing    \* clients whose delete_user has found their account alive

vars == <<entries, session, txn, draws, gone, erasing>>

NoSession == [user |-> None, dek |-> None]

TypeOK ==
  /\ entries \in [Ids -> Row \cup {None}]
  /\ session \in [Clients -> Session]
  /\ txn \in [Clients -> Txn \cup {None}]
  /\ draws \in 0 .. MaxDraws
  /\ gone \subseteq Users
  /\ erasing \subseteq Clients

Init ==
  /\ entries = [i \in Ids |-> None]
  /\ session = [c \in Clients |-> NoSession]
  /\ txn = [c \in Clients |-> None]
  /\ draws = 0
  /\ gone = {}
  /\ erasing = {}

----------------------------------------------------------------------------
(* Encryption and the readers.  An operator named after another with an     *)
(* underscore, such as Matching_DeletedToo, is a slip a programmer could    *)
(* make in it; no definition of the model uses one.                        *)

Encrypt(text, key, nonce) == [text |-> text, key |-> key, nonce |-> nonce]

\* None stands for the exception that a wrong key or nonce raises.
Decrypt(ciphertext, nonce, key) ==
  IF ciphertext.nonce = nonce /\ ciphertext.key = key
    THEN ciphertext.text
    ELSE None

\* The ids of user u's rows that every read path keeps.
LiveRows(u) == {i \in Ids : /\ entries[i] # None
                            /\ entries[i].user = u
                            /\ entries[i].live}

Matching_DeletedToo(u, s) ==
  {i \in Ids : entries[i] # None /\ entries[i].user = u /\ i[2] = s}

Matching(u, s) == {i \in LiveRows(u) : i[2] = s}

FetchRow_NeverFinds(u, s) == {None}

\* What first() may return: any matching row, in no order, or None.
FetchRow(u, s) == IF Matching(u, s) = {} THEN {None} ELSE Matching(u, s)

Reveal(row, key) ==
  [login |-> row.login, password |-> Decrypt(row.password, row.nonce, key)]

\* The answers get_pass_for may give; None is its KeyError.
GetPassFor(u, key, s) ==
  {IF i = None THEN None ELSE Reveal(entries[i], key) : i \in FetchRow(u, s)}

GetAllServices_DeletedToo(u) ==
  [s \in Services |-> Cardinality(Matching_DeletedToo(u, s))]

\* get_all_services returns a list: how often each name is in it.
GetAllServices(u) == [s \in Services |-> Cardinality(Matching(u, s))]

\* A dict {service_name: row} built from a query: of several rows with one
\* name the last one wins, in no particular order.
ByService(u) ==
  {f \in [Services -> UNION {FetchRow(u, s) : s \in Services}] :
     \A s \in Services : f[s] \in FetchRow(u, s)}

\* The dicts get_all_decrypted may return.
GetAllDecrypted(u, key) ==
  {[s \in Services |-> IF f[s] = None THEN None ELSE Reveal(entries[f[s]], key)] :
     f \in ByService(u)}

----------------------------------------------------------------------------
(* Sessions *)

\* No operation of c is under way.
Idle(c) == txn[c] = None /\ c \notin erasing

Exclusive(c, u) == SharedAccounts \/ \A o \in Clients \ {c} : session[o].user # u

\* UserManager.login with a right password: it sets both fields.
Login(c, u) ==
  /\ Idle(c)
  /\ session[c].user = None
  /\ u \notin gone
  /\ Exclusive(c, u)
  /\ session' = [session EXCEPT ![c] = [user |-> u, dek |-> u]]
  /\ UNCHANGED <<entries, txn, draws, gone, erasing>>

\* login_by_dek checks nothing, not even that no session is active.
RestoreSession(c, u, dek) ==
  /\ Idle(c)
  /\ RestoreAny \/ dek = u
  /\ Exclusive(c, u)
  /\ session' = [session EXCEPT ![c] = [user |-> u, dek |-> dek]]
  /\ UNCHANGED <<entries, txn, draws, gone, erasing>>

Logout(c) ==
  /\ Idle(c)
  /\ session[c].user # None
  /\ session[c].dek # None
  /\ session' = [session EXCEPT ![c] = NoSession]
  /\ UNCHANGED <<entries, txn, draws, gone, erasing>>

----------------------------------------------------------------------------
(* The writers *)

NewPassword_NonceForgotten(u, s, cred, key, nonce) ==
  [user |-> u, login |-> cred.login,
   password |-> Encrypt(cred.password, key, nonce), nonce |-> None,
   live |-> TRUE]

NewPassword(u, s, cred, key, nonce) ==
  [user |-> u, login |-> cred.login,
   password |-> Encrypt(cred.password, key, nonce), nonce |-> nonce,
   live |-> TRUE]

UpdatePassword_NonceKept(row, cred, key, nonce) ==
  [row EXCEPT !.login = cred.login,
              !.password = Encrypt(cred.password, key, nonce)]

UpdatePassword(row, cred, key, nonce) ==
  [row EXCEPT !.login = cred.login,
              !.password = Encrypt(cred.password, key, nonce),
              !.nonce = nonce]

Dirty_Everything(loaded, row) == Columns

\* An UPDATE names the columns whose value differs from the loaded one.
Dirty(loaded, row) == {f \in Columns : loaded[f] # row[f]}

\* The changed object that saving cred for service s leaves, when the query
\* found the row i.
Prepare(c, s, cred, i) ==
  LET nonce == <<draws + 1, s>>
      key   == session[c].dek
  IN  IF i = None
        THEN [id    |-> nonce,
              row   |-> NewPassword(session[c].user, s, cred, key, nonce),
              dirty |-> Columns]
        ELSE LET row == UpdatePassword(entries[i], cred, key, nonce)
             IN  [id |-> i, row |-> row, dirty |-> Dirty(entries[i], row)]

IsUnchanged_LoginOnly(row, cred, key) == row.login = cred.login

IsUnchanged(row, cred, key) ==
  /\ row.login = cred.login
  /\ Decrypt(row.password, row.nonce, key) = cred.password

\* _is_unchanged decrypts only when the logins agree; a wrong key raises.
Compares(row, cred, key) ==
  row.login = cred.login => Decrypt(row.password, row.nonce, key) # None

Begin(c, asked, writes, ok) ==
  txn' = [txn EXCEPT ![c] = [user |-> session[c].user, asked |-> asked,
                             writes |-> writes, ok |-> ok]]

\* get_session_key raises without a session, an empty cred is rejected before
\* anything is read: such calls change nothing and are no step.
Ready(c) == Idle(c) /\ session[c].dek # None

Draw == draws < MaxDraws /\ draws' = draws + 1

SavePassword(c, s, cred) ==
  /\ Ready(c)
  /\ Draw
  /\ \E i \in FetchRow(session[c].user, s) :
       Begin(c, [t \in Services |-> IF t = s THEN cred ELSE None],
                [t \in Services |-> IF t = s THEN Prepare(c, s, cred, i) ELSE None],
                TRUE)
  /\ UNCHANGED <<entries, session, gone, erasing>>

\* An unchanged entry is skipped; an empty login or password, or an entry
\* that cannot be decrypted for the comparison, raises.
SavePasswords(c, batch) ==
  LET key     == session[c].dek
      Skip(s, i) == \/ batch[s] \notin Creds
                    \/ i # None /\ IsUnchanged(entries[i], batch[s], key)
      Fine(s, i) == /\ batch[s] \notin BadCreds
                    /\ i # None /\ batch[s] # None
                         => Compares(entries[i], batch[s], key)
  IN
  /\ Ready(c)
  /\ Draw
  /\ \E existing \in ByService(session[c].user) :
       Begin(c, batch,
             [s \in Services |-> IF Skip(s, existing[s]) THEN None
                                 ELSE Prepare(c, s, batch[s], existing[s])],
             \A s \in Services : Fine(s, existing[s]))
  /\ UNCHANGED <<entries, session, gone, erasing>>

\* Without a live row delete_password raises and changes nothing.
DeletePassword(c, s) ==
  /\ Ready(c)
  /\ \E i \in Matching(session[c].user, s) :
       Begin(c, [t \in Services |-> IF t = s THEN Deleted ELSE None],
                [t \in Services |->
                   IF t = s
                     THEN [id |-> i, row |-> [entries[i] EXCEPT !.live = FALSE],
                           dirty |-> {"live"}]
                     ELSE None],
                TRUE)
  /\ UNCHANGED <<entries, session, draws, gone, erasing>>

\* The row after the INSERT or UPDATE of a changed object.
Flush(row, w) ==
  IF row = None THEN w.row
  ELSE [user     |-> row.user,
        login    |-> IF "login" \in w.dirty THEN w.row.login ELSE row.login,
        password |-> IF "password" \in w.dirty THEN w.row.password ELSE row.password,
        nonce    |-> IF "nonce" \in w.dirty THEN w.row.nonce ELSE row.nonce,
        live     |-> IF "live" \in w.dirty THEN w.row.live ELSE row.live]

\* db.session() commits: all changed objects or none.
Commit(c) ==
  /\ txn[c] # None
  /\ txn[c].ok
  /\ entries' = [i \in Ids |->
                   LET w == txn[c].writes[i[2]]
                   IN  IF w = None \/ w.id # i THEN entries[i]
                       ELSE Flush(entries[i], w)]
  /\ txn' = [txn EXCEPT ![c] = None]
  /\ UNCHANGED <<session, draws, gone, erasing>>

\* The operation raised, or the database refused: db.session() rolls back.
Rollback(c) ==
  /\ ~Idle(c)
  /\ txn' = [txn EXCEPT ![c] = None]
  /\ erasing' = erasing \ {c}
  /\ UNCHANGED <<entries, session, draws, gone>>

\* The process ends at any point: its session and its operation are lost.
Crash(c) ==
  /\ session[c] # NoSession
  /\ session' = [session EXCEPT ![c] = NoSession]
  /\ txn' = [txn EXCEPT ![c] = None]
  /\ erasing' = erasing \ {c}
  /\ UNCHANGED <<entries, draws, gone>>

\* UserWriter.delete_user raises unless the account is alive.
FindUser(c) ==
  /\ Idle(c)
  /\ session[c].user \in Users \ gone
  /\ erasing' = erasing \cup {c}
  /\ UNCHANGED <<entries, session, txn, draws, gone>>

\* Its bulk UPDATE takes the entries that are live by now, even if another client
\* has deleted the account since; the session stays active.
DeleteUser(c) ==
  /\ c \in erasing
  /\ entries' = [i \in Ids |-> IF i \in LiveRows(session[c].user)
                                 THEN [entries[i] EXCEPT !.live = FALSE]
                                 ELSE entries[i]]
  /\ gone' = gone \cup {session[c].user}
  /\ erasing' = erasing \ {c}
  /\ UNCHANGED <<session, txn, draws>>

----------------------------------------------------------------------------

Batches == {b \in [Services -> Creds \cup BadCreds \cup {None}] :
              \E s \in Services : b[s] # None}

Next ==
  \E c \in Clients :
    \/ \E u \in Users : Login(c, u)
    \/ \E u, dek \in Users : RestoreSession(c, u, dek)
    \/ Logout(c)
    \/ \E s \in Services, cred \in Creds : SavePassword(c, s, cred)
    \/ \E batch \in Batches : SavePasswords(c, batch)
    \/ \E s \in Services : DeletePassword(c, s)
    \/ Commit(c)
    \/ Rollback(c)
    \/ Crash(c)
    \/ FindUser(c)
    \/ DeleteUser(c)

Spec == Init /\ [][Next]_vars

----------------------------------------------------------------------------
(* Properties *)

\* Every live row opens with the DEK of the account that owns it, whatever
\* updates raced: ciphertext and nonce of a row always belong together
\* (PasswordWriter._update_password, Session.commit).
Readable ==
  \A i \in Ids : entries[i] # None /\ entries[i].live =>
    Decrypt(entries[i].password, entries[i].nonce, entries[i].user) # None

\* An account has at most one live row for a service; no constraint of the
\* table says so, only _add_or_update and save_passwords keep it.
OneLivePerService ==
  \A u \in Users, s \in Services : Cardinality(Matching(u, s)) <= 1

\* The three read paths of PasswordReader agree with each other: the list of
\* services names a service once exactly when get_pass_for finds it, and the
\* decrypted dict holds the very answer get_pass_for gives.
ReadersAgree ==
  \A c \in Clients : session[c] # NoSession =>
    LET u == session[c].user
        key == session[c].dek
    IN  \A dict \in GetAllDecrypted(u, key), s \in Services :
          /\ GetPassFor(u, key, s) = {dict[s]}
          /\ GetAllServices(u)[s] = (IF dict[s] = None THEN 0 ELSE 1)

RowStays(i) ==
  entries[i] # None => /\ entries'[i] # None
                       /\ ~entries[i].live => ~entries'[i].live

\* A row, once written, is never removed, and a tombstone never comes back
\* to life: not even an update that loaded the row before its deletion and
\* commits after it undoes the deletion (delete_password, _update_password).
TombstonesStay == [][\A i \in Ids : RowStays(i)]_vars

\* The login and the password of a live row were saved together, by one call
\* (save_password: "there's no partial-failure case").
NoMixedCredential ==
  \A u \in Users : \A i \in LiveRows(u) : Reveal(entries[i], u) \in Creds

----------------------------------------------------------------------------
(* While no two clients share an account, the vault implements              *)
(* CredentialStore: an account's credentials are what its own key decrypts. *)

View(u) ==
  [s \in Services |-> CHOOSE answer \in GetPassFor(u, u, s) : TRUE]

Store == INSTANCE CredentialStore WITH
  store   <- [u \in Users |-> View(u)],
  pending <- [c \in Clients |->
                IF txn[c] = None THEN None
                ELSE [user |-> txn[c].user, asked |-> txn[c].asked]]

\* Every step of the vault is one of the abstract store or changes nothing
\* there: a save or delete is atomic however many rows and columns it
\* writes, skipping unchanged entries does not show, and neither rollback nor
\* crash leaves a trace (PasswordWriter, DatabaseManager.session).
ImplementsStore == Store!Spec
=============================================================================
