---------------------------- MODULE SharedSession ----------------------------
(***************************************************************************)
(* One UserManager whose attributes __user_id and __dek several threads of  *)
(* a process use, and PasswordManager, whose methods read them at different *)
(* moments of one operation.                                               *)
(*                                                                         *)
(* No lock guards the attributes: every assignment is a step, and so is     *)
(* every read together with the query that uses it.  Vault has the data;    *)
(* here a row keeps only whose DEK its password is sealed with.            *)
(***************************************************************************)
EXTENDS Naturals, FiniteSets

CONSTANTS
  Threads,
  Accounts,  \* an account's DEK is named by the account
  Services,
  None,
  MaxRows    \* bound: rows that are inserted

Row == [user : Accounts, service : Services, key : Accounts, live : BOOLEAN]

\* An operation: its argument, what it has read (the user and the sealing key
\* of the row get_pass_for fetched, the session key, the user_id for a new row,
\* the id that _add_or_update found), and its next step.
Call == [op : {"login", "restore", "logout", "get", "services", "entries", "set", "delete"},
         arg : Accounts \cup Services \cup {None},
         key : Accounts \cup {None}, user : Accounts \cup {None},
         sealed : Accounts \cup {None}, row : 1 .. MaxRows \cup {None},
         next : {"set uid", "set dek", "check uid", "clear dek", "clear uid",
                 "check key", "read key", "decrypt", "query", "delete",
                 "assert uid", "read uid", "look up", "commit"}]

\* A FacadeResult, or an exception that reaches the caller, and whether one
\* session lasted for the whole operation.
Answer == [op : {"get", "services", "entries", "set", "delete"},
           result : {"success", "failure", "raised"}, steady : BOOLEAN]

ASSUME NoneAssumption ==
  None \notin Accounts \cup Row \cup Call \cup Answer \cup (1 .. MaxRows)
ASSUME BoundAssumption == MaxRows \in Nat

VARIABLES
  uid,    \* __user_id
  dek,    \* __dek; None also stands for an empty one
  rows,   \* vault_entries
  call,   \* the operation each thread has under way
  answer, \* the last answer that an operation on the vault gave
  steady, \* has one session lasted since its operation began?
  overtaken \* has a logout cleared __dek while login_by_dek was half way?

vars == <<uid, dek, rows, call, answer, steady, overtaken>>

TypeOK ==
  /\ uid \in Accounts \cup {None}
  /\ dek \in Accounts \cup {None}
  /\ rows \in [1 .. MaxRows -> Row \cup {None}]
  /\ call \in [Threads -> Call \cup {None}]
  /\ answer \in Answer \cup {None}
  /\ steady \in [Threads -> BOOLEAN]
  /\ overtaken \in BOOLEAN

Init ==
  /\ uid = None /\ dek = None
  /\ rows = [i \in 1 .. MaxRows |-> None]
  /\ call = [t \in Threads |-> None]
  /\ answer = None
  /\ steady = [t \in Threads |-> FALSE]
  /\ overtaken = FALSE

----------------------------------------------------------------------------
(* An operator named after another with an underscore is a slip a           *)
(* programmer could make in it; no definition of the model uses one.        *)

Whole == uid # None /\ dek = uid

Begin(t, c) ==
  /\ call[t] = None
  /\ call' = [call EXCEPT ![t] = c]
  /\ steady' = [steady EXCEPT ![t] = Whole]

New(op, arg, next) ==
  [op |-> op, arg |-> arg, key |-> None, user |-> None, sealed |-> None,
   row |-> None, next |-> next]

At(t, next) == call[t] # None /\ call[t].next = next
Go(t, next) == call' = [call EXCEPT ![t].next = next]
Return(t)   == call' = [call EXCEPT ![t] = None]

Reply(t, result) ==
  /\ Return(t)
  /\ answer' = [op |-> call[t].op, result |-> result, steady |-> steady[t]]

Assigned == steady' = [t \in Threads |-> FALSE]

\* filter_by(user_id=...), which finds nothing when it is None.
Live(u) == {i \in 1 .. MaxRows : rows[i] # None /\ rows[i].user = u /\ rows[i].live}

\* What first() may return.
Lookup(u, s) ==
  LET found == {i \in Live(u) : rows[i].service = s}
  IN  IF found = {} THEN {None} ELSE found

----------------------------------------------------------------------------
(* UserManager *)

\* login looks at user_id, verifies the password, and then assigns.  A login
\* that is refused or fails changes nothing and is no step.
Login(t, a) ==
  /\ uid = None
  /\ Begin(t, New("login", a, "set uid"))
  /\ UNCHANGED <<uid, dek, rows, answer, overtaken>>

\* login_by_dek checks nothing and assigns in the other order; the caller has
\* the account's own DEK.
RestoreSession(t, a) ==
  /\ Begin(t, New("restore", a, "set dek"))
  /\ UNCHANGED <<uid, dek, rows, answer, overtaken>>

SetUid_BeforeUnwrap(t) ==
  /\ At(t, "set uid")
  /\ uid' = call[t].arg
  /\ Go(t, "set dek") \/ Return(t)
  /\ Assigned
  /\ UNCHANGED <<dek, rows, answer, overtaken>>

SetUid(t) ==
  /\ At(t, "set uid")
  /\ uid' = call[t].arg
  /\ IF call[t].op = "login" THEN Go(t, "set dek") ELSE Return(t)
  /\ Assigned
  /\ UNCHANGED <<dek, rows, answer, overtaken>>

SetDek(t) ==
  /\ At(t, "set dek")
  /\ dek' = call[t].arg
  /\ IF call[t].op = "restore" THEN Go(t, "set uid") ELSE Return(t)
  /\ Assigned
  /\ UNCHANGED <<uid, rows, answer, overtaken>>

\* logout checks __dek, then user_id, and clears them in this order.
Logout(t) ==
  /\ dek # None
  /\ Begin(t, New("logout", None, "check uid"))
  /\ UNCHANGED <<uid, dek, rows, answer, overtaken>>

CheckUid(t) ==
  /\ At(t, "check uid")
  /\ IF uid = None THEN Return(t) ELSE Go(t, "clear dek")
  /\ UNCHANGED <<uid, dek, rows, answer, steady, overtaken>>

Restoring == \E t \in Threads : At(t, "set uid") /\ call[t].op = "restore"

ClearDek(t) ==
  /\ At(t, "clear dek")
  /\ dek' = None
  /\ Go(t, "clear uid")
  /\ Assigned
  /\ overtaken' = (overtaken \/ Restoring)
  /\ UNCHANGED <<uid, rows, answer>>

ClearUid(t) ==
  /\ At(t, "clear uid")
  /\ uid' = None
  /\ Return(t)
  /\ Assigned
  /\ UNCHANGED <<dek, rows, answer, overtaken>>

----------------------------------------------------------------------------
(* PasswordManager *)

ListServices(t) ==
  /\ Begin(t, New("services", None, "check key"))
  /\ UNCHANGED <<uid, dek, rows, answer, overtaken>>

ListEntries(t) ==
  /\ Begin(t, New("entries", None, "check key"))
  /\ UNCHANGED <<uid, dek, rows, answer, overtaken>>

SetPassword(t, s) ==
  /\ Cardinality({o \in Threads : call[o] # None /\ call[o].op = "set"})
       < Cardinality({i \in 1 .. MaxRows : rows[i] = None})
  /\ Begin(t, New("set", s, "check key"))
  /\ UNCHANGED <<uid, dek, rows, answer, overtaken>>

DeletePassword(t, s) ==
  /\ Begin(t, New("delete", s, "check key"))
  /\ UNCHANGED <<uid, dek, rows, answer, overtaken>>

\* Only get_pass_for fetches a row before it asks for the key.
GetPassword(t, s) ==
  /\ \E i \in Lookup(uid, s) :
       Begin(t, IF i = None THEN New("get", s, "check key")
                ELSE [New("get", s, "check key") EXCEPT
                        !.row = i, !.user = rows[i].user, !.sealed = rows[i].key])
  /\ UNCHANGED <<uid, dek, rows, answer, overtaken>>

Missing_Escapes == "raised"

\* Nothing was fetched: get_password_for_service catches the KeyError.
Missing == "failure"

\* get_session_key looks at __dek; delete_password does not catch its
\* PermissionError.
CheckKey(t) ==
  /\ At(t, "check key")
  /\ IF call[t].op = "get" /\ call[t].row = None THEN Reply(t, Missing)
     ELSE IF dek = None THEN Reply(t, IF call[t].op = "delete" THEN "raised" ELSE "failure")
     ELSE Go(t, "read key") /\ UNCHANGED answer
  /\ UNCHANGED <<uid, dek, rows, steady, overtaken>>

\* And it reads __dek again, to return it.
ReadKey(t) ==
  /\ At(t, "read key")
  /\ call' = [call EXCEPT ![t].key = dek,
                          ![t].next = CASE call[t].op = "get" -> "decrypt"
                                        [] call[t].op = "set" -> "assert uid"
                                        [] OTHER -> "query"]
  /\ UNCHANGED <<uid, dek, rows, answer, steady, overtaken>>

\* A key that does not fit raises InvalidTag, and none a TypeError.
Decrypt(t) ==
  /\ At(t, "decrypt")
  /\ Reply(t, IF call[t].key = call[t].sealed THEN "success" ELSE "raised")
  /\ UNCHANGED <<uid, dek, rows, steady, overtaken>>

Listed(t) ==
  /\ At(t, "query") /\ call[t].op = "services"
  /\ Reply(t, "success")
  /\ UNCHANGED <<uid, dek, rows, steady, overtaken>>

\* get_all_decrypted opens the rows of the present user with the key that it
\* read before.
Decrypted(t) ==
  /\ At(t, "query") /\ call[t].op = "entries"
  /\ Reply(t, IF \A i \in Live(uid) : rows[i].key = call[t].key THEN "success" ELSE "raised")
  /\ UNCHANGED <<uid, dek, rows, steady, overtaken>>

\* delete_password looks for the live row; the ValueError of a service that is
\* not found is caught.
FindEntry(t) ==
  /\ At(t, "query") /\ call[t].op = "delete"
  /\ \E i \in Lookup(uid, call[t].arg) :
       IF i = None
       THEN Reply(t, "failure")
       ELSE /\ call' = [call EXCEPT ![t].row = i, ![t].next = "delete"]
            /\ UNCHANGED answer
  /\ UNCHANGED <<uid, dek, rows, steady, overtaken>>

\* The end of the session writes deleted_at, whatever became of the row.
DeleteEntry(t) ==
  /\ At(t, "delete")
  /\ rows' = [rows EXCEPT ![call[t].row].live = FALSE]
  /\ Reply(t, "success")
  /\ UNCHANGED <<uid, dek, steady, overtaken>>

\* _prepare_data encrypts (a TypeError without a key is caught) and asserts
\* that there is a user_id (an AssertionError is not).
AssertUid(t) ==
  /\ At(t, "assert uid")
  /\ IF call[t].key = None THEN Reply(t, "failure")
     ELSE IF uid = None THEN Reply(t, "raised")
     ELSE Go(t, "read uid") /\ UNCHANGED answer
  /\ UNCHANGED <<uid, dek, rows, steady, overtaken>>

ReadUid_Unvalidated(t) ==
  /\ At(t, "read uid")
  /\ call' = [call EXCEPT ![t].user = uid, ![t].next = "look up"]
  /\ UNCHANGED <<uid, dek, rows, answer, steady, overtaken>>

\* It reads user_id again; PasswordCreation refuses None with a ValidationError,
\* a ValueError, which is caught.
ReadUid(t) ==
  /\ At(t, "read uid")
  /\ IF uid = None THEN Reply(t, "failure")
     ELSE /\ call' = [call EXCEPT ![t].user = uid, ![t].next = "look up"]
          /\ UNCHANGED answer
  /\ UNCHANGED <<uid, dek, rows, steady, overtaken>>

\* _add_or_update reads user_id once more.
LookUp(t) ==
  /\ At(t, "look up")
  /\ \E i \in Lookup(uid, call[t].arg) :
       call' = [call EXCEPT ![t].row = i, ![t].next = "commit"]
  /\ UNCHANGED <<uid, dek, rows, answer, steady, overtaken>>

CommitPassword(t) ==
  /\ At(t, "commit")
  /\ IF call[t].row = None
     THEN \E i \in 1 .. MaxRows :
            /\ rows[i] = None /\ \A j \in 1 .. i - 1 : rows[j] # None
            /\ rows' = [rows EXCEPT ![i] = [user |-> call[t].user, service |-> call[t].arg,
                                            key |-> call[t].key, live |-> TRUE]]
     ELSE rows' = [rows EXCEPT ![call[t].row].key = call[t].key]
  /\ Reply(t, "success")
  /\ UNCHANGED <<uid, dek, steady, overtaken>>

----------------------------------------------------------------------------

Next ==
  \E t \in Threads :
    \/ \E a \in Accounts : Login(t, a) \/ RestoreSession(t, a)
    \/ SetUid(t) \/ SetDek(t)
    \/ Logout(t) \/ CheckUid(t) \/ ClearDek(t) \/ ClearUid(t)
    \/ \E s \in Services : GetPassword(t, s) \/ SetPassword(t, s) \/ DeletePassword(t, s)
    \/ ListServices(t) \/ ListEntries(t)
    \/ CheckKey(t) \/ ReadKey(t)
    \/ Decrypt(t) \/ Listed(t) \/ Decrypted(t)
    \/ FindEntry(t) \/ DeleteEntry(t)
    \/ AssertUid(t) \/ ReadUid(t) \/ LookUp(t) \/ CommitPassword(t)

Spec == Init /\ [][Next]_vars

----------------------------------------------------------------------------
(* Properties *)

\* However logins and logouts of the threads race, they never leave a session
\* that login refuses because there is a user_id and logout because there is
\* no DEK: login assigns user_id first, logout clears it last.  Only a logout
\* that overtakes login_by_dek does (login, login_by_dek, logout).
NeverStuck ==
  (\A t \in Threads : call[t] = None) /\ ~overtaken => (uid # None => dek # None)

\* While one session of one account lasts, no operation of the facade raises,
\* and none but get and delete fails, whatever earlier operations raced with
\* logouts (PasswordManager, PasswordReader, PasswordWriter).
SteadyAnswers ==
  answer # None /\ answer.steady =>
    /\ answer.result # "raised"
    /\ answer.op \in {"services", "entries", "set"} => answer.result = "success"

\* Only the owner's session key is ever used to open a row (docs/index.md:
\* "there's no code path that decrypts one user's vault using another user's
\* session key").
OwnKeyOnly ==
  [][\A t \in Threads :
       /\ Decrypt(t) => call[t].key \in {call[t].user, None}
       /\ Decrypted(t) => \A i \in Live(uid) : call[t].key \in {rows[i].user, None}]_vars
=============================================================================
