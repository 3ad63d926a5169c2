--------------------------- MODULE AccountsProofs ---------------------------
(***************************************************************************)
(* Theorems about Accounts, for any number of clients, names, passwords    *)
(* and draws, whether or not clients share accounts, processes end in the  *)
(* middle, or accounts are registered by clients that have a session.      *)
(***************************************************************************)
EXTENDS Accounts, TLAPS

----------------------------------------------------------------------------
(* The inductive invariant *)

\* Credentials made by one operation: the hash, the salt and the KEK that wraps
\* the DEK belong together, and both wraps hold the same DEK.
Whole(cred) ==
  /\ cred.hash = Derive(cred.hash.password, cred.salt)
  /\ cred.dek.kek = cred.hash
  /\ cred.backup.dek = cred.dek.dek

RowsWhole == \A n \in Names : users[n] # None => Whole(users[n].cred)

\* The DEK in a pair is the one that the account's row wraps.
PairOK(pair) == users[pair.user] # None /\ pair.dek = users[pair.user].cred.dek.dek

PairsOK ==
  /\ \A pair \in kept : PairOK(pair)
  /\ \A c \in Clients : session[c] # NoSession => PairOK(session[c])

\* What an operation is about to commit is whole and wraps the account's DEK,
\* whatever has been committed since it read the account.
OpOK(o) == o # None /\ o.kind = "write" =>
  /\ Whole(o.cred)
  /\ users[o.name] # None
  /\ o.cred.dek.dek = users[o.name].cred.dek.dek

OpsOK == \A c \in Clients : OpOK(op[c])

IInv == TypeOK /\ RowsWhole /\ PairsOK /\ OpsOK

----------------------------------------------------------------------------
(* Credentials *)

LEMMA NewCredentialsWhole ==
  ASSUME NEW dek \in Draws, NEW password \in Passwords, NEW n \in Draws
  PROVE  /\ NewCredentials(dek, password, n) \in Credentials
         /\ Whole(NewCredentials(dek, password, n))
         /\ NewCredentials(dek, password, n).dek.dek = dek
BY DEF NewCredentials, Credentials, Derived, Derive, Wrap, Whole

\* A right password unwraps the very DEK the row holds.
LEMMA RightPasswordUnwraps ==
  ASSUME IInv, NEW n \in Names, NEW password \in Passwords, Verified(n, password)
  PROVE  LET cred == users[n].cred
         IN  /\ users[n] # None
             /\ Unwrap(cred.dek, VerifyPassword(password, cred)) = cred.dek.dek
             /\ cred.dek.dek \in Draws
<1> DEFINE cred == users[n].cred
<1>1. users[n] # None /\ users[n] \in Row /\ Whole(cred)
  BY DEF Verified, Found, IInv, TypeOK, RowsWhole
<1>2. VerifyPassword(password, cred) = cred.hash
  BY DEF Verified, VerifyPassword
<1> QED
  BY <1>1, <1>2 DEF Whole, Unwrap, Row, Credentials

LEMMA EnterOK ==
  ASSUME IInv, NEW c \in Clients, NEW n \in Names, NEW password \in Passwords,
         Verified(n, password), Enter(c, n, password)
  PROVE  LET pair == [user |-> n, dek |-> users[n].cred.dek.dek]
         IN  /\ pair \in [user : Names, dek : Draws] /\ PairOK(pair)
             /\ session' = [session EXCEPT ![c] = pair]
             /\ kept' = kept \cup {pair}
<1>1. /\ users[n] # None /\ users[n].cred.dek.dek \in Draws
      /\ session' = [session EXCEPT ![c] = [user |-> n, dek |-> users[n].cred.dek.dek]]
  BY RightPasswordUnwraps DEF Enter
<1>2. session'[c] = [user |-> n, dek |-> users[n].cred.dek.dek]
  BY <1>1 DEF IInv, TypeOK
<1> QED
  BY <1>1, <1>2 DEF Enter, PairOK

----------------------------------------------------------------------------
(* Preservation *)

\* What a step must keep: every row with its DEK, rows that are whole, pairs
\* that fit the rows, and pending commits that fit them too.
LEMMA StepPreserves ==
  ASSUME IInv, TypeOK',
         \A n \in Names : users[n] # None =>
           users'[n] # None /\ users'[n].cred.dek.dek = users[n].cred.dek.dek,
         \A n \in Names : users'[n] = users[n] \/ Whole(users'[n].cred),
         \A pair \in kept' : PairOK(pair)',
         \A c \in Clients : \/ session'[c] = session[c]
                            \/ session'[c] = NoSession
                            \/ PairOK(session[c])',
         \A c \in Clients : op'[c] = op[c] \/ OpOK(op'[c])
  PROVE  IInv'
<1>1. RowsWhole'
  BY DEF IInv, RowsWhole, Whole, Derive
<1>2. PairsOK'
  <2>1. \A c \in Clients : session'[c] # NoSession => PairOK(session[c])'
    BY DEF IInv, TypeOK, PairsOK, PairOK
  <2> QED
    BY <2>1 DEF PairsOK, PairOK
<1>3. OpsOK'
  <2>1. \A c \in Clients : OpOK(op'[c])
    BY DEF IInv, OpsOK
  <2>2. \A c \in Clients : op'[c] # None /\ op'[c].kind = "write" => op'[c].name \in Names
    BY DEF TypeOK, Op
  <2> QED
    BY <2>1, <2>2 DEF OpsOK, OpOK, Whole, Derive
<1> QED
  BY <1>1, <1>2, <1>3 DEF IInv

\* A step that changes no row and no pair.
LEMMA QuietStep ==
  ASSUME IInv, TypeOK', UNCHANGED <<users, kept>>,
         \A c \in Clients : session'[c] = session[c] \/ session'[c] = NoSession,
         \A c \in Clients : op'[c] = op[c] \/ OpOK(op'[c])
  PROVE  IInv'
<1>1. \A pair \in kept' : PairOK(pair)'
  BY DEF IInv, PairsOK, PairOK
<1> QED
  BY <1>1, StepPreserves

LEMMA RewrapOK ==
  ASSUME IInv, NEW c \in Clients, NEW n \in Names, users[n] # None,
         NEW new \in Passwords, NEW used \in Draws \cup {None},
         Rewrap(c, n, users[n].cred.dek.dek, new, used),
         UNCHANGED <<users, session, told, kept>>
  PROVE  IInv'
<1> DEFINE dek == users[n].cred.dek.dek
           cred == NewCredentials(dek, new, draws')
<1>1. draws' \in Draws /\ draws' \in 0 .. MaxDraws /\ dek \in Draws
  BY BoundAssumption DEF Rewrap, Draw, Draws, IInv, TypeOK, Row, Credentials
<1>2. cred \in Credentials /\ Whole(cred) /\ cred.dek.dek = dek
  BY <1>1, NewCredentialsWhole
<1> HIDE DEF cred
<1>3. op' = [op EXCEPT ![c] = [kind |-> "write", name |-> n, cred |-> cred,
                               phrase |-> draws', used |-> used]]
  BY DEF Rewrap, cred
<1>4. TypeOK'
  BY <1>1, <1>2, <1>3 DEF IInv, TypeOK, Op
<1>5. /\ op'[c].cred = cred /\ op'[c].name = n
      /\ \A d \in Clients \ {c} : op'[d] = op[d]
  BY <1>3 DEF IInv, TypeOK
<1>6. OpOK(op'[c])
  BY <1>2, <1>5 DEF OpOK
<1> QED
  BY <1>2, <1>4, <1>5, <1>6, QuietStep DEF IInv, PairsOK

\* A commit of whole credentials that wrap the account's DEK.
LEMMA WriteCredentialsPreserves ==
  ASSUME IInv, NEW c \in Clients, WriteCredentials(c)
  PROVE  IInv'
<1>1. /\ op[c] \in Op /\ op[c] # None /\ op[c].kind = "write"
      /\ UNCHANGED <<session, told, kept, draws>>
  BY DEF WriteCredentials, IInv, TypeOK
<1>2. PICK n \in Names, cred \in Credentials, phrase \in Draws :
        n = op[c].name /\ cred = op[c].cred /\ phrase = op[c].phrase
  BY <1>1 DEF Op
<1>3. Whole(cred) /\ users[n] # None /\ cred.dek.dek = users[n].cred.dek.dek
  BY <1>1, <1>2 DEF IInv, OpsOK, OpOK
<1>4. users[n] \in Row
  BY <1>3 DEF IInv, TypeOK
<1> DEFINE row == [users[n] EXCEPT !.cred = cred]
<1>5. row \in Row /\ row.cred = cred /\ row # None
  BY <1>4, NoneAssumption DEF Row
<1>6. users' = [users EXCEPT ![n] = row]
  BY <1>2 DEF WriteCredentials, Updated
<1>7. op' = [op EXCEPT ![c] = [kind |-> "answer", name |-> n, phrase |-> phrase]]
  BY <1>2 DEF WriteCredentials
<1> HIDE DEF row
<1>8. TypeOK'
  BY <1>1, <1>5, <1>6, <1>7 DEF IInv, TypeOK, Op
<1>9. \A m \in Names : users[m] # None =>
        users'[m] # None /\ users'[m].cred.dek.dek = users[m].cred.dek.dek
  BY <1>3, <1>5, <1>6 DEF IInv, TypeOK
<1>10. \A m \in Names : users'[m] = users[m] \/ Whole(users'[m].cred)
  BY <1>3, <1>5, <1>6 DEF IInv, TypeOK
<1>11. \A pair \in kept' : PairOK(pair)'
  BY <1>1, <1>9 DEF IInv, TypeOK, PairsOK, PairOK
<1>12. \A d \in Clients : op'[d] = op[d] \/ OpOK(op'[d])
  BY <1>7 DEF IInv, TypeOK, OpOK
<1> QED
  BY <1>1, <1>8, <1>9, <1>10, <1>11, <1>12, StepPreserves

LEMMA RegisterSavePreserves ==
  ASSUME IInv, NEW c \in Clients, NEW n \in Names, NEW password \in Passwords,
         RegisterSave(c, n, password)
  PROVE  IInv'
<1> DEFINE cred == NewCredentials(draws', password, draws')
           row == [cred |-> cred, live |-> TRUE]
<1>1. draws' \in Draws /\ draws' \in 0 .. MaxDraws
  BY BoundAssumption DEF RegisterSave, Draw, Draws, IInv, TypeOK
<1>2. cred \in Credentials /\ Whole(cred)
  BY <1>1, NewCredentialsWhole
<1>3. row \in Row /\ row.cred = cred
  BY <1>2 DEF Row
<1>4. /\ users' = [users EXCEPT ![n] = row] /\ users[n] = None
      /\ op' = [op EXCEPT ![c] = [kind |-> "login", name |-> n,
                                  password |-> password, phrase |-> draws']]
      /\ UNCHANGED <<session, told, kept>>
  BY DEF RegisterSave
<1> HIDE DEF cred, row
<1>5. TypeOK'
  BY <1>1, <1>3, <1>4 DEF IInv, TypeOK, Op
<1>6. \A m \in Names : users[m] # None =>
        users'[m] # None /\ users'[m].cred.dek.dek = users[m].cred.dek.dek
  BY <1>4 DEF IInv, TypeOK
<1>7. \A m \in Names : users'[m] = users[m] \/ Whole(users'[m].cred)
  BY <1>2, <1>3, <1>4 DEF IInv, TypeOK
<1>8. \A pair \in kept' : PairOK(pair)'
  BY <1>4, <1>6 DEF IInv, TypeOK, PairsOK, PairOK
<1>9. \A d \in Clients : op'[d] = op[d] \/ OpOK(op'[d])
  BY <1>4 DEF IInv, TypeOK, OpOK
<1> QED
  BY <1>4, <1>5, <1>6, <1>7, <1>8, <1>9, StepPreserves

LEMMA DeleteUserPreserves ==
  ASSUME IInv, NEW c \in Clients, DeleteUser(c)
  PROVE  IInv'
<1>1. PICK n \in Names : n = session[c].user /\ users[n] # None /\ users[n] \in Row
  BY DEF DeleteUser, Found, IInv, TypeOK, NoSession
<1> DEFINE row == [users[n] EXCEPT !.live = FALSE]
<1>2. row \in Row /\ row.cred = users[n].cred /\ row # None
  BY <1>1, NoneAssumption DEF Row
<1>3. users' = [users EXCEPT ![n] = row] /\ UNCHANGED <<session, op, told, kept, draws>>
  BY <1>1 DEF DeleteUser
<1> HIDE DEF row
<1>4. TypeOK'
  BY <1>2, <1>3 DEF IInv, TypeOK
<1>5. \A m \in Names : users[m] # None =>
        users'[m] # None /\ users'[m].cred.dek.dek = users[m].cred.dek.dek
  BY <1>2, <1>3 DEF IInv, TypeOK
<1>6. \A m \in Names : users'[m] = users[m] \/ Whole(users'[m].cred)
  BY <1>1, <1>2, <1>3 DEF IInv, TypeOK, RowsWhole
<1>7. \A pair \in kept' : PairOK(pair)'
  BY <1>3, <1>5 DEF IInv, TypeOK, PairsOK, PairOK
<1> QED
  BY <1>3, <1>4, <1>5, <1>6, <1>7, StepPreserves

\* A step that opens a session and changes no row.
LEMMA SessionStep ==
  ASSUME IInv, NEW c \in Clients, NEW pair \in [user : Names, dek : Draws],
         PairOK(pair), session' = [session EXCEPT ![c] = pair],
         kept' = kept \cup {pair},
         UNCHANGED <<users, draws>>, told' \in [Names -> SUBSET Draws],
         op' = op \/ op' = [op EXCEPT ![c] = None]
  PROVE  IInv'
<1>1. TypeOK'
  BY DEF IInv, TypeOK
<1>2. \A p \in kept' : PairOK(p)'
  BY DEF IInv, PairsOK, PairOK
<1>3. \A d \in Clients : session'[d] = session[d] \/ PairOK(session[d])'
  BY DEF IInv, TypeOK, PairOK
<1>4. \A d \in Clients : op'[d] = op[d] \/ OpOK(op'[d])
  BY DEF IInv, TypeOK, OpOK
<1> QED
  BY <1>1, <1>2, <1>3, <1>4, StepPreserves DEF IInv, RowsWhole

LEMMA RegisterLoginPreserves ==
  ASSUME IInv, NEW c \in Clients, RegisterLogin(c)
  PROVE  IInv'
<1>1. PICK n \in Names, password \in Passwords, phrase \in Draws :
        op[c] = [kind |-> "login", name |-> n, password |-> password, phrase |-> phrase]
  BY DEF RegisterLogin, IInv, TypeOK, Op
<1>2. /\ op' = [op EXCEPT ![c] = None] /\ UNCHANGED <<users, draws>>
      /\ told' \in [Names -> SUBSET Draws]
  BY <1>1 DEF RegisterLogin, Stop, Tell, IInv, TypeOK
<1>3. CASE UNCHANGED <<session, kept>>
  <2>1. TypeOK'
    BY <1>2, <1>3 DEF IInv, TypeOK
  <2>2. \A d \in Clients : op'[d] = op[d] \/ OpOK(op'[d])
    BY <1>2 DEF IInv, TypeOK, OpOK
  <2> QED
    BY <1>2, <1>3, <2>1, <2>2, QuietStep
<1>4. CASE Verified(n, password) /\ Enter(c, n, password)
  BY <1>2, <1>4, EnterOK, SessionStep
<1> QED
  BY <1>1, <1>3, <1>4 DEF RegisterLogin

LEMMA ChangeFetchPreserves ==
  ASSUME IInv, NEW c \in Clients, ChangeFetch(c)
  PROVE  IInv'
<1>1. PICK n \in Names, old \in Passwords, new \in Passwords :
        op[c] = [kind |-> "check", name |-> n, old |-> old, new |-> new]
  BY DEF ChangeFetch, IInv, TypeOK, Op
<1>2. UNCHANGED <<users, session, told, kept>>
  BY DEF ChangeFetch
<1>3. CASE Stop(c) /\ UNCHANGED draws
  <2>1. TypeOK'
    BY <1>2, <1>3 DEF Stop, IInv, TypeOK
  <2>2. \A d \in Clients : op'[d] = op[d] \/ OpOK(op'[d])
    BY <1>3 DEF Stop, IInv, TypeOK, OpOK
  <2> QED
    BY <1>2, <2>1, <2>2, QuietStep
<1>4. CASE ~(Stop(c) /\ UNCHANGED draws)
  <2>1. Verified(n, old)
    BY <1>1, <1>4 DEF ChangeFetch
  <2>2. Rewrap(c, n, Unwrap(users[n].cred.dek, VerifyPassword(old, users[n].cred)),
               new, None)
    BY <1>1, <1>4 DEF ChangeFetch
  <2>3. Rewrap(c, n, users[n].cred.dek.dek, new, None) /\ users[n] # None
    BY <2>1, <2>2, RightPasswordUnwraps
  <2> QED
    BY <1>2, <2>3, RewrapOK
<1> QED
  BY <1>3, <1>4

LEMMA ResetFetchPreserves ==
  ASSUME IInv, NEW c \in Clients, NEW n \in Names, NEW phrase \in Draws,
         NEW new \in Passwords, ResetFetch(c, n, phrase, new)
  PROVE  IInv'
<1>1. users[n] # None /\ Unwrap(users[n].cred.backup, phrase) # None
  BY DEF ResetFetch, Found
<1>2. Unwrap(users[n].cred.backup, phrase) = users[n].cred.dek.dek
  BY <1>1 DEF Unwrap, IInv, RowsWhole, Whole
<1>3. Rewrap(c, n, users[n].cred.dek.dek, new, phrase)
  BY <1>2 DEF ResetFetch
<1> QED
  BY <1>1, <1>3, RewrapOK DEF ResetFetch

----------------------------------------------------------------------------
(* The invariant is inductive *)

LEMMA InitIInv == Init => IInv
BY BoundAssumption
   DEF Init, IInv, TypeOK, NoSession, RowsWhole, PairsOK, OpsOK, OpOK

LEMMA NextIInv == IInv /\ [Next]_vars => IInv'
<1> SUFFICES ASSUME IInv, [Next]_vars PROVE IInv'
  OBVIOUS
<1> USE DEF IInv, TypeOK
<1>1. ASSUME NEW c \in Clients, NEW n \in Names, NEW password \in Passwords,
             Login(c, n, password)
      PROVE  IInv'
  BY <1>1, EnterOK, SessionStep DEF Login
<1>2. ASSUME NEW c \in Clients, NEW pair \in kept, RestoreSession(c, pair)
      PROVE  IInv'
  <2>1. PairOK(pair) /\ kept' = kept \cup {pair}
    BY <1>2 DEF RestoreSession, PairsOK
  <2> QED
    BY <1>2, <2>1, SessionStep DEF RestoreSession
<1>3. ASSUME NEW c \in Clients, Logout(c)
      PROVE  IInv'
  BY <1>3, QuietStep DEF Logout
<1>4. ASSUME NEW c \in Clients, NEW old \in Passwords, NEW new \in Passwords,
             ChangeCheck(c, old, new)
      PROVE  IInv'
  <2>1. PICK n \in Names : n = session[c].user
    BY <1>4 DEF ChangeCheck, NoSession
  <2>2. op' = [op EXCEPT ![c] = [kind |-> "check", name |-> n, old |-> old, new |-> new]]
    BY <1>4, <2>1 DEF ChangeCheck
  <2>3. TypeOK'
    BY <1>4, <2>2 DEF ChangeCheck, Op
  <2>4. \A d \in Clients : op'[d] = op[d] \/ OpOK(op'[d])
    BY <2>2 DEF OpOK
  <2> QED
    BY <1>4, <2>3, <2>4, QuietStep DEF ChangeCheck
<1>5. ASSUME NEW c \in Clients, Rollback(c) \/ RegisterRaises(c) \/ Crash(c)
      PROVE  IInv'
  <2>1. op' = [op EXCEPT ![c] = None]
    BY <1>5 DEF Rollback, RegisterRaises, Crash, Stop
  <2>2. UNCHANGED <<users, told, kept, draws>>
    BY <1>5 DEF Rollback, RegisterRaises, Crash
  <2>3. session' = session \/ session' = [session EXCEPT ![c] = NoSession]
    BY <1>5 DEF Rollback, RegisterRaises, Crash
  <2>4. \A d \in Clients : op'[d] = op[d] \/ OpOK(op'[d])
    BY <2>1 DEF OpOK
  <2> QED
    BY <2>1, <2>2, <2>3, <2>4, QuietStep
<1>6. ASSUME NEW c \in Clients, Answer(c)
      PROVE  IInv'
  <2>1. PICK n \in Names, phrase \in Draws :
          op[c] = [kind |-> "answer", name |-> n, phrase |-> phrase]
    BY <1>6 DEF Answer, Op
  <2>2. op' = [op EXCEPT ![c] = None] /\ told' \in [Names -> SUBSET Draws]
    BY <1>6, <2>1 DEF Answer, Stop, Tell
  <2>3. \A d \in Clients : op'[d] = op[d] \/ OpOK(op'[d])
    BY <2>2 DEF OpOK
  <2> QED
    BY <1>6, <2>2, <2>3, QuietStep DEF Answer
<1>7. CASE UNCHANGED vars
  BY <1>7, QuietStep DEF vars
<1> QED
  BY <1>1, <1>2, <1>3, <1>4, <1>5, <1>6, <1>7, RegisterSavePreserves,
     RegisterLoginPreserves, ChangeFetchPreserves, ResetFetchPreserves,
     WriteCredentialsPreserves, DeleteUserPreserves DEF Next

THEOREM Invariance == Spec => []IInv
BY InitIInv, NextIInv, PTL DEF Spec

\* The variables keep their types.
THEOREM Typing == Spec => []TypeOK
<1>1. IInv => TypeOK
  BY DEF IInv
<1> QED
  BY <1>1, Invariance, PTL

\* In every reachable state the right password of an account unwraps its DEK
\* and the backup KEK unwraps the same one.
THEOREM CredentialsCoherent == Spec => []Coherent
<1>1. IInv => Coherent
  <2> SUFFICES ASSUME IInv, NEW n \in Names, users[n] # None
               PROVE  LET cred == users[n].cred
                      IN  /\ Unwrap(cred.dek, VerifyPassword(cred.hash.password, cred)) # None
                          /\ cred.backup.dek = cred.dek.dek
    BY DEF Coherent
  <2>1. Whole(users[n].cred) /\ users[n].cred \in Credentials
    BY DEF IInv, TypeOK, RowsWhole, Row
  <2>2. users[n].cred.dek.dek # None
    BY <2>1, NoneAssumption DEF Credentials
  <2>3. VerifyPassword(users[n].cred.hash.password, users[n].cred) = users[n].cred.hash
    BY <2>1 DEF VerifyPassword, Whole
  <2> QED
    BY <2>1, <2>2, <2>3 DEF Unwrap, Whole
<1> QED
  BY <1>1, Invariance, PTL

\* Every active session holds the DEK of its account, whatever password
\* changes and resets have happened since it began.
THEOREM SessionsKeepDek == Spec => []SessionsHoldDek
<1>1. IInv => SessionsHoldDek
  BY DEF IInv, PairsOK, PairOK, SessionsHoldDek
<1> QED
  BY <1>1, Invariance, PTL

\* An account is never removed, never gets another DEK and, once deleted,
\* never comes back, whatever changes and resets were under way.
THEOREM AccountsEndure == Spec => AccountsStay
<1>1. IInv /\ [Next]_vars => [\A n \in Names : AccountStays(n)]_vars
  <2> SUFFICES ASSUME IInv, Next, NEW n \in Names, users[n] # None
               PROVE  /\ users'[n] # None
                      /\ users'[n].cred.dek.dek = users[n].cred.dek.dek
                      /\ ~users[n].live => ~users'[n].live
    BY DEF AccountStays
  <2>0. users[n] \in Row /\ users \in [Names -> Row \cup {None}]
    BY DEF IInv, TypeOK
  <2>1. CASE users' = users
    BY <2>1
  <2>2. ASSUME NEW c \in Clients, NEW m \in Names, NEW password \in Passwords,
               RegisterSave(c, m, password)
        PROVE  users'[n] = users[n]
    BY <2>0, <2>2 DEF RegisterSave
  <2>3. ASSUME NEW c \in Clients, WriteCredentials(c)
        PROVE  /\ users'[n] # None
               /\ users'[n].cred.dek.dek = users[n].cred.dek.dek
               /\ users'[n].live = users[n].live
    <3>1. CASE op[c].name = n
      <4>1. op[c].cred.dek.dek = users[n].cred.dek.dek /\ op[c].cred \in Credentials
        BY <2>3, <3>1 DEF WriteCredentials, IInv, OpsOK, OpOK, TypeOK, Op
      <4>2. users'[n] = [users[n] EXCEPT !.cred = op[c].cred]
        BY <2>0, <2>3, <3>1 DEF WriteCredentials, Updated
      <4>3. users'[n] \in Row
        BY <2>0, <4>1, <4>2 DEF Row
      <4> QED
        BY <2>0, <4>1, <4>2, <4>3, NoneAssumption DEF Row
    <3>2. CASE op[c].name # n
      BY <2>0, <2>3, <3>2 DEF WriteCredentials
    <3> QED
      BY <3>1, <3>2
  <2>4. ASSUME NEW c \in Clients, DeleteUser(c)
        PROVE  /\ users'[n] # None
               /\ users'[n].cred.dek.dek = users[n].cred.dek.dek
               /\ ~users[n].live => ~users'[n].live
    <3>1. CASE session[c].user = n
      <4>1. users'[n] = [users[n] EXCEPT !.live = FALSE]
        BY <2>0, <2>4, <3>1 DEF DeleteUser
      <4>2. users'[n] \in Row /\ ~users'[n].live /\ users'[n].cred = users[n].cred
        BY <2>0, <4>1 DEF Row
      <4> QED
        BY <4>2, NoneAssumption
    <3>2. CASE session[c].user # n
      BY <2>0, <2>4, <3>2 DEF DeleteUser
    <3> QED
      BY <3>1, <3>2
  <2> QED
    BY <2>1, <2>2, <2>3, <2>4 DEF Next, Login, RegisterLogin, RegisterRaises,
         RestoreSession, Logout, ChangeCheck, ChangeFetch, ResetFetch, Answer,
         Rollback, Crash
<1> QED
  BY <1>1, Invariance, PTL DEF Spec, AccountsStay

----------------------------------------------------------------------------
(* Recovery *)

\* Prepared credentials come with the phrase of their backup KEK, and a client
\* that is about to log in after a registration has no session.
OpTold(c) == op[c] # None =>
  /\ op[c].kind = "write" => op[c].phrase = op[c].cred.backup.kek
  /\ op[c].kind = "login" /\ op[c].name \notin RegisterLoggedIn => session[c].user = None

RecoveryInv == RecoveryPossible /\ \A c \in Clients : OpTold(c)

Careful == Names \ (MayFail \cup RegisterLoggedIn)

\* The steps of client c touch nobody else's operation and session.
Alone(c) == \A d \in Clients : d # c => op'[d] = op[d] /\ session'[d] = session[d]

\* An account whose credentials stay as they are remains recoverable when every
\* operation that was to report its phrase goes on or has reported it.
LEMMA StaysRecoverable ==
  ASSUME NEW n \in Names, Recoverable(n),
         Found(n)' => Found(n) /\ users'[n].cred = users[n].cred,
         told[n] \subseteq told'[n],
         \A c \in Clients :
           op[c] # None /\ op[c].kind \in {"login", "answer"} /\ op[c].name = n =>
             op'[c] = op[c] \/ op[c].phrase \in told'[n]
  PROVE  Recoverable(n)'
<1> SUFFICES ASSUME Found(n)' PROVE Recoverable(n)'
  BY DEF Recoverable
<1>1. users'[n].cred = users[n].cred /\ Found(n)
  OBVIOUS
<1>2. CASE users[n].cred.backup.kek \in told[n]
  BY <1>1, <1>2 DEF Recoverable
<1>3. CASE users[n].cred.backup.kek \notin told[n]
  <2>1. PICK c \in Clients : /\ op[c] # None
                             /\ op[c].kind \in {"login", "answer"}
                             /\ op[c].name = n
                             /\ op[c].phrase = users[n].cred.backup.kek
    BY <1>1, <1>3 DEF Recoverable
  <2> QED
    BY <1>1, <2>1 DEF Recoverable
<1> QED
  BY <1>2, <1>3

\* A step of a client that has no phrase to report, and leaves credentials alone.
LEMMA RecoveryStays ==
  ASSUME RecoveryInv, NEW c \in Clients, Alone(c),
         \A n \in Names : users'[n] = users[n] \/ (users'[n] # None => ~users'[n].live),
         \A n \in Names : told[n] \subseteq told'[n],
         op[c] # None /\ op[c].kind \in {"login", "answer"} /\ op[c].name \in Careful =>
           op'[c] = op[c] \/ op[c].phrase \in told'[op[c].name],
         OpTold(c)'
  PROVE  RecoveryInv'
<1>1. \A d \in Clients : OpTold(d)'
  BY DEF RecoveryInv, Alone, OpTold
<1>2. ASSUME NEW n \in Careful PROVE Recoverable(n)'
  <2>1. Recoverable(n) /\ n \in Names
    BY DEF RecoveryInv, RecoveryPossible, Careful
  <2>2. Found(n)' => Found(n) /\ users'[n].cred = users[n].cred
    BY <2>1 DEF Found
  <2> QED
    BY <2>1, <2>2, StaysRecoverable DEF Alone
<1> QED
  BY <1>1, <1>2 DEF RecoveryInv, RecoveryPossible, Careful

LEMMA RegisterSaveTells ==
  ASSUME IInv, RecoveryInv, NEW c \in Clients, NEW n \in Names, NEW password \in Passwords,
         RegisterSave(c, n, password)
  PROVE  RecoveryInv'
<1> DEFINE new == [kind |-> "login", name |-> n, password |-> password, phrase |-> draws']
           row == [cred |-> NewCredentials(draws', password, draws'), live |-> TRUE]
<1>1. /\ op' = [op EXCEPT ![c] = new] /\ users' = [users EXCEPT ![n] = row]
      /\ op[c] = None /\ UNCHANGED <<session, told>>
  BY DEF RegisterSave
<1>2. row.cred.backup.kek = draws' /\ new # None
  <2>1. row.cred.backup.kek = draws'
    BY DEF NewCredentials, Wrap
  <2>2. draws' \in Draws
    BY BoundAssumption DEF RegisterSave, Draw, Draws, IInv, TypeOK
  <2>3. new \in Op
    BY <2>2 DEF Op
  <2> QED
    BY <2>1, <2>3, NoneAssumption
<1>3. /\ op'[c] = new /\ Alone(c) /\ users'[n] = row
      /\ \A m \in Names : m # n => users'[m] = users[m]
  BY <1>1 DEF Alone, IInv, TypeOK
<1>4. \A d \in Clients : OpTold(d)'
  BY <1>1, <1>3 DEF RegisterSave, RecoveryInv, Alone, OpTold
<1>5. Recoverable(n)'
  BY <1>2, <1>3 DEF Recoverable
<1>6. ASSUME NEW m \in Careful, m # n PROVE Recoverable(m)'
  <2>1. Recoverable(m) /\ m \in Names
    BY DEF RecoveryInv, RecoveryPossible, Careful
  <2>2. Found(m)' => Found(m) /\ users'[m].cred = users[m].cred
    BY <1>3, <1>6, <2>1 DEF Found
  <2> QED
    BY <1>1, <1>3, <2>1, <2>2, StaysRecoverable DEF Alone
<1> QED
  BY <1>4, <1>5, <1>6 DEF RecoveryInv, RecoveryPossible, Careful

LEMMA WriteTells ==
  ASSUME IInv, RecoveryInv, NEW c \in Clients, WriteCredentials(c)
  PROVE  RecoveryInv'
<1>1. /\ op[c] \in Op /\ op[c] # None /\ op[c].kind = "write"
      /\ UNCHANGED <<session, told>>
  BY DEF WriteCredentials, IInv, TypeOK
<1>2. PICK n \in Names, cred \in Credentials, phrase \in Draws :
        n = op[c].name /\ cred = op[c].cred /\ phrase = op[c].phrase
  BY <1>1 DEF Op
<1> DEFINE new == [kind |-> "answer", name |-> n, phrase |-> phrase]
           row == [users[n] EXCEPT !.cred = cred]
<1>3. users[n] \in Row
  BY <1>1, <1>2 DEF IInv, OpsOK, OpOK, TypeOK
<1>4. row.cred = cred /\ new # None
  <2>1. new \in Op
    BY DEF Op
  <2> QED
    BY <1>3, <2>1, NoneAssumption DEF Row
<1>5. /\ op' = [op EXCEPT ![c] = new] /\ users' = [users EXCEPT ![n] = row]
  BY <1>2 DEF WriteCredentials, Updated
<1> HIDE DEF row
<1>6. /\ op'[c] = new /\ Alone(c) /\ users'[n] = row
      /\ \A m \in Names : m # n => users'[m] = users[m]
  BY <1>1, <1>5 DEF Alone, IInv, TypeOK
<1>7. \A d \in Clients : OpTold(d)'
  BY <1>1, <1>6 DEF RecoveryInv, Alone, OpTold
<1>8. phrase = cred.backup.kek
  BY <1>1, <1>2 DEF RecoveryInv, OpTold
<1>9. Recoverable(n)'
  BY <1>4, <1>6, <1>8 DEF Recoverable
<1>10. ASSUME NEW m \in Careful, m # n PROVE Recoverable(m)'
  <2>1. Recoverable(m) /\ m \in Names
    BY DEF RecoveryInv, RecoveryPossible, Careful
  <2>2. Found(m)' => Found(m) /\ users'[m].cred = users[m].cred
    BY <1>6, <1>10, <2>1 DEF Found
  <2> QED
    BY <1>1, <1>6, <2>1, <2>2, StaysRecoverable DEF Alone
<1> QED
  BY <1>7, <1>9, <1>10 DEF RecoveryInv, RecoveryPossible, Careful

\* RecoveryPossible: no race of changes and resets, by any number of clients,
\* replaces the phrase of an account by one that nobody gets to see
\* (_change_password, register_user).
THEOREM AccountsRecoverable == Spec => []RecoveryPossible
<1>1. Init => RecoveryInv
  BY DEF Init, RecoveryInv, RecoveryPossible, Recoverable, Found, OpTold
<1>2. IInv /\ RecoveryInv /\ [Next]_vars => RecoveryInv'
  <2> SUFFICES ASSUME IInv, RecoveryInv, [Next]_vars PROVE RecoveryInv'
    OBVIOUS
  <2> USE DEF IInv, TypeOK
  <2>1. ASSUME NEW c \in Clients, op[c] = None, op' = op, UNCHANGED told,
               \A d \in Clients : d # c => session'[d] = session[d],
               \A n \in Names : users'[n] = users[n] \/ (users'[n] # None => ~users'[n].live)
        PROVE  RecoveryInv'
    BY <2>1, RecoveryStays DEF Alone, OpTold
  <2>2. ASSUME NEW c \in Clients, NEW n \in Names, NEW password \in Passwords,
               Login(c, n, password)
        PROVE  RecoveryInv'
    BY <2>1, <2>2 DEF Login, Enter
  <2>3. ASSUME NEW c \in Clients, NEW pair \in kept, RestoreSession(c, pair)
        PROVE  RecoveryInv'
    BY <2>1, <2>3 DEF RestoreSession
  <2>4. ASSUME NEW c \in Clients, Logout(c)
        PROVE  RecoveryInv'
    BY <2>1, <2>4 DEF Logout
  <2>5. ASSUME NEW c \in Clients, DeleteUser(c)
        PROVE  RecoveryInv'
    <3>1. PICK n \in Names : n = session[c].user /\ users[n] \in Row
      BY <2>5 DEF DeleteUser, Found, NoSession
    <3>2. users' = [users EXCEPT ![n] = [users[n] EXCEPT !.live = FALSE]]
      BY <2>5, <3>1 DEF DeleteUser
    <3>3. ~users'[n].live /\ \A m \in Names : m # n => users'[m] = users[m]
      BY <3>1, <3>2 DEF Row
    <3> QED
      BY <2>1, <2>5, <3>3 DEF DeleteUser
  <2>6. ASSUME NEW c \in Clients, NEW old \in Passwords, NEW new \in Passwords,
               ChangeCheck(c, old, new)
        PROVE  RecoveryInv'
    <3>1. op'[c].kind = "check" /\ Alone(c) /\ op[c] = None
      BY <2>6 DEF ChangeCheck, Alone
    <3> QED
      BY <2>6, <3>1, RecoveryStays DEF ChangeCheck, OpTold
  <2>7. ASSUME NEW c \in Clients, op[c] # None => op[c].kind \notin {"login", "answer"},
               UNCHANGED <<users, told, session>>,
               NEW n, NEW dek, NEW new, NEW used, Rewrap(c, n, dek, new, used)
        PROVE  RecoveryInv'
    <3>1. /\ op'[c].kind = "write" /\ op'[c].phrase = draws'
          /\ op'[c].cred = NewCredentials(dek, new, draws')
          /\ Alone(c)
      BY <2>7 DEF Rewrap, Alone
    <3>2. op'[c].cred.backup.kek = draws'
      BY <3>1 DEF NewCredentials, Wrap
    <3> QED
      BY <2>7, <3>1, <3>2, RecoveryStays DEF OpTold
  <2>8. ASSUME NEW c \in Clients, op' = [op EXCEPT ![c] = None], UNCHANGED users,
               \A d \in Clients : d # c => session'[d] = session[d],
               \A n \in Names : told[n] \subseteq told'[n],
               op[c].kind \in {"login", "answer"} /\ op[c].name \in Careful =>
                 op[c].phrase \in told'[op[c].name]
        PROVE  RecoveryInv'
    BY <2>8, RecoveryStays DEF Alone, OpTold
  <2>9. ASSUME NEW c \in Clients, ChangeFetch(c)
        PROVE  RecoveryInv'
    <3>1. op[c].kind = "check" /\ UNCHANGED <<users, told, session>>
      BY <2>9 DEF ChangeFetch
    <3>2. CASE Stop(c)
      BY <2>8, <3>1, <3>2 DEF Stop
    <3>3. CASE ~Stop(c)
      BY <2>7, <2>9, <3>1, <3>3 DEF ChangeFetch
    <3> QED
      BY <3>2, <3>3
  <2>10. ASSUME NEW c \in Clients, NEW n \in Names, NEW phrase \in Draws, NEW new \in Passwords,
                ResetFetch(c, n, phrase, new)
         PROVE  RecoveryInv'
    BY <2>7, <2>10 DEF ResetFetch
  <2>11. ASSUME NEW c \in Clients, RegisterLogin(c)
         PROVE  RecoveryInv'
    <3>1. PICK n \in Names, phrase \in Draws :
            n = op[c].name /\ phrase = op[c].phrase /\ op[c] # None /\ op[c].kind = "login"
      BY <2>11 DEF RegisterLogin, Op
    <3>2. /\ op' = [op EXCEPT ![c] = None] /\ UNCHANGED users
          /\ \A d \in Clients : d # c => session'[d] = session[d]
      BY <2>11 DEF RegisterLogin, Stop, Enter
    <3>3. CASE session[c].user # None
      <4>1. n \in RegisterLoggedIn /\ UNCHANGED told
        BY <2>11, <3>1, <3>3 DEF RegisterLogin, RecoveryInv, OpTold
      <4> QED
        BY <2>8, <3>1, <3>2, <4>1 DEF Careful
    <3>4. CASE session[c].user = None
      <4>1. told' = [told EXCEPT ![n] = @ \cup {phrase}]
        BY <2>11, <3>1, <3>4 DEF RegisterLogin, Tell
      <4> QED
        BY <2>8, <3>1, <3>2, <4>1
    <3> QED
      BY <3>3, <3>4
  <2>12. ASSUME NEW c \in Clients, Answer(c)
         PROVE  RecoveryInv'
    <3>1. PICK n \in Names, phrase \in Draws : n = op[c].name /\ phrase = op[c].phrase
      BY <2>12 DEF Answer, Op
    <3>2. told' = [told EXCEPT ![n] = @ \cup {phrase}]
      BY <2>12, <3>1 DEF Answer, Tell
    <3> QED
      BY <2>8, <2>12, <3>1, <3>2 DEF Answer, Stop
  <2>13. ASSUME NEW c \in Clients, RegisterRaises(c) \/ Crash(c) \/ Rollback(c)
         PROVE  RecoveryInv'
    <3>1. /\ op' = [op EXCEPT ![c] = None] /\ UNCHANGED <<users, told>>
          /\ \A d \in Clients : d # c => session'[d] = session[d]
          /\ op[c].kind \in {"login", "answer"} => op[c].name \notin Careful
      BY <2>13 DEF RegisterRaises, Crash, Rollback, Stop, Careful
    <3> QED
      BY <2>8, <3>1
  <2>14. CASE UNCHANGED vars
    BY <2>14 DEF vars, RecoveryInv, RecoveryPossible, Recoverable, Found, OpTold
  <2> QED
    BY <2>2, <2>3, <2>4, <2>5, <2>6, <2>9, <2>10, <2>11, <2>12, <2>13, <2>14,
       RegisterSaveTells, WriteTells DEF Next
<1>3. RecoveryInv => RecoveryPossible
  BY DEF RecoveryInv
<1> QED
  BY <1>1, <1>2, <1>3, Invariance, PTL DEF Spec

----------------------------------------------------------------------------
(* The accounts implement AccountRegistry.  What a client has begun there    *)
(* has the phrase of the credentials that are about to be committed.         *)

PhrasesMatch ==
  \A c \in Clients : op[c] # None /\ op[c].kind = "write" =>
    op[c].phrase = op[c].cred.backup.kek

RegistryInv == IInv /\ PhrasesMatch

\* How a step of one variable shows in the registry.
LEMMA DoingStep ==
  ASSUME IInv, NEW c \in Clients, NEW o, op' = [op EXCEPT ![c] = o]
  PROVE  Doing' = [Doing EXCEPT ![c] = OperationOf(o)]
BY DEF IInv, TypeOK, Doing

LEMMA WhoStep ==
  ASSUME IInv, NEW c \in Clients, NEW s, session' = [session EXCEPT ![c] = s]
  PROVE  Who' = [Who EXCEPT ![c] = s.user]
BY DEF IInv, TypeOK, Who

LEMMA EnteredStep ==
  ASSUME NEW pair, kept' = kept \cup {pair}
  PROVE  Entered' = Entered \cup {pair.user}
BY DEF Entered

LEMMA IssuedStep ==
  ASSUME IInv, Draw
  PROVE  draws' \in Draws /\ draws' \notin Issued /\ Issued' = Issued \cup {draws'}
BY BoundAssumption DEF IInv, TypeOK, Draw, Draws, Issued

\* What the registry does not see changed.
LEMMA Unseen ==
  /\ users' = users => Account' = Account /\ Gone' = Gone
  /\ op' = op => Doing' = Doing
  /\ session' = session => Who' = Who
  /\ kept' = kept => Entered' = Entered
  /\ draws' = draws => Issued' = Issued
BY DEF Account, AccountOf, Found, Gone, Doing, Who, Entered, Issued

\* The account of a name, and who has the right password for it.
LEMMA AccountFacts ==
  ASSUME IInv, NEW n \in Names
  PROVE  /\ Found(n) => /\ Account[n] = [password |-> users[n].cred.hash.password,
                                         phrase |-> users[n].cred.backup.kek]
                        /\ Account[n] # Registry!NoAccount
                        /\ users[n] \in Row
         /\ ~Found(n) => Account[n] = Registry!NoAccount
         /\ n \in Gone <=> users[n] # None /\ ~Found(n)
         /\ \A password \in Passwords : Verified(n, password) <=> Registry!Right(n, password)
<1>1. ~Found(n) => Account[n] = Registry!NoAccount
  BY DEF Account, AccountOf, Registry!NoAccount
<1>2. n \in Gone <=> users[n] # None /\ ~Found(n)
  BY DEF Gone, Found
<1>3. ASSUME Found(n)
      PROVE  /\ Account[n] = [password |-> users[n].cred.hash.password,
                              phrase |-> users[n].cred.backup.kek]
             /\ Account[n] # Registry!NoAccount
             /\ users[n] \in Row
             /\ Account[n].password = users[n].cred.hash.password
  <2>1. users[n] \in Row /\ users[n].cred.hash.password \in Passwords
    BY <1>3 DEF Found, IInv, TypeOK, Row, Credentials, Derived
  <2>2. Account[n] = [password |-> users[n].cred.hash.password,
                      phrase |-> users[n].cred.backup.kek]
    BY <1>3 DEF Account, AccountOf
  <2>3. Registry!NoAccount.password = None
    BY DEF Registry!NoAccount
  <2> QED
    BY <2>1, <2>2, <2>3, NoneAssumption
<1>4. ASSUME NEW password \in Passwords
      PROVE  Verified(n, password) <=> Registry!Right(n, password)
  <2>1. CASE ~Found(n)
    <3>1. Account[n].password = None
      BY <1>1, <2>1 DEF Registry!NoAccount
    <3> QED
      BY <2>1, <3>1, NoneAssumption DEF Verified, Registry!Right
  <2>2. CASE Found(n)
    <3> DEFINE cred == users[n].cred
    <3>1. Whole(cred) /\ cred.salt \in Draws
      BY <1>3, <2>2 DEF Found, IInv, RowsWhole, Row, Credentials
    <3>2. Derive(password, cred.salt) # None
      BY <3>1, NoneAssumption DEF Derived, Derive
    <3>3. Derive(password, cred.salt) = cred.hash <=> password = cred.hash.password
      BY <3>1 DEF Whole, Derive
    <3> QED
      BY <1>3, <2>2, <3>2, <3>3 DEF Verified, VerifyPassword, Registry!Right
  <2> QED
    BY <2>1, <2>2
<1> QED
  BY <1>1, <1>2, <1>3, <1>4

LEMMA DoingFacts ==
  ASSUME NEW c \in Clients
  PROVE  /\ Doing[c] = OperationOf(op[c])
         /\ op[c] = None => Doing[c] = Registry!Idle
         /\ op[c] # None /\ op[c] \in Op => Doing[c] # Registry!Idle
<1>1. Doing[c] = OperationOf(op[c])
  BY DEF Doing
<1>2. op[c] = None => OperationOf(op[c]) = Registry!Idle
  BY DEF OperationOf, Registry!Idle
<1>3. ASSUME op[c] # None, op[c] \in Op PROVE OperationOf(op[c]) # Registry!Idle
  <2>1. OperationOf(op[c]).step \in {"registered", "asked", "granted", "changed"}
    BY <1>3 DEF OperationOf, Op
  <2>2. Registry!Idle.step = "idle"
    BY DEF Registry!Idle
  <2> QED
    BY <2>1, <2>2
<1> QED
  BY <1>1, <1>2, <1>3

LEMMA StopStep ==
  ASSUME IInv, NEW c \in Clients, Stop(c)
  PROVE  Registry!Do(c, Registry!Idle)
<1>1. Doing' = [Doing EXCEPT ![c] = OperationOf(None)]
  BY DoingStep DEF Stop
<1>2. OperationOf(None) = Registry!Idle
  BY DEF OperationOf, Registry!Idle
<1> QED
  BY <1>1, <1>2 DEF Registry!Do

----------------------------------------------------------------------------
(* Each operation's step in the registry *)

LEMMA EnterStep ==
  ASSUME IInv, NEW c \in Clients, NEW n \in Names, NEW password \in Passwords,
         Verified(n, password), Enter(c, n, password)
  PROVE  Registry!Enter(c, n)
<1> DEFINE pair == [user |-> n, dek |-> users[n].cred.dek.dek]
<1>1. session' = [session EXCEPT ![c] = pair] /\ kept' = kept \cup {pair}
  BY EnterOK
<1>2. pair.user = n
  OBVIOUS
<1> HIDE DEF pair
<1> QED
  BY <1>1, <1>2, WhoStep, EnteredStep DEF Registry!Enter

LEMMA LoginStep ==
  ASSUME IInv, NEW c \in Clients, NEW n \in Names, NEW password \in Passwords,
         Login(c, n, password)
  PROVE  Registry!Login(c, n, password)
<1>1. Doing[c] = Registry!Idle
  BY DoingFacts DEF Login
<1>2. Who[c] = None
  BY DEF Login, Who
<1>3. Registry!Right(n, password)
  BY AccountFacts DEF Login
<1>4. Registry!Enter(c, n)
  BY EnterStep DEF Login
<1>5. UNCHANGED <<Account, Gone, Issued, told, Doing>>
  BY Unseen DEF Login
<1> QED
  BY <1>1, <1>2, <1>3, <1>4, <1>5 DEF Registry!Login

LEMMA RestoreStep ==
  ASSUME IInv, NEW c \in Clients, NEW pair \in kept, RestoreSession(c, pair)
  PROVE  pair.user \in Names /\ Registry!Restore(c, pair.user)
<1>1. pair.user \in Names
  BY DEF IInv, TypeOK
<1>2. Doing[c] = Registry!Idle
  BY DoingFacts DEF RestoreSession
<1>3. pair.user \in Entered /\ Entered' = Entered \cup {pair.user}
  BY Unseen DEF RestoreSession, Entered
<1>4. Who' = [Who EXCEPT ![c] = pair.user]
  BY WhoStep DEF RestoreSession
<1>5. UNCHANGED <<Account, Gone, Issued, told, Doing>>
  BY Unseen DEF RestoreSession
<1> QED
  BY <1>1, <1>2, <1>3, <1>4, <1>5 DEF Registry!Restore, Registry!Enter

LEMMA LogoutStep ==
  ASSUME IInv, NEW c \in Clients, Logout(c)
  PROVE  Registry!Logout(c)
<1>1. Doing[c] = Registry!Idle /\ Who[c] # None
  BY DoingFacts DEF Logout, Who
<1>2. Who' = [Who EXCEPT ![c] = NoSession.user] /\ NoSession.user = None
  BY WhoStep DEF Logout, NoSession
<1>3. UNCHANGED <<Account, Gone, Issued, told, Entered, Doing>>
  BY Unseen DEF Logout
<1> QED
  BY <1>1, <1>2, <1>3 DEF Registry!Logout

LEMMA RegisterStep ==
  ASSUME IInv, NEW c \in Clients, NEW n \in Names, NEW password \in Passwords,
         RegisterSave(c, n, password)
  PROVE  draws' \in Draws /\ Registry!Register(c, n, password, draws')
<1> DEFINE cred == NewCredentials(draws', password, draws')
           row == [cred |-> cred, live |-> TRUE]
           o == [kind |-> "login", name |-> n, password |-> password, phrase |-> draws']
           account == [password |-> password, phrase |-> draws']
<1>1. draws' \in Draws /\ Registry!Issue(draws')
  BY IssuedStep DEF RegisterSave, Registry!Issue
<1>2. Doing[c] = Registry!Idle
  BY DoingFacts DEF RegisterSave
<1>3. Account[n] = Registry!NoAccount /\ n \notin Gone /\ users[n] = None
  BY AccountFacts DEF RegisterSave, Found
<1>4. row \in Row /\ row.live /\ row # None /\ row.cred.hash.password = password
      /\ row.cred.backup.kek = draws'
  <2>1. row \in Row /\ row.live /\ row.cred = cred
    BY <1>1, NewCredentialsWhole DEF Row
  <2>2. cred.hash.password = password /\ cred.backup.kek = draws'
    BY DEF NewCredentials, Derive, Wrap
  <2> HIDE DEF row, cred
  <2> QED
    BY <2>1, <2>2, NoneAssumption
<1>5. users' = [users EXCEPT ![n] = row]
  BY DEF RegisterSave
<1> HIDE DEF row
<1>6. Account' = [Account EXCEPT ![n] = account]
  BY <1>4, <1>5 DEF IInv, TypeOK, Account, AccountOf, Found
<1>7. Gone' = Gone
  BY <1>3, <1>4, <1>5 DEF IInv, TypeOK, Gone
<1>8. Registry!Do(c, OperationOf(o))
  BY DoingStep DEF RegisterSave, Registry!Do
<1>9. OperationOf(o) = [step |-> "registered", name |-> n, password |-> password,
                        phrase |-> draws']
  <2>1. o \in Op
    BY <1>1 DEF Op
  <2>2. o # None
    BY <2>1, NoneAssumption
  <2> QED
    BY <2>2 DEF OperationOf
<1>10. UNCHANGED <<told, Who, Entered>>
  BY Unseen DEF RegisterSave
<1> HIDE DEF o
<1> QED
  BY <1>1, <1>2, <1>3, <1>6, <1>7, <1>8, <1>9, <1>10 DEF RegisterSave, Registry!Register

\* An operation ends without an answer.
LEMMA AbandonStep ==
  ASSUME IInv, NEW c \in Clients, op[c] # None, Stop(c),
         UNCHANGED <<users, told, kept, draws>>,
         session' = session \/ session' = [session EXCEPT ![c] = NoSession]
  PROVE  Registry!Abandon(c)
<1>1. Doing[c] # Registry!Idle
  BY DoingFacts DEF IInv, TypeOK
<1>2. Registry!Do(c, Registry!Idle)
  BY StopStep
<1>3. Who' \in {Who, [Who EXCEPT ![c] = None]}
  <2>1. NoSession.user = None
    BY DEF NoSession
  <2> QED
    BY <2>1, WhoStep, Unseen
<1>4. UNCHANGED <<Account, Gone, Issued, told, Entered>>
  BY Unseen
<1> QED
  BY <1>1, <1>2, <1>3, <1>4 DEF Registry!Abandon

\* The caller gets the phrase of an operation that is one of Doing.
LEMMA ReturnStep ==
  ASSUME IInv, NEW c \in Clients, op[c] # None, op[c].kind \in {"login", "answer"},
         Stop(c), Tell(op[c].name, op[c].phrase)
  PROVE  Registry!Return(c)
<1>1. Doing[c].name = op[c].name /\ Doing[c].phrase = op[c].phrase
  <2>1. Doing[c] = OperationOf(op[c])
    BY DoingFacts
  <2>2. CASE op[c].kind = "login"
    BY <2>1, <2>2 DEF OperationOf
  <2>3. CASE op[c].kind = "answer"
    BY <2>1, <2>3 DEF OperationOf
  <2> QED
    BY <2>2, <2>3
<1>2. Registry!Do(c, Registry!Idle)
  BY StopStep
<1> QED
  BY <1>1, <1>2 DEF Tell, Registry!Return

LEMMA FirstLoginStep ==
  ASSUME IInv, NEW c \in Clients, RegisterLogin(c)
  PROVE  Registry!FirstLogin(c) \/ Registry!Abandon(c)
<1>1. PICK n \in Names, password \in Passwords, phrase \in Draws :
        op[c] = [kind |-> "login", name |-> n, password |-> password, phrase |-> phrase]
  BY DEF RegisterLogin, IInv, TypeOK, Op
<1>2. op[c] # None /\ Stop(c) /\ UNCHANGED <<users, draws>>
  BY DEF RegisterLogin
<1>3. CASE session[c].user # None
  <2>1. UNCHANGED <<session, kept, told>>
    BY <1>3 DEF RegisterLogin
  <2> QED
    BY <1>2, <2>1, AbandonStep
<1>4. CASE session[c].user = None
  <2>1. /\ Tell(n, phrase)
        /\ \/ Verified(n, password) /\ Enter(c, n, password)
           \/ ~Verified(n, password) /\ UNCHANGED <<session, kept>>
    <3>1. op[c].name = n /\ op[c].password = password /\ op[c].phrase = phrase
      BY <1>1
    <3> QED
      BY <1>4, <3>1 DEF RegisterLogin
  <2>2. Registry!Return(c)
    BY <1>1, <1>2, <2>1, ReturnStep
  <2>3. Doing[c].step = "registered" /\ Doing[c].name = n /\ Doing[c].password = password
    <3>1. Doing[c] = OperationOf(op[c])
      BY DoingFacts
    <3> QED
      BY <1>1, <1>2, <3>1 DEF OperationOf
  <2>4. Who[c] = None
    BY <1>4 DEF Who
  <2>5. Verified(n, password) <=> Registry!Right(n, password)
    BY AccountFacts
  <2>6. Verified(n, password) => Registry!Enter(c, n)
    BY <2>1, EnterStep
  <2>7. ~Verified(n, password) => UNCHANGED <<Who, Entered>>
    BY <2>1, Unseen
  <2>8. UNCHANGED <<Account, Gone, Issued>>
    BY <1>2, Unseen
  <2> QED
    BY <2>2, <2>3, <2>4, <2>5, <2>6, <2>7, <2>8 DEF Registry!FirstLogin
<1> QED
  BY <1>3, <1>4

LEMMA AskChangeStep ==
  ASSUME IInv, NEW c \in Clients, NEW old \in Passwords, NEW new \in Passwords,
         ChangeCheck(c, old, new)
  PROVE  Registry!AskChange(c, old, new)
<1> DEFINE n == session[c].user
           o == [kind |-> "check", name |-> n, old |-> old, new |-> new]
<1>1. n \in Names /\ Who[c] = n /\ n # None
  BY DEF ChangeCheck, IInv, TypeOK, NoSession, Who
<1>2. Doing[c] = Registry!Idle
  BY DoingFacts DEF ChangeCheck
<1>3. Registry!Right(n, old)
  BY <1>1, AccountFacts DEF ChangeCheck
<1>4. Registry!Do(c, OperationOf(o))
  BY DoingStep DEF ChangeCheck, Registry!Do
<1>5. OperationOf(o) = [step |-> "asked", name |-> n, old |-> old, new |-> new]
  <2>1. o \in Op
    BY <1>1 DEF Op
  <2>2. o # None
    BY <2>1, NoneAssumption
  <2> QED
    BY <2>2 DEF OperationOf
<1>6. UNCHANGED <<Account, Gone, Issued, told, Who, Entered>>
  BY Unseen DEF ChangeCheck
<1> HIDE DEF o, n
<1> QED
  BY <1>1, <1>2, <1>3, <1>4, <1>5, <1>6 DEF ChangeCheck, Registry!AskChange

\* Fresh credentials are a fresh phrase and the new password.
LEMMA RewrapStep ==
  ASSUME IInv, NEW c \in Clients, NEW n \in Names, NEW dek \in Draws,
         NEW new \in Passwords, NEW used \in Draws \cup {None},
         Rewrap(c, n, dek, new, used)
  PROVE  /\ draws' \in Draws /\ Registry!Issue(draws')
         /\ Registry!Do(c, [step |-> "granted", name |-> n, password |-> new,
                            phrase |-> draws'])
<1> DEFINE cred == NewCredentials(dek, new, draws')
           o == [kind |-> "write", name |-> n, cred |-> cred, phrase |-> draws', used |-> used]
<1>1. draws' \in Draws /\ Registry!Issue(draws')
  BY IssuedStep DEF Rewrap, Registry!Issue
<1>2. cred \in Credentials
  BY <1>1, NewCredentialsWhole
<1>3. cred.hash.password = new
  BY DEF NewCredentials, Derive
<1>4. Registry!Do(c, OperationOf(o))
  BY DoingStep DEF Rewrap, Registry!Do
<1> HIDE DEF cred
<1>5. OperationOf(o) = [step |-> "granted", name |-> n, password |-> new, phrase |-> draws']
  <2>1. o \in Op
    BY <1>1, <1>2 DEF Op
  <2>2. o # None
    BY <2>1, NoneAssumption
  <2> QED
    BY <1>3, <2>2 DEF OperationOf
<1> QED
  BY <1>1, <1>4, <1>5

LEMMA GrantStep ==
  ASSUME IInv, NEW c \in Clients, ChangeFetch(c)
  PROVE  Registry!Abandon(c) \/ (draws' \in Draws /\ Registry!Grant(c, draws'))
<1>1. PICK n \in Names, old \in Passwords, new \in Passwords :
        op[c] = [kind |-> "check", name |-> n, old |-> old, new |-> new]
  BY DEF ChangeFetch, IInv, TypeOK, Op
<1>2. op[c] # None /\ UNCHANGED <<users, session, told, kept>>
  BY DEF ChangeFetch
<1>3. CASE Stop(c) /\ UNCHANGED draws
  BY <1>2, <1>3, AbandonStep
<1>4. CASE ~(Stop(c) /\ UNCHANGED draws)
  <2>1. Verified(n, old)
    BY <1>1, <1>4 DEF ChangeFetch
  <2>2. Rewrap(c, n, Unwrap(users[n].cred.dek, VerifyPassword(old, users[n].cred)),
               new, None)
    BY <1>1, <1>4 DEF ChangeFetch
  <2>3. Rewrap(c, n, users[n].cred.dek.dek, new, None) /\ users[n].cred.dek.dek \in Draws
    BY <2>1, <2>2, RightPasswordUnwraps
  <2>4. /\ draws' \in Draws /\ Registry!Issue(draws')
        /\ Registry!Do(c, [step |-> "granted", name |-> n, password |-> new,
                           phrase |-> draws'])
    BY <2>3, RewrapStep
  <2>5. /\ Doing[c].step = "asked" /\ Doing[c].name = n
        /\ Doing[c].old = old /\ Doing[c].new = new
    <3>1. Doing[c] = OperationOf(op[c])
      BY DoingFacts
    <3> QED
      BY <1>1, <1>2, <3>1 DEF OperationOf
  <2>6. Registry!Right(n, old)
    BY <2>1, AccountFacts
  <2>7. UNCHANGED <<Account, Gone, told, Who, Entered>>
    BY <1>2, Unseen
  <2> QED
    BY <2>4, <2>5, <2>6, <2>7 DEF Registry!Grant
<1> QED
  BY <1>3, <1>4

LEMMA GrantResetStep ==
  ASSUME IInv, NEW c \in Clients, NEW n \in Names, NEW phrase \in Draws,
         NEW new \in Passwords, ResetFetch(c, n, phrase, new)
  PROVE  draws' \in Draws /\ Registry!GrantReset(c, n, new, draws')
<1>1. /\ Found(n) /\ users[n] # None /\ phrase \in told[n]
      /\ Unwrap(users[n].cred.backup, phrase) # None
  BY DEF ResetFetch, Found
<1>2. /\ Unwrap(users[n].cred.backup, phrase) = users[n].cred.dek.dek
      /\ phrase = users[n].cred.backup.kek
      /\ users[n].cred.dek.dek \in Draws
  BY <1>1 DEF Unwrap, IInv, TypeOK, Row, Credentials, RowsWhole, Whole
<1>3. /\ draws' \in Draws /\ Registry!Issue(draws')
      /\ Registry!Do(c, [step |-> "granted", name |-> n, password |-> new,
                         phrase |-> draws'])
  BY <1>2, RewrapStep DEF ResetFetch
<1>4. Doing[c] = Registry!Idle
  BY DoingFacts DEF ResetFetch
<1>5. Account[n].phrase \in told[n]
  <2>1. Account[n] = [password |-> users[n].cred.hash.password,
                      phrase |-> users[n].cred.backup.kek]
    BY <1>1, AccountFacts
  <2>2. Account[n].phrase = users[n].cred.backup.kek
    BY <2>1
  <2> QED
    BY <1>1, <1>2, <2>2
<1>6. UNCHANGED <<Account, Gone, told, Who, Entered>>
  BY Unseen DEF ResetFetch
<1> QED
  BY <1>3, <1>4, <1>5, <1>6 DEF Registry!GrantReset

LEMMA ChangeStep ==
  ASSUME RegistryInv, NEW c \in Clients, WriteCredentials(c)
  PROVE  Registry!Change(c)
<1>1. /\ IInv /\ op[c] \in Op /\ op[c] # None /\ op[c].kind = "write"
      /\ UNCHANGED <<session, told, kept, draws>>
  BY DEF WriteCredentials, RegistryInv, IInv, TypeOK
<1>2. PICK n \in Names, cred \in Credentials, phrase \in Draws :
        n = op[c].name /\ cred = op[c].cred /\ phrase = op[c].phrase
  BY <1>1 DEF Op
<1>3. phrase = cred.backup.kek /\ users[n] # None
  BY <1>1, <1>2 DEF RegistryInv, PhrasesMatch, IInv, OpsOK, OpOK
<1> DEFINE row == [users[n] EXCEPT !.cred = cred]
           account == [password |-> cred.hash.password, phrase |-> phrase]
           o == [kind |-> "answer", name |-> n, phrase |-> phrase]
<1>4. row \in Row /\ row.cred = cred /\ row.live = users[n].live /\ row # None
  BY <1>1, <1>3, NoneAssumption DEF IInv, TypeOK, Row
<1>5. users' = [users EXCEPT ![n] = row]
  BY <1>2 DEF WriteCredentials, Updated
<1> HIDE DEF row
<1>6. Found(n) <=> Found(n)'
  BY <1>1, <1>3, <1>4, <1>5 DEF Found, IInv, TypeOK
<1>7. Account' = [Account EXCEPT ![n] =
                    IF @ = Registry!NoAccount THEN Registry!NoAccount ELSE account]
  <2>1. \A m \in Names : m # n => AccountOf(m)' = AccountOf(m)
    BY <1>1, <1>5 DEF AccountOf, Found, IInv, TypeOK
  <2>2. AccountOf(n)' = IF Account[n] = Registry!NoAccount
                        THEN Registry!NoAccount ELSE account
    <3>1. CASE Found(n)
      <4>1. Account[n] # Registry!NoAccount
        BY <1>1, <3>1, AccountFacts
      <4>2. users'[n].cred = cred
        BY <1>1, <1>4, <1>5 DEF IInv, TypeOK
      <4> QED
        BY <1>3, <1>6, <3>1, <4>1, <4>2 DEF AccountOf
    <3>2. CASE ~Found(n)
      <4>1. Account[n] = Registry!NoAccount
        BY <1>1, <3>2, AccountFacts
      <4> QED
        BY <1>6, <3>2, <4>1 DEF AccountOf, Registry!NoAccount
    <3> QED
      BY <3>1, <3>2
  <2> HIDE DEF account
  <2> QED
    BY <2>1, <2>2 DEF Account
<1>8. Gone' = Gone
  BY <1>1, <1>3, <1>4, <1>5 DEF Gone, IInv, TypeOK
<1>9. Registry!Do(c, OperationOf(o))
  BY <1>1, <1>2, DoingStep DEF WriteCredentials, Registry!Do
<1>10. OperationOf(o) = [step |-> "changed", name |-> n, phrase |-> phrase]
  <2>1. o \in Op
    BY DEF Op
  <2>2. o # None
    BY <2>1, NoneAssumption
  <2> QED
    BY <2>2 DEF OperationOf
<1>11. /\ Doing[c].step = "granted" /\ Doing[c].name = n
       /\ Doing[c].password = cred.hash.password /\ Doing[c].phrase = phrase
  <2>1. Doing[c] = OperationOf(op[c])
    BY DoingFacts
  <2> QED
    BY <1>1, <1>2, <2>1 DEF OperationOf
<1>12. UNCHANGED <<Issued, told, Who, Entered>>
  BY <1>1, Unseen
<1> HIDE DEF o
<1> QED
  BY <1>7, <1>8, <1>9, <1>10, <1>11, <1>12 DEF Registry!Change

LEMMA AnswerStep ==
  ASSUME IInv, NEW c \in Clients, Answer(c)
  PROVE  Registry!Answer(c)
<1>1. Registry!Return(c)
  BY ReturnStep DEF Answer
<1>2. Doing[c].step = "changed"
  <2>1. Doing[c] = OperationOf(op[c])
    BY DoingFacts
  <2> QED
    BY <2>1 DEF Answer, OperationOf
<1>3. UNCHANGED <<Account, Gone, Issued, Who, Entered>>
  BY Unseen DEF Answer
<1> QED
  BY <1>1, <1>2, <1>3 DEF Registry!Answer

LEMMA DeleteStep ==
  ASSUME IInv, NEW c \in Clients, DeleteUser(c)
  PROVE  Registry!Delete(c)
<1> DEFINE n == session[c].user
           row == [users[n] EXCEPT !.live = FALSE]
<1>1. n \in Names /\ n # None /\ Who[c] = n /\ Found(n) /\ users[n] \in Row
  BY DEF DeleteUser, Found, IInv, TypeOK, NoSession, Who
<1>2. row \in Row /\ ~row.live /\ row # None
  BY <1>1, NoneAssumption DEF Row
<1>3. users' = [users EXCEPT ![n] = row]
  BY DEF DeleteUser
<1> HIDE DEF n, row
<1>4. Account' = [Account EXCEPT ![n] = Registry!NoAccount]
  BY <1>2, <1>3 DEF IInv, TypeOK, Account, AccountOf, Found, Registry!NoAccount
<1>5. Gone' = Gone \cup {n}
  BY <1>1, <1>2, <1>3 DEF IInv, TypeOK, Gone
<1>6. Doing[c] = Registry!Idle
  BY DoingFacts DEF DeleteUser
<1>7. Account[n] # Registry!NoAccount
  BY <1>1, AccountFacts
<1>8. UNCHANGED <<Issued, told, Who, Entered, Doing>>
  BY Unseen DEF DeleteUser
<1> QED
  BY <1>1, <1>4, <1>5, <1>6, <1>7, <1>8 DEF Registry!Delete

----------------------------------------------------------------------------
(* Every step is one of the registry                                        *)

LEMMA PhrasesStep == RegistryInv /\ [Next]_vars => PhrasesMatch'
<1> SUFFICES ASSUME RegistryInv, [Next]_vars, NEW d \in Clients,
                    op'[d] # None, op'[d].kind = "write"
             PROVE  op'[d].phrase = op'[d].cred.backup.kek
  BY DEF PhrasesMatch
<1> DEFINE Same == op'[d] = op[d]
           Matches == op'[d] # None /\ op'[d].kind = "write"
                        => op'[d].phrase = op'[d].cred.backup.kek
<1>0. op \in [Clients -> Op \cup {None}]
  BY DEF RegistryInv, IInv, TypeOK
<1>1. ASSUME NEW c \in Clients, NEW o, op' = [op EXCEPT ![c] = o],
             o = None \/ o.kind # "write"
      PROVE  Same \/ Matches
  BY <1>0, <1>1
<1>2. ASSUME NEW c \in Clients, NEW n, NEW dek, NEW new, NEW used,
             Rewrap(c, n, dek, new, used)
      PROVE  Same \/ Matches
  BY <1>0, <1>2 DEF Rewrap, NewCredentials, Wrap
<1>3. ASSUME NEW c \in Clients, NEW n \in Names, NEW password \in Passwords,
             RegisterSave(c, n, password)
      PROVE  Same \/ Matches
  BY <1>1, <1>3 DEF RegisterSave
<1>4. ASSUME NEW c \in Clients, NEW old \in Passwords, NEW new \in Passwords,
             ChangeCheck(c, old, new)
      PROVE  Same \/ Matches
  BY <1>1, <1>4 DEF ChangeCheck
<1>5. ASSUME NEW c \in Clients, WriteCredentials(c) PROVE Same \/ Matches
  BY <1>1, <1>5 DEF WriteCredentials
<1>6. ASSUME NEW c \in Clients, ChangeFetch(c) PROVE Same \/ Matches
  BY <1>1, <1>2, <1>6 DEF ChangeFetch, Stop
<1>7. ASSUME NEW c \in Clients, NEW n \in Names, NEW phrase \in Draws,
             NEW new \in Passwords, ResetFetch(c, n, phrase, new)
      PROVE  Same \/ Matches
  BY <1>2, <1>7 DEF ResetFetch
<1>8. ASSUME NEW c \in Clients, RegisterLogin(c) \/ RegisterRaises(c) \/ Answer(c)
                                \/ Rollback(c) \/ Crash(c)
      PROVE  Same \/ Matches
  <2>1. op' = [op EXCEPT ![c] = None]
    BY <1>8 DEF RegisterLogin, RegisterRaises, Answer, Rollback, Crash, Stop
  <2> QED
    BY <1>1, <2>1
<1>9. ASSUME UNCHANGED op PROVE Same
  BY <1>9
<1> HIDE DEF Same, Matches
<1>10. Same \/ Matches
  BY <1>3, <1>4, <1>5, <1>6, <1>7, <1>8, <1>9
     DEF Next, vars, Login, RestoreSession, Logout, DeleteUser
<1> QED
  BY <1>10 DEF Same, Matches, RegistryInv, PhrasesMatch

LEMMA RegistryInit == Init => RegistryInv /\ Registry!Init
<1> SUFFICES ASSUME Init PROVE RegistryInv /\ Registry!Init
  OBVIOUS
<1>1. RegistryInv
  BY InitIInv DEF RegistryInv, PhrasesMatch, Init
<1>2. Account = [n \in Names |-> Registry!NoAccount]
  BY DEF Init, Account, AccountOf, Found, Registry!NoAccount
<1>3. Gone = {} /\ Entered = {} /\ told = [n \in Names |-> {}]
  BY DEF Init, Gone, Entered
<1>4. Issued = {}
  BY DEF Init, Issued
<1>5. Who = [c \in Clients |-> None]
  BY DEF Init, Who, NoSession
<1>6. Doing = [c \in Clients |-> Registry!Idle]
  BY DEF Init, Doing, OperationOf, Registry!Idle
<1> QED
  BY <1>1, <1>2, <1>3, <1>4, <1>5, <1>6 DEF Registry!Init

LEMMA RegistryStep == RegistryInv /\ [Next]_vars => [Registry!Next]_(Registry!vars)
<1> SUFFICES ASSUME RegistryInv, [Next]_vars PROVE [Registry!Next]_(Registry!vars)
  OBVIOUS
<1>0. IInv
  BY DEF RegistryInv
<1>1. CASE UNCHANGED vars
  <2>1. UNCHANGED <<Account, Gone, Issued, told, Who, Entered, Doing>>
    BY <1>1, Unseen DEF vars
  <2> QED
    BY <2>1 DEF Registry!vars
<1>2. ASSUME NEW c \in Clients, NEW n \in Names, NEW password \in Passwords,
             RegisterSave(c, n, password)
      PROVE  Registry!Next
  BY <1>0, <1>2, RegisterStep DEF Registry!Next
<1>3. ASSUME NEW c \in Clients, NEW n \in Names, NEW password \in Passwords,
             Login(c, n, password)
      PROVE  Registry!Next
  BY <1>0, <1>3, LoginStep DEF Registry!Next
<1>4. ASSUME NEW c \in Clients, NEW pair \in kept, RestoreSession(c, pair)
      PROVE  Registry!Next
  BY <1>0, <1>4, RestoreStep DEF Registry!Next
<1>5. ASSUME NEW c \in Clients, NEW old \in Passwords, NEW new \in Passwords,
             ChangeCheck(c, old, new)
      PROVE  Registry!Next
  BY <1>0, <1>5, AskChangeStep DEF Registry!Next
<1>6. ASSUME NEW c \in Clients, NEW n \in Names, NEW phrase \in Draws,
             NEW new \in Passwords, ResetFetch(c, n, phrase, new)
      PROVE  Registry!Next
  BY <1>0, <1>6, GrantResetStep DEF Registry!Next
<1>7. ASSUME NEW c \in Clients, RegisterLogin(c) PROVE Registry!Next
  BY <1>0, <1>7, FirstLoginStep DEF Registry!Next
<1>8. ASSUME NEW c \in Clients, ChangeFetch(c) PROVE Registry!Next
  BY <1>0, <1>8, GrantStep DEF Registry!Next
<1>9. ASSUME NEW c \in Clients, Logout(c) PROVE Registry!Next
  BY <1>0, <1>9, LogoutStep DEF Registry!Next
<1>10. ASSUME NEW c \in Clients, WriteCredentials(c) PROVE Registry!Next
  BY <1>10, ChangeStep DEF Registry!Next
<1>11. ASSUME NEW c \in Clients, Answer(c) PROVE Registry!Next
  BY <1>0, <1>11, AnswerStep DEF Registry!Next
<1>12. ASSUME NEW c \in Clients, DeleteUser(c) PROVE Registry!Next
  BY <1>0, <1>12, DeleteStep DEF Registry!Next
<1>13. ASSUME NEW c \in Clients, RegisterRaises(c) \/ Rollback(c) \/ Crash(c)
       PROVE  Registry!Next
  <2>1. Registry!Abandon(c)
    BY <1>0, <1>13, AbandonStep DEF RegisterRaises, Rollback, Crash
  <2> QED
    BY <2>1 DEF Registry!Next
<1> QED
  BY <1>1, <1>2, <1>3, <1>4, <1>5, <1>6, <1>7, <1>8, <1>9, <1>10, <1>11, <1>12, <1>13
     DEF Next

\* Every step of the operations on standard_users is a step of AccountRegistry
\* or a stutter, however clients share accounts and wherever processes end: a
\* session, or new credentials, only for who shows the password or the phrase the
\* account has at that moment, both replaced in one step, and no account that was
\* deleted gets any.
THEOREM AccountsImplementRegistry == Spec => ImplementsRegistry
<1>1. Init => RegistryInv /\ Registry!Init
  BY RegistryInit
<1>2. RegistryInv /\ [Next]_vars => RegistryInv'
  BY NextIInv, PhrasesStep DEF RegistryInv
<1>3. RegistryInv /\ [Next]_vars => [Registry!Next]_(Registry!vars)
  BY RegistryStep
<1> QED
  BY <1>1, <1>2, <1>3, PTL DEF Spec, ImplementsRegistry, Registry!Spec

----------------------------------------------------------------------------
(* Void phrases *)

\* An operation that has drawn a phrase which it has yet to return.
Holds(o) == o # None /\ o.kind \in {"login", "write", "answer"}

\* That phrase is nobody's yet, neither a caller's nor another operation's.
Untold(c) == Holds(op[c]) =>
  /\ op[c].phrase <= draws
  /\ \A n \in Names : op[c].phrase \notin told[n]
  /\ \A d \in Clients \ {c} : Holds(op[d]) => op[d].phrase # op[c].phrase

ToldDrawn == \A n \in Names : \A phrase \in told[n] : phrase <= draws

UntoldInv == ToldDrawn /\ \A c \in Clients : Untold(c)

\* A step of a client that draws no phrase: it keeps the one it holds, drops it,
\* or returns it.
LEMMA UntoldStays ==
  ASSUME IInv, UntoldInv, NEW c \in Clients, draws' = draws,
         \A d \in Clients : d # c => op'[d] = op[d],
         Holds(op'[c]) => Holds(op[c]) /\ op'[c].phrase = op[c].phrase,
         \/ told' = told
         \/ /\ op'[c] = None /\ Holds(op[c])
            /\ \A n \in Names : told'[n] \subseteq told[n] \cup {op[c].phrase}
  PROVE  UntoldInv'
<1>1. ToldDrawn'
  BY DEF UntoldInv, ToldDrawn, Untold
<1>2. Untold(c)'
  <2>1. CASE told' = told
    BY <2>1 DEF UntoldInv, Untold, Holds
  <2>2. CASE op'[c] = None
    BY <2>2 DEF Untold, Holds
  <2> QED
    BY <2>1, <2>2
<1>3. ASSUME NEW d \in Clients, d # c, Holds(op[d]) PROVE Untold(d)'
  <2>1. op'[d] = op[d] /\ op[d].phrase <= draws'
    BY <1>3 DEF UntoldInv, Untold
  <2>2. \A n \in Names : op[d].phrase \notin told'[n]
    <3>1. \A n \in Names : op[d].phrase \notin told[n]
      BY <1>3 DEF UntoldInv, Untold
    <3>2. Holds(op[c]) => op[d].phrase # op[c].phrase
      BY <1>3 DEF UntoldInv, Untold
    <3> QED
      BY <3>1, <3>2
  <2>3. \A e \in Clients \ {d} : Holds(op'[e]) => op'[e].phrase # op[d].phrase
    <3>1. \A e \in Clients \ {d} : Holds(op[e]) => op[e].phrase # op[d].phrase
      BY <1>3 DEF UntoldInv, Untold
    <3> QED
      BY <3>1
  <2> QED
    BY <2>1, <2>2, <2>3 DEF Untold, Holds
<1>4. \A d \in Clients : Untold(d)'
  <2> SUFFICES ASSUME NEW d \in Clients, d # c, ~Holds(op[d]) PROVE Untold(d)'
    BY <1>2, <1>3
  <2>1. op'[d] = op[d]
    OBVIOUS
  <2> QED
    BY <2>1 DEF Untold, Holds
<1> QED
  BY <1>1, <1>4 DEF UntoldInv

\* A step that draws one: nobody has it.
LEMMA UntoldDrawn ==
  ASSUME IInv, UntoldInv, NEW c \in Clients, Draw, told' = told,
         \A d \in Clients : d # c => op'[d] = op[d],
         op'[c].phrase = draws'
  PROVE  UntoldInv'
<1>1. draws \in Nat /\ draws' \in Nat /\ draws' = draws + 1 /\ draws <= MaxDraws
  BY BoundAssumption DEF IInv, TypeOK, Draw
<1>2. \A n \in Names : \A phrase \in told[n] : phrase <= draws /\ phrase \in Nat
  BY DEF UntoldInv, ToldDrawn, IInv, TypeOK, Draws
<1>3. \A d \in Clients : Holds(op[d]) => op[d].phrase <= draws /\ op[d].phrase \in Nat
  <2> SUFFICES ASSUME NEW d \in Clients, Holds(op[d])
               PROVE  op[d].phrase <= draws /\ op[d].phrase \in Nat
    OBVIOUS
  <2>1. op[d] \in Op
    BY DEF IInv, TypeOK, Holds
  <2>2. op[d].phrase \in Draws
    BY <2>1 DEF Op, Holds
  <2> QED
    BY <2>2 DEF UntoldInv, Untold, Draws
<1>4. ToldDrawn'
  BY <1>1, <1>2 DEF ToldDrawn
<1>5. Untold(c)'
  <2>1. \A n \in Names : draws' \notin told'[n]
    BY <1>1, <1>2
  <2>2. \A d \in Clients \ {c} : Holds(op'[d]) => op'[d].phrase # draws'
    BY <1>1, <1>3
  <2> QED
    BY <1>1, <2>1, <2>2 DEF Untold, Holds
<1>6. ASSUME NEW d \in Clients, d # c, Holds(op[d]) PROVE Untold(d)'
  <2>1. op'[d] = op[d] /\ op[d].phrase <= draws'
    BY <1>1, <1>3, <1>6
  <2>2. \A n \in Names : op[d].phrase \notin told'[n]
    BY <1>6 DEF UntoldInv, Untold
  <2>3. \A e \in Clients \ {d} : Holds(op'[e]) => op'[e].phrase # op[d].phrase
    <3>1. \A e \in Clients \ {d} : Holds(op[e]) => op[e].phrase # op[d].phrase
      BY <1>6 DEF UntoldInv, Untold
    <3>2. op'[c].phrase # op[d].phrase
      BY <1>1, <1>3, <1>6
    <3> QED
      BY <3>1, <3>2
  <2> QED
    BY <2>1, <2>2, <2>3 DEF Untold, Holds
<1>7. \A d \in Clients : Untold(d)'
  <2> SUFFICES ASSUME NEW d \in Clients, d # c, ~Holds(op[d]) PROVE Untold(d)'
    BY <1>5, <1>6
  <2>1. op'[d] = op[d]
    OBVIOUS
  <2> QED
    BY <2>1 DEF Untold, Holds
<1> QED
  BY <1>4, <1>7 DEF UntoldInv

LEMMA UntoldSteps == IInv /\ UntoldInv /\ [Next]_vars => UntoldInv'
<1> SUFFICES ASSUME IInv, UntoldInv, [Next]_vars PROVE UntoldInv'
  OBVIOUS
<1>0. op \in [Clients -> Op \cup {None}] /\ told \in [Names -> SUBSET Draws]
  BY DEF IInv, TypeOK
<1>1. ASSUME NEW c \in Clients, NEW n \in Names, NEW password \in Passwords,
             RegisterSave(c, n, password)
      PROVE  UntoldInv'
  BY <1>0, <1>1, UntoldDrawn DEF RegisterSave
<1>2. ASSUME NEW c \in Clients, NEW n, NEW dek, NEW new, NEW used,
             Rewrap(c, n, dek, new, used), told' = told
      PROVE  UntoldInv'
  <2>1. Draw /\ op'[c].phrase = draws' /\ \A d \in Clients : d # c => op'[d] = op[d]
    BY <1>0, <1>2 DEF Rewrap
  <2> QED
    BY <1>2, <2>1, UntoldDrawn
<1>3. ASSUME NEW c \in Clients, op' = [op EXCEPT ![c] = None],
             UNCHANGED <<told, draws>>
      PROVE  UntoldInv'
  BY <1>0, <1>3, UntoldStays DEF Holds
<1>4. ASSUME NEW c \in Clients, Answer(c) \/ RegisterLogin(c)
      PROVE  UntoldInv'
  <2>1. PICK n \in Names : n = op[c].name
    BY <1>0, <1>4 DEF Answer, RegisterLogin, Op
  <2>2. /\ Holds(op[c]) /\ op' = [op EXCEPT ![c] = None] /\ draws' = draws
        /\ told' = told \/ told' = [told EXCEPT ![n] = @ \cup {op[c].phrase}]
    BY <1>4, <2>1 DEF Answer, RegisterLogin, Holds, Stop, Tell
  <2>3. /\ op'[c] = None /\ \A d \in Clients : d # c => op'[d] = op[d]
        /\ \A m \in Names : told'[m] \subseteq told[m] \cup {op[c].phrase}
    BY <1>0, <2>2
  <2> QED
    BY <2>2, <2>3, UntoldStays DEF Holds
<1>5. ASSUME NEW c \in Clients, WriteCredentials(c)
      PROVE  UntoldInv'
  <2>1. /\ op' = [op EXCEPT ![c] = [kind |-> "answer", name |-> op[c].name,
                                    phrase |-> op[c].phrase]]
        /\ Holds(op[c]) /\ UNCHANGED <<told, draws>>
    BY <1>5 DEF WriteCredentials, Holds
  <2>2. op'[c].phrase = op[c].phrase /\ \A d \in Clients : d # c => op'[d] = op[d]
    BY <1>0, <2>1
  <2> QED
    BY <2>1, <2>2, UntoldStays
<1>6. ASSUME NEW c \in Clients, NEW old \in Passwords, NEW new \in Passwords,
             ChangeCheck(c, old, new)
      PROVE  UntoldInv'
  <2>1. op'[c].kind = "check" /\ \A d \in Clients : d # c => op'[d] = op[d]
    BY <1>0, <1>6 DEF ChangeCheck
  <2> QED
    BY <1>6, <2>1, UntoldStays DEF ChangeCheck, Holds
<1>7. ASSUME NEW c \in Clients, ChangeFetch(c) PROVE UntoldInv'
  BY <1>2, <1>3, <1>7 DEF ChangeFetch, Stop
<1>8. ASSUME NEW c \in Clients, NEW n \in Names, NEW phrase \in Draws, NEW new \in Passwords,
             ResetFetch(c, n, phrase, new)
      PROVE  UntoldInv'
  BY <1>2, <1>8 DEF ResetFetch
<1>9. ASSUME NEW c \in Clients, Rollback(c) \/ RegisterRaises(c) \/ Crash(c)
      PROVE  UntoldInv'
  <2>1. op' = [op EXCEPT ![c] = None] /\ UNCHANGED <<told, draws>>
    BY <1>9 DEF Rollback, RegisterRaises, Crash, Stop
  <2> QED
    BY <1>3, <2>1
<1>10. ASSUME UNCHANGED <<op, told, draws>> PROVE UntoldInv'
  BY <1>10 DEF UntoldInv, ToldDrawn, Untold
<1> QED
  BY <1>1, <1>4, <1>5, <1>6, <1>7, <1>8, <1>9, <1>10
     DEF Next, vars, Login, RestoreSession, Logout, DeleteUser

\* ToldStopsWorking: what a commit leaves working is no phrase that anybody was
\* given before, however many changes and resets overlap (_change_password).
THEOREM ToldPhrasesStopWorking == Spec => ToldStopsWorking
<1> DEFINE Stops == \A n \in Names : \A phrase \in told[n] :
             Works(n, phrase)' => Works(n, phrase) /\ users'[n].cred = users[n].cred
<1>1. Init => UntoldInv
  BY DEF Init, UntoldInv, ToldDrawn, Untold, Holds
<1>2. IInv /\ UntoldInv /\ PhrasesMatch /\ [Next]_vars => [Stops]_vars
  <2> SUFFICES ASSUME IInv, UntoldInv, PhrasesMatch, Next,
                      NEW n \in Names, NEW phrase \in told[n], Works(n, phrase)'
               PROVE  Works(n, phrase) /\ users'[n].cred = users[n].cred
    OBVIOUS
  <2>0. /\ users \in [Names -> Row \cup {None}] /\ phrase \in Draws /\ phrase <= draws
        /\ op \in [Clients -> Op \cup {None}] /\ session \in [Clients -> [user : Names, dek : Draws] \cup {NoSession}]
    BY DEF IInv, TypeOK, UntoldInv, ToldDrawn
  <2>1. CASE users'[n] = users[n]
    BY <2>1 DEF Works
  <2>2. ASSUME users'[n].cred.backup.kek # phrase PROVE FALSE
    BY <2>2 DEF Works, Unwrap
  <2>3. ASSUME NEW c \in Clients, NEW m \in Names, NEW password \in Passwords,
               RegisterSave(c, m, password)
        PROVE  users'[n] = users[n]
    <3>1. CASE m = n
      <4>1. users'[n].cred.backup.kek = draws'
        BY <2>0, <2>3, <3>1 DEF RegisterSave, NewCredentials, Wrap
      <4>2. draws \in Nat /\ draws' = draws + 1
        BY <2>3, BoundAssumption DEF RegisterSave, Draw, IInv, TypeOK
      <4>3. phrase # draws'
        BY <2>0, <4>2 DEF Draws
      <4> QED
        BY <2>2, <4>1, <4>3
    <3>2. CASE m # n
      BY <2>0, <2>3, <3>2 DEF RegisterSave
    <3> QED
      BY <3>1, <3>2
  <2>4. ASSUME NEW c \in Clients, WriteCredentials(c)
        PROVE  users'[n] = users[n]
    <3>1. CASE op[c].name = n
      <4>1. users[n] \in Row /\ op[c] # None /\ op[c].kind = "write" /\ op[c].cred \in Credentials
        BY <2>0, <2>4, <3>1 DEF WriteCredentials, IInv, OpsOK, OpOK, Op
      <4>2. users'[n] = [users[n] EXCEPT !.cred = op[c].cred]
        BY <2>0, <2>4, <3>1 DEF WriteCredentials, Updated
      <4>3. users'[n].cred.backup.kek = op[c].phrase
        BY <4>1, <4>2 DEF PhrasesMatch, Row
      <4>4. op[c].phrase \notin told[n]
        BY <4>1 DEF UntoldInv, Untold, Holds
      <4> QED
        BY <2>2, <4>3, <4>4
    <3>2. CASE op[c].name # n
      BY <2>0, <2>4, <3>2 DEF WriteCredentials
    <3> QED
      BY <3>1, <3>2
  <2>5. ASSUME NEW c \in Clients, DeleteUser(c)
        PROVE  Works(n, phrase) /\ users'[n].cred = users[n].cred
    <3>1. CASE session[c].user = n
      <4>1. users[n] \in Row /\ users'[n] = [users[n] EXCEPT !.live = FALSE]
        BY <2>0, <2>5, <3>1 DEF DeleteUser, Found
      <4>2. users'[n].cred = users[n].cred /\ users[n] # None
        BY <4>1, NoneAssumption DEF Row
      <4> QED
        BY <4>2 DEF Works
    <3>2. CASE session[c].user # n
      BY <2>0, <2>1, <2>5, <3>2 DEF DeleteUser
    <3> QED
      BY <3>1, <3>2
  <2> HIDE DEF Works
  <2> QED
    BY <2>1, <2>3, <2>4, <2>5 DEF Next, Login, RegisterLogin, RegisterRaises,
       RestoreSession, Logout, ChangeCheck, ChangeFetch, ResetFetch, Answer,
       Rollback, Crash
<1>3. Init => RegistryInv
  BY RegistryInit
<1>4. RegistryInv /\ [Next]_vars => RegistryInv'
  BY NextIInv, PhrasesStep DEF RegistryInv
<1>5. RegistryInv => IInv /\ PhrasesMatch
  BY DEF RegistryInv
<1>6. Spec => [][Stops]_vars
  BY <1>1, <1>2, <1>3, <1>4, <1>5, UntoldSteps, PTL DEF Spec
<1> QED
  BY <1>6 DEF ToldStopsWorking
=============================================================================
