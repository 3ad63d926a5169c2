---------------------------- MODULE StoreProofs ----------------------------
(***************************************************************************)
(* While no two clients hold sessions of one account, Vault implements     *)
(* CredentialStore, and its readers agree: for any number of clients,      *)
(* accounts, services, credentials and draws.                              *)
(***************************************************************************)
EXTENDS VaultProofs

----------------------------------------------------------------------------
(* The inductive invariant: ExclusiveInv, and of every operation under way   *)
(* that has not raised, that its changed objects do what was asked.          *)

\* The credential a row holds.
Plain(row) == [login |-> row.login, password |-> row.password.text]

\* What committing the operation t makes of service s is what t was asked:
\* nothing, a deletion, nothing because the entry is already so, an insertion,
\* or an update whose dirty columns suffice.
Due(t, s) ==
  LET w == t.writes[s]
  IN  \/ t.asked[s] = None /\ w = None
      \/ /\ t.asked[s] = Deleted
         /\ w # None /\ "live" \in w.dirty /\ ~w.row.live /\ entries[w.id] # None
      \/ /\ t.asked[s] \in Creds
         /\ w = None
         /\ \E i \in Matching(t.user, s) : Plain(entries[i]) = t.asked[s]
      \/ /\ t.asked[s] \in Creds
         /\ w # None
         /\ entries[w.id] = None
         /\ w.row.live
         /\ Plain(w.row) = t.asked[s]
      \/ /\ t.asked[s] \in Creds
         /\ w # None
         /\ w.id \in Matching(t.user, s)
         /\ "live" \notin w.dirty
         /\ Plain(Flush(entries[w.id], w)) = t.asked[s]

DueOK == \A c \in Clients : txn[c] # None /\ txn[c].ok =>
  \A s \in Services : Due(txn[c], s)

StoreInv == ExclusiveInv /\ DueOK

\* The refinement mapping without its CHOOSE.
ViewOK == \A u \in Users :
  /\ View(u) = [s \in Services |-> View(u)[s]]
  /\ \A s \in Services :
       /\ Matching(u, s) = {} => View(u)[s] = None
       /\ \A i \in Matching(u, s) : View(u)[s] = Plain(entries[i])

----------------------------------------------------------------------------
(* What the readers answer *)

LEMMA PlainReveal ==
  ASSUME ~RestoreAny, IInv, NEW u \in Users, NEW s \in Services,
         NEW i \in Matching(u, s)
  PROVE  /\ Reveal(entries[i], u) = Plain(entries[i])
         /\ Plain(entries[i]) \in [login : Logins, password : Passwords]
         /\ Plain(entries[i]) # None
<1>1. i \in Ids /\ entries[i] \in Row /\ entries[i].user = u /\ entries[i] # None
  BY MatchingRow, NoneAssumption DEF IInv
<1>2. Sealed(entries[i])
  BY <1>1 DEF IInv, RowsOK
<1>3. Decrypt(entries[i].password, entries[i].nonce, u) = entries[i].password.text
  BY <1>1, <1>2 DEF Sealed, Decrypt
<1>4. entries[i].login \in Logins /\ entries[i].password.text \in Passwords
  BY <1>1 DEF Row, Ciphertext
<1>5. Plain(entries[i]) \in [login : Logins, password : Passwords]
  BY <1>4 DEF Plain
<1> QED
  BY <1>3, <1>5, NoneAssumption DEF Reveal, Plain

\* A query over at most one row has one answer.
LEMMA OneAnswer ==
  ASSUME ~RestoreAny, ExclusiveInv, NEW u \in Users, NEW s \in Services
  PROVE  /\ Matching(u, s) = {} => FetchRow(u, s) = {None} /\ GetPassFor(u, u, s) = {None}
         /\ \A i \in Matching(u, s) : /\ FetchRow(u, s) = {i} /\ Matching(u, s) = {i}
                                      /\ GetPassFor(u, u, s) = {Plain(entries[i])}
<1>1. CASE Matching(u, s) = {}
  BY <1>1 DEF FetchRow, GetPassFor
<1>2. ASSUME NEW i \in Matching(u, s)
      PROVE  /\ FetchRow(u, s) = {i} /\ Matching(u, s) = {i}
             /\ GetPassFor(u, u, s) = {Plain(entries[i])}
  <2>1. Matching(u, s) = {i}
    BY <1>2 DEF ExclusiveInv, AtMostOne
  <2>2. FetchRow(u, s) = {i} /\ i # None
    BY <2>1, <1>2, NoneAssumption DEF FetchRow, Matching, LiveRows
  <2>3. Reveal(entries[i], u) = Plain(entries[i])
    BY <1>2, PlainReveal DEF ExclusiveInv
  <2> QED
    BY <2>1, <2>2, <2>3 DEF GetPassFor
<1> QED
  BY <1>1, <1>2

LEMMA ViewNow == ASSUME ~RestoreAny PROVE ExclusiveInv => ViewOK
<1> SUFFICES ASSUME ExclusiveInv, NEW u \in Users
             PROVE  /\ View(u) = [s \in Services |-> View(u)[s]]
                    /\ \A s \in Services :
                         /\ Matching(u, s) = {} => View(u)[s] = None
                         /\ \A i \in Matching(u, s) : View(u)[s] = Plain(entries[i])
  BY DEF ViewOK
<1>1. ASSUME NEW s \in Services, NEW x, GetPassFor(u, u, s) = {x}
      PROVE  View(u)[s] = x
  <2>1. View(u)[s] = CHOOSE answer \in GetPassFor(u, u, s) : TRUE
    BY DEF View
  <2>2. (CHOOSE answer \in {x} : TRUE) = x
    OBVIOUS
  <2> QED
    BY <1>1, <2>1, <2>2
<1>2. View(u) = [s \in Services |-> View(u)[s]]
  BY DEF View
<1> QED
  BY <1>1, <1>2, OneAnswer

\* The list of services, the dict of decrypted credentials and the answer for
\* one service are three queries; while no two clients share an account they
\* agree, because each has at most one row to find.
THEOREM ReadersInAgreement ==
  ASSUME ~SharedAccounts, ~RestoreAny PROVE Spec => []ReadersAgree
<1>1. ExclusiveInv => ReadersAgree
  <2> SUFFICES ASSUME ExclusiveInv, NEW c \in Clients, session[c] # NoSession,
                      NEW dict \in GetAllDecrypted(session[c].user, session[c].dek),
                      NEW s \in Services
               PROVE  /\ GetPassFor(session[c].user, session[c].dek, s) = {dict[s]}
                      /\ GetAllServices(session[c].user)[s] = (IF dict[s] = None THEN 0 ELSE 1)
    BY DEF ReadersAgree
  <2> DEFINE u == session[c].user
  <2>1. u \in Users /\ session[c].dek = u
    <3>1. session[c] \in Session /\ session[c].dek = session[c].user
      BY DEF ExclusiveInv, IInv, TypeOK, SessionsOK
    <3>2. session[c] = [user |-> session[c].user, dek |-> session[c].dek]
      BY <3>1 DEF Session
    <3> QED
      BY <3>1, <3>2 DEF NoSession, Session
  <2>2. PICK f \in ByService(u) :
          dict = [t \in Services |-> IF f[t] = None THEN None ELSE Reveal(entries[f[t]], u)]
    BY <2>1 DEF GetAllDecrypted
  <2>3. /\ f[s] \in FetchRow(u, s)
        /\ dict[s] = (IF f[s] = None THEN None ELSE Reveal(entries[f[s]], u))
        /\ GetAllServices(u)[s] = Cardinality(Matching(u, s))
    BY <2>2, ByServiceType DEF GetAllServices
  <2> HIDE DEF u
  <2>4. CASE Matching(u, s) = {}
    BY <2>1, <2>3, <2>4, OneAnswer, FS_EmptySet DEF u
  <2>5. ASSUME NEW i \in Matching(u, s)
        PROVE  /\ GetPassFor(u, u, s) = {dict[s]}
               /\ GetAllServices(u)[s] = (IF dict[s] = None THEN 0 ELSE 1)
    <3>1. FetchRow(u, s) = {i} /\ Matching(u, s) = {i} /\ GetPassFor(u, u, s) = {Plain(entries[i])}
      BY <2>1, <2>5, OneAnswer
    <3>2. i # None
      BY <2>5, NoneAssumption DEF Matching, LiveRows
    <3>3. dict[s] = Plain(entries[i]) /\ Plain(entries[i]) # None
      BY <2>1, <2>3, <2>5, <3>1, <3>2, PlainReveal DEF ExclusiveInv
    <3>4. Cardinality({i}) = 1
      BY FS_Singleton
    <3> QED
      BY <2>3, <3>1, <3>3, <3>4
  <2> QED
    BY <2>1, <2>4, <2>5 DEF u
<1>2. ExclusiveInv /\ [Next]_vars => ExclusiveInv'
  BY NextExclusive
<1> QED
  BY <1>1, <1>2, InitExclusive, PTL DEF Spec

----------------------------------------------------------------------------
(* What is due stays due                                                    *)

\* Steps that leave the rows of t's account alone, and the ids it is about to
\* insert, leave what is due for t as it was.
LEMMA DueStays ==
  ASSUME NEW t \in Txn, NEW s \in Services, Due(t, s),
         \A i \in Ids : \/ entries'[i] = entries[i]
                       \/ /\ entries'[i] # None /\ entries'[i].user # t.user
                          /\ entries[i] # None => entries[i].user # t.user
                          /\ t.writes[s] # None => i # t.writes[s].id
  PROVE  Due(t, s)'
<1> DEFINE w == t.writes[s]
<1>1. /\ Matching(t.user, s)' = Matching(t.user, s)
      /\ \A i \in Matching(t.user, s) : entries'[i] = entries[i]
  BY DEF Matching, LiveRows
<1>2. w # None => w.id \in Ids
  BY DEF Txn, Write
<1>3. w # None => entries'[w.id] = entries[w.id]
  BY <1>2
<1> QED
  BY <1>1, <1>3 DEF Due, Plain

\* A step that leaves the rows alone and keeps or drops operations.
LEMMA DropDue ==
  ASSUME DueOK, UNCHANGED entries,
         \A c \in Clients : txn'[c] = txn[c] \/ txn'[c] = None
  PROVE  DueOK'
<1> SUFFICES ASSUME NEW c \in Clients, txn'[c] # None, txn'[c].ok, NEW s \in Services
             PROVE  Due(txn[c], s)'
  BY DEF DueOK
<1>1. txn'[c] = txn[c] /\ Due(txn[c], s)
  BY DEF DueOK
<1>2. Matching(txn[c].user, s)' = Matching(txn[c].user, s)
  BY <1>1 DEF Matching, LiveRows
<1> QED
  BY <1>1, <1>2 DEF Due, Matching, LiveRows

\* A new operation: what it prepared is what was asked.
LEMMA BeginDue ==
  ASSUME StoreInv, NEW c \in Clients, NEW asked, NEW writes, NEW ok,
         Begin(c, asked, writes, ok), UNCHANGED entries,
         ok => \A s \in Services :
           Due([user |-> session[c].user, asked |-> asked, writes |-> writes, ok |-> ok], s)
  PROVE  DueOK'
<1> DEFINE t == [user |-> session[c].user, asked |-> asked, writes |-> writes, ok |-> ok]
<1>1. txn'[c] = t /\ \A d \in Clients \ {c} : txn'[d] = txn[d]
  BY DEF Begin, StoreInv, ExclusiveInv, IInv, TypeOK
<1> SUFFICES ASSUME NEW d \in Clients, txn'[d] # None, txn'[d].ok, NEW s \in Services
             PROVE  Due(txn[d], s)'
  BY DEF DueOK
<1>2. PICK x : x = txn'[d]
  OBVIOUS
<1>3. Due(x, s)
  BY <1>1, <1>2 DEF StoreInv, DueOK
<1>4. Matching(x.user, s)' = Matching(x.user, s)
  BY DEF Matching, LiveRows
<1> QED
  BY <1>2, <1>3, <1>4 DEF Due

\* A saved credential is due: an insertion holds it, and an update writes
\* every column that differs.
LEMMA PreparedDue ==
  ASSUME ~RestoreAny, ExclusiveInv, NEW c \in Clients, Ready(c), draws < MaxDraws,
         NEW s \in Services, NEW cred \in Creds,
         NEW i \in FetchRow(session[c].user, s),
         NEW t, t.user = session[c].user, t.asked[s] = cred,
         t.writes[s] = Prepare(c, s, cred, i)
  PROVE  Due(t, s)
<1> DEFINE w == Prepare(c, s, cred, i)
           nonce == <<draws + 1, s>>
           key == session[c].dek
<1>1. w \in Write /\ w # None /\ cred = [login |-> cred.login, password |-> cred.password]
  BY PrepareOK, NoneAssumption, CredsAssumption DEF ExclusiveInv
<1>2. CASE i = None
  <2>1. /\ w.id = nonce /\ w.row.live /\ w.row.login = cred.login
        /\ w.row.password.text = cred.password
    BY <1>2 DEF Prepare, NewPassword, Encrypt
  <2>2. entries[w.id] = None
    <3>1. draws \in Nat /\ nonce \in Ids /\ nonce[1] = draws + 1
      BY BoundAssumption DEF ExclusiveInv, IInv, TypeOK, Ids
    <3> QED
      BY <2>1, <3>1 DEF ExclusiveInv, IInv, DrawnOK
  <2> QED
    BY <1>1, <2>1, <2>2 DEF Due, Plain
<1>3. CASE i # None
  <2> DEFINE row == UpdatePassword(entries[i], cred, key, nonce)
  <2>1. /\ w.id = i /\ w.row = row /\ w.dirty = Dirty(entries[i], row)
        /\ i \in Matching(session[c].user, s)
    BY <1>3 DEF Prepare, FetchRow
  <2>2. entries[i] \in Row /\ entries[i] # None
    BY <2>1, MatchingRow, NoneAssumption DEF ExclusiveInv, IInv
  <2>3. /\ row.login = cred.login /\ row.password = Encrypt(cred.password, key, nonce)
        /\ row.live = entries[i].live
    BY <2>2 DEF UpdatePassword, Row
  <2>4. /\ "live" \notin w.dirty
        /\ "login" \notin w.dirty => entries[i].login = row.login
        /\ "password" \notin w.dirty => entries[i].password = row.password
    BY <2>1, <2>3 DEF Dirty, Columns
  <2>5. /\ Flush(entries[i], w).login = cred.login
        /\ Flush(entries[i], w).password = Encrypt(cred.password, key, nonce)
    BY <2>1, <2>2, <2>3, <2>4 DEF Flush
  <2>6. Plain(Flush(entries[i], w)) = cred
    BY <1>1, <2>5 DEF Plain, Encrypt
  <2> QED
    BY <1>1, <2>1, <2>4, <2>6 DEF Due
<1> QED
  BY <1>2, <1>3

LEMMA SavePasswordDue ==
  ASSUME ~RestoreAny, StoreInv, NEW c \in Clients, NEW s \in Services,
         NEW cred \in Creds, SavePassword(c, s, cred)
  PROVE  DueOK'
<1> DEFINE asked == [t \in Services |-> IF t = s THEN cred ELSE None]
           writes(i) == [t \in Services |-> IF t = s THEN Prepare(c, s, cred, i) ELSE None]
           T(i) == [user |-> session[c].user, asked |-> asked, writes |-> writes(i), ok |-> TRUE]
<1>1. PICK i \in FetchRow(session[c].user, s) : Begin(c, asked, writes(i), TRUE)
  BY DEF SavePassword
<1>2. Ready(c) /\ draws < MaxDraws /\ UNCHANGED entries
  BY DEF SavePassword, Draw
<1>3. ASSUME NEW r \in Services
      PROVE  Due(T(i), r)
  <2>1. CASE r = s
    <3>1. T(i).user = session[c].user /\ T(i).asked[s] = cred
          /\ T(i).writes[s] = Prepare(c, s, cred, i)
      OBVIOUS
    <3> HIDE DEF T
    <3> QED
      BY <1>2, <2>1, <3>1, PreparedDue DEF StoreInv
  <2>2. CASE r # s
    <3>1. T(i).asked[r] = None /\ T(i).writes[r] = None
      BY <2>2
    <3> QED
      BY <3>1 DEF Due
  <2> QED
    BY <2>1, <2>2
<1> HIDE DEF asked, writes
<1> QED
  BY <1>1, <1>2, <1>3, BeginDue

LEMMA SavePasswordsDue ==
  ASSUME ~RestoreAny, StoreInv, NEW c \in Clients, NEW batch \in Batches,
         SavePasswords(c, batch)
  PROVE  DueOK'
<1> DEFINE key == session[c].dek
           u == session[c].user
           Skip(s, i) == \/ batch[s] \notin Creds
                         \/ i # None /\ IsUnchanged(entries[i], batch[s], key)
           Fine(s, i) == /\ batch[s] \notin BadCreds
                         /\ i # None /\ batch[s] # None
                              => Compares(entries[i], batch[s], key)
           writes(f) == [s \in Services |-> IF Skip(s, f[s]) THEN None
                                            ELSE Prepare(c, s, batch[s], f[s])]
           Ok(f) == \A s \in Services : Fine(s, f[s])
           T(f) == [user |-> u, asked |-> batch, writes |-> writes(f), ok |-> Ok(f)]
<1>1. PICK f \in ByService(u) : Begin(c, batch, writes(f), Ok(f))
  BY DEF SavePasswords
<1>2. Ready(c) /\ draws < MaxDraws /\ UNCHANGED entries
  BY DEF SavePasswords, Draw
<1>3. ASSUME Ok(f), NEW s \in Services
      PROVE  Due(T(f), s)
  <2>1. batch[s] \in Creds \cup {None} /\ f[s] \in FetchRow(u, s)
    BY <1>3, ByServiceType DEF Batches
  <2>2. /\ T(f).user = u /\ T(f).asked[s] = batch[s]
        /\ T(f).writes[s] = (IF Skip(s, f[s]) THEN None ELSE Prepare(c, s, batch[s], f[s]))
    OBVIOUS
  <2> HIDE DEF T
  <2>3. CASE batch[s] = None
    BY <2>2, <2>3, CredsAssumption DEF Due
  <2>4. CASE batch[s] \in Creds /\ ~Skip(s, f[s])
    <3>1. T(f).writes[s] = Prepare(c, s, batch[s], f[s])
      BY <2>2, <2>4
    <3> QED
      BY <1>2, <2>1, <2>2, <2>4, <3>1, PreparedDue DEF StoreInv
  <2>5. CASE batch[s] \in Creds /\ Skip(s, f[s])
    <3>1. T(f).writes[s] = None
      BY <2>2, <2>5
    <3>2. f[s] \in Matching(u, s) /\ IsUnchanged(entries[f[s]], batch[s], key)
      BY <2>1, <2>5 DEF FetchRow
    <3>3. batch[s].password \in Passwords
          /\ batch[s] = [login |-> batch[s].login, password |-> batch[s].password]
      BY <2>5, CredsAssumption DEF Passwords
    <3>4. entries[f[s]].password.text = batch[s].password
      BY <3>2, <3>3, NoneAssumption DEF IsUnchanged, Decrypt
    <3>5. Plain(entries[f[s]]) = batch[s]
      BY <3>2, <3>3, <3>4 DEF IsUnchanged, Plain
    <3> QED
      BY <2>2, <2>5, <3>1, <3>2, <3>5 DEF Due
  <2> QED
    BY <2>1, <2>3, <2>4, <2>5
<1> HIDE DEF writes, Ok
<1> QED
  BY <1>1, <1>2, <1>3, BeginDue

LEMMA DeletePasswordDue ==
  ASSUME StoreInv, NEW c \in Clients, NEW s \in Services, DeletePassword(c, s)
  PROVE  DueOK'
<1> DEFINE asked == [t \in Services |-> IF t = s THEN Deleted ELSE None]
           W(i) == [id |-> i, row |-> [entries[i] EXCEPT !.live = FALSE],
                    dirty |-> {"live"}]
           writes(i) == [t \in Services |-> IF t = s THEN W(i) ELSE None]
           T(i) == [user |-> session[c].user, asked |-> asked, writes |-> writes(i), ok |-> TRUE]
<1>1. PICK i \in Matching(session[c].user, s) : Begin(c, asked, writes(i), TRUE)
  BY DEF DeletePassword
<1>2. UNCHANGED entries /\ Ready(c)
  BY DEF DeletePassword
<1>3. ASSUME NEW r \in Services
      PROVE  Due(T(i), r)
  <2>1. CASE r = s
    <3>1. T(i).asked[s] = Deleted /\ T(i).writes[s] = W(i)
      OBVIOUS
    <3>2. entries[i] \in Row /\ entries[i] # None
      BY MatchingRow, NoneAssumption DEF StoreInv, ExclusiveInv, IInv
    <3>3. W(i) # None
      BY <1>2, DeletionOK, NoneAssumption DEF StoreInv, ExclusiveInv
    <3>4. "live" \in W(i).dirty /\ ~W(i).row.live /\ W(i).id = i
      BY <3>2 DEF Row
    <3> HIDE DEF T, W
    <3> QED
      BY <2>1, <3>1, <3>2, <3>3, <3>4 DEF Due
  <2>2. CASE r # s
    <3>1. T(i).asked[r] = None /\ T(i).writes[r] = None
      BY <2>2
    <3> QED
      BY <3>1 DEF Due
  <2> QED
    BY <2>1, <2>2
<1> HIDE DEF asked, writes
<1> QED
  BY <1>1, <1>2, <1>3, BeginDue

\* A commit of another client touches rows of another account.
LEMMA CommitDue ==
  ASSUME StoreInv, NEW c \in Clients, Commit(c)
  PROVE  DueOK'
<1>1. /\ txn'[c] = None /\ \A d \in Clients \ {c} : txn'[d] = txn[d]
      /\ txn[c] # None /\ txn[c] \in Txn /\ session[c].user = txn[c].user
      /\ txn[c].user \in Users
  BY DEF Commit, StoreInv, ExclusiveInv, IInv, TypeOK, SessionHeld, Txn
<1> SUFFICES ASSUME NEW d \in Clients, txn'[d] # None, txn'[d].ok, NEW s \in Services
             PROVE  Due(txn[d], s)'
  BY DEF DueOK
<1>2. d # c /\ txn'[d] = txn[d] /\ txn[d] \in Txn /\ Due(txn[d], s)
  BY <1>1 DEF StoreInv, ExclusiveInv, IInv, TypeOK, DueOK
<1>3. txn[d].user # txn[c].user
  BY <1>1, <1>2, NoneAssumption DEF StoreInv, ExclusiveInv, SessionHeld, Alone
<1>4. ASSUME NEW i \in Ids, entries'[i] # entries[i]
      PROVE  /\ entries'[i] # None /\ entries'[i].user # txn[d].user
             /\ entries[i] # None => entries[i].user # txn[d].user
             /\ txn[d].writes[s] # None => i # txn[d].writes[s].id
  <2> DEFINE w == txn[c].writes[i[2]]
  <2>1. /\ w # None /\ w.id = i /\ entries'[i] # None /\ entries'[i].user = txn[c].user
    BY <1>4, CommittedRow DEF StoreInv, ExclusiveInv
  <2>2. i[2] \in Services
    BY IdsParts
  <2>3. entries[i] # None => entries[i].user = txn[c].user
    BY <1>1, <2>1, <2>2 DEF StoreInv, ExclusiveInv, IInv, WritesOK, WriteOK
  <2>4. ASSUME txn[d].writes[s] # None, i = txn[d].writes[s].id
        PROVE  FALSE
    <3>1. WriteOK(txn[d].writes[s], s, txn[d].user)
      BY <1>2, <2>4 DEF StoreInv, ExclusiveInv, IInv, WritesOK
    <3>2. i[2] = s /\ entries[i] = None
      BY <1>3, <2>3, <2>4, <3>1 DEF WriteOK
    <3> QED
      BY <1>1, <1>2, <2>1, <2>2, <2>4, <3>2 DEF StoreInv, ExclusiveInv, IInv, InsertsApart
  <2> QED
    BY <1>3, <2>1, <2>3, <2>4
<1>5. PICK x : x = txn[d]
  OBVIOUS
<1>6. Due(x, s)'
  BY <1>2, <1>4, <1>5, DueStays
<1> QED
  BY <1>2, <1>5, <1>6 DEF Due

LEMMA DeleteUserDue ==
  ASSUME StoreInv, NEW c \in Clients, DeleteUser(c)
  PROVE  DueOK'
<1>1. UNCHANGED txn /\ txn[c] = None /\ session[c].user \in Users
  BY DEF DeleteUser, StoreInv, ExclusiveInv, IInv, TypeOK, ErasingOK, Session
<1> SUFFICES ASSUME NEW d \in Clients, txn[d] # None, txn[d].ok, NEW s \in Services
             PROVE  Due(txn[d], s)'
  BY <1>1 DEF DueOK
<1>2. d # c /\ txn[d] \in Txn /\ Due(txn[d], s)
  BY <1>1 DEF StoreInv, ExclusiveInv, IInv, TypeOK, DueOK
<1>3. txn[d].user # session[c].user
  BY <1>1, <1>2, NoneAssumption DEF StoreInv, ExclusiveInv, SessionHeld, Alone
<1>4. ASSUME NEW i \in Ids, entries'[i] # entries[i]
      PROVE  /\ entries'[i] # None /\ entries'[i].user # txn[d].user
             /\ entries[i] # None /\ entries[i].user # txn[d].user
             /\ entries'[i].user = entries[i].user
  <2>1. i \in LiveRows(session[c].user) /\ entries'[i] = [entries[i] EXCEPT !.live = FALSE]
    BY <1>4 DEF DeleteUser
  <2>2. entries[i] \in Row /\ entries[i] # None /\ entries[i].user = session[c].user
    BY <2>1 DEF LiveRows, StoreInv, ExclusiveInv, IInv, TypeOK
  <2>3. entries'[i] \in Row /\ entries'[i].user = session[c].user
    BY <2>1, <2>2 DEF Row
  <2> QED
    BY <1>3, <2>2, <2>3, NoneAssumption
<1>5. PICK x : x = txn[d]
  OBVIOUS
<1>6. txn[d].writes[s] # None => entries'[txn[d].writes[s].id] = entries[txn[d].writes[s].id]
  <2> SUFFICES ASSUME txn[d].writes[s] # None
               PROVE  entries'[txn[d].writes[s].id] = entries[txn[d].writes[s].id]
    OBVIOUS
  <2>1. WriteOK(txn[d].writes[s], s, txn[d].user) /\ txn[d].writes[s].id \in Ids
    BY <1>2 DEF StoreInv, ExclusiveInv, IInv, WritesOK, Txn, Write
  <2> QED
    BY <1>4, <2>1 DEF WriteOK
<1>7. Due(x, s)'
  BY <1>2, <1>4, <1>5, <1>6, DueStays
<1> QED
  BY <1>1, <1>5, <1>7 DEF Due

LEMMA NextStoreInv ==
  ASSUME ~SharedAccounts, ~RestoreAny
  PROVE  StoreInv /\ [Next]_vars => StoreInv'
<1> SUFFICES ASSUME StoreInv, [Next]_vars PROVE DueOK'
  BY NextExclusive DEF StoreInv
<1>1. ASSUME UNCHANGED entries, NEW c \in Clients, UNCHANGED txn \/ txn' = [txn EXCEPT ![c] = None]
      PROVE  DueOK'
  BY <1>1, DropDue DEF StoreInv, ExclusiveInv, IInv, TypeOK
<1>2. ASSUME NEW c \in Clients, NEW u \in Users, NEW dek \in Users,
             \/ Login(c, u) \/ RestoreSession(c, u, dek) \/ Logout(c)
             \/ Rollback(c) \/ Crash(c)
      PROVE  DueOK'
  BY <1>1, <1>2 DEF Login, RestoreSession, Logout, Rollback, Crash
<1>3. ASSUME NEW c \in Clients, Logout(c) \/ Rollback(c) \/ Crash(c) \/ FindUser(c)
      PROVE  DueOK'
  BY <1>1, <1>3 DEF Logout, Rollback, Crash, FindUser
<1>4. CASE UNCHANGED vars
  BY <1>4, DropDue DEF vars, StoreInv
<1> QED
  BY <1>2, <1>3, <1>4, SavePasswordDue, SavePasswordsDue, DeletePasswordDue,
     CommitDue, DeleteUserDue DEF Next

LEMMA InitStoreInv == Init => StoreInv
BY InitExclusive DEF StoreInv, Init, DueOK

----------------------------------------------------------------------------
(* The refinement                                                           *)

Pending == [c \in Clients |->
              IF txn[c] = None THEN None
              ELSE [user |-> txn[c].user, asked |-> txn[c].asked]]

LEMMA PendingIsARequest ==
  ASSUME StoreInv, NEW c \in Clients, txn[c] # None
  PROVE  /\ Pending[c] # None
         /\ Pending[c].user = txn[c].user /\ Pending[c].asked = txn[c].asked
<1>1. txn[c] \in Txn
  BY DEF StoreInv, ExclusiveInv, IInv, TypeOK
<1>2. [user |-> txn[c].user, asked |-> txn[c].asked]
        \in [user : Users, asked : [Services -> Creds \cup BadCreds \cup {Deleted, None}]]
  BY <1>1 DEF Txn
<1>3. Pending[c] = [user |-> txn[c].user, asked |-> txn[c].asked]
  BY DEF Pending
<1> QED
  BY <1>2, <1>3, NoneAssumption

\* Where the rows of an account stay, so does what it stores.
LEMMA SameView ==
  ASSUME ViewOK, ViewOK', NEW u \in Users, NEW s \in Services,
         Matching(u, s)' = Matching(u, s),
         \A i \in Matching(u, s) : entries'[i] = entries[i]
  PROVE  View(u)'[s] = View(u)[s]
<1>1. /\ Matching(u, s) = {} => View(u)[s] = None /\ View(u)'[s] = None
      /\ \A i \in Matching(u, s) : /\ View(u)[s] = Plain(entries[i])
                                   /\ View(u)'[s] = Plain(entries[i])
  BY DEF ViewOK, Plain
<1> QED
  BY <1>1

LEMMA SameStore ==
  ASSUME ViewOK, ViewOK', UNCHANGED entries
  PROVE  [u \in Users |-> View(u)]' = [u \in Users |-> View(u)]
<1>1. ASSUME NEW u \in Users
      PROVE  View(u)' = View(u)
  <2>1. ASSUME NEW s \in Services
        PROVE  View(u)'[s] = View(u)[s]
    BY SameView DEF Matching, LiveRows
  <2>2. /\ View(u) = [s \in Services |-> View(u)[s]]
        /\ View(u)' = [s \in Services |-> View(u)'[s]]
    BY DEF ViewOK
  <2> QED
    BY <2>1, <2>2
<1> QED
  BY <1>1

\* What a commit makes of the account it is for, and of all others.
LEMMA CommitView ==
  ASSUME StoreInv, ViewOK, ViewOK', NEW c \in Clients, Commit(c),
         NEW u \in Users, NEW s \in Services
  PROVE  LET a == txn[c].asked[s]
         IN  /\ u # txn[c].user => View(u)'[s] = View(u)[s]
             /\ u = txn[c].user =>
                  /\ a \notin BadCreds
                  /\ View(u)'[s] = IF a = None THEN View(u)[s]
                                   ELSE IF a = Deleted THEN None ELSE a
<1> DEFINE w == txn[c].writes[s]
           a == txn[c].asked[s]
<1>1. txn[c] # None /\ txn[c] \in Txn /\ txn[c].ok
  BY DEF Commit, StoreInv, ExclusiveInv, IInv, TypeOK
<1>2. ASSUME NEW i \in Ids, i[2] = s
      PROVE  \/ entries'[i] = entries[i] /\ (w = None \/ w.id # i)
             \/ /\ w # None /\ w.id = i
                /\ entries'[i] = Flush(entries[i], w)
                /\ entries'[i] # None
                /\ entries'[i].user = txn[c].user
  BY <1>2, CommittedRow DEF StoreInv, ExclusiveInv
<1>3. w # None => WriteOK(w, s, txn[c].user) /\ w.id \in Ids
  BY <1>1 DEF StoreInv, ExclusiveInv, IInv, WritesOK, Txn, Write
<1>4. CASE u # txn[c].user \/ w = None
  <2>1. ASSUME NEW i \in Ids, i[2] = s
        PROVE  \/ entries'[i] = entries[i]
               \/ /\ entries'[i] # None => entries'[i].user # u
                  /\ entries[i] # None => entries[i].user # u
    BY <1>2, <1>3, <1>4, <2>1 DEF WriteOK
  <2>2. Matching(u, s)' = Matching(u, s) /\ \A i \in Matching(u, s) : entries'[i] = entries[i]
    BY <2>1 DEF Matching, LiveRows
  <2>3. View(u)'[s] = View(u)[s]
    BY <2>2, SameView
  <2>4. SUFFICES ASSUME u = txn[c].user, w = None
                 PROVE  /\ a \notin BadCreds
                        /\ View(u)[s] = IF a = None THEN View(u)[s]
                                        ELSE IF a = Deleted THEN None ELSE a
    BY <1>4, <2>3
  <2>5. Due(txn[c], s)
    BY <1>1 DEF StoreInv, DueOK
  <2>6. \/ a = None
        \/ a \in Creds /\ \E i \in Matching(u, s) : Plain(entries[i]) = a
    BY <2>4, <2>5 DEF Due
  <2>7. \A i \in Matching(u, s) : View(u)[s] = Plain(entries[i])
    BY DEF ViewOK
  <2> QED
    BY <2>6, <2>7, CredsAssumption
<1>5. CASE u = txn[c].user /\ w # None
  <2>1. Due(txn[c], s)
    BY <1>1 DEF StoreInv, DueOK
  <2>2. entries'[w.id] = Flush(entries[w.id], w) /\ w.id[2] = s /\ w.id \in Ids
        /\ entries'[w.id] # None /\ entries'[w.id].user = u
    BY <1>2, <1>3, <1>5 DEF WriteOK
  <2>3. CASE a = Deleted /\ "live" \in w.dirty /\ ~w.row.live /\ entries[w.id] # None
    <3>1. ~entries'[w.id].live
      BY <2>2, <2>3 DEF Flush
    <3>2. Matching(u, s) \subseteq {w.id}
      BY <1>1, <1>5 DEF StoreInv, ExclusiveInv, FoundStands
    <3>3. Matching(u, s)' = {}
      BY <1>2, <3>1, <3>2 DEF Matching, LiveRows
    <3>4. View(u)'[s] = None
      BY <3>3 DEF ViewOK
    <3> QED
      BY <1>5, <2>3, <3>4, CredsAssumption
  <2>4. CASE /\ a \in Creds /\ entries'[w.id].live /\ Plain(entries'[w.id]) = a
    <3>1. w.id \in Matching(u, s)'
      BY <2>2, <2>4 DEF Matching, LiveRows
    <3>2. View(u)'[s] = Plain(entries'[w.id])
      BY <3>1 DEF ViewOK, Plain
    <3> QED
      BY <1>5, <2>4, <3>2, CredsAssumption
  <2>5. CASE /\ a \in Creds /\ entries[w.id] = None /\ w.row.live /\ Plain(w.row) = a
    BY <2>2, <2>4, <2>5 DEF Flush
  <2>6. CASE /\ a \in Creds /\ w.id \in Matching(u, s) /\ "live" \notin w.dirty
             /\ Plain(Flush(entries[w.id], w)) = a
    <3>1. entries[w.id] # None /\ entries[w.id].live
      BY <2>6 DEF Matching, LiveRows
    <3>2. entries'[w.id].live
      BY <2>2, <2>6, <3>1 DEF Flush
    <3> QED
      BY <2>2, <2>4, <2>6, <3>2
  <2> QED
    BY <1>5, <2>1, <2>3, <2>5, <2>6 DEF Due
<1> QED
  BY <1>4, <1>5

\* Steps that leave the rows alone and begin or drop no operation are
\* stutters of the store; those that drop one abandon it.
LEMMA QuietStep ==
  ASSUME StoreInv, ViewOK, ViewOK', UNCHANGED entries, NEW c \in Clients,
         UNCHANGED txn \/ txn' = [txn EXCEPT ![c] = None]
  PROVE  [Store!Next]_(Store!vars)
<1> DEFINE store == [u \in Users |-> View(u)]
<1>1. UNCHANGED store
  BY SameStore
<1>2. CASE UNCHANGED txn
  <2>1. UNCHANGED Pending
    BY <1>2 DEF Pending
  <2> QED
    BY <1>1, <2>1 DEF Store!vars, Pending
<1>3. CASE txn' = [txn EXCEPT ![c] = None] /\ txn[c] = None
  <2>1. txn' = txn
    BY <1>3 DEF StoreInv, ExclusiveInv, IInv, TypeOK
  <2> QED
    BY <1>2, <2>1
<1>4. CASE txn' = [txn EXCEPT ![c] = None] /\ txn[c] # None
  <2>1. Pending' = [Pending EXCEPT ![c] = None]
    BY <1>4 DEF Pending, StoreInv, ExclusiveInv, IInv, TypeOK
  <2>2. Pending[c] # None
    BY <1>4, PendingIsARequest
  <2>3. Store!Abandon(c)
    BY <1>1, <2>1, <2>2 DEF Store!Abandon, Pending
  <2> QED
    BY <2>3 DEF Store!Next
<1> QED
  BY <1>2, <1>3, <1>4

\* A step that begins an operation is a request.
LEMMA BeginStep ==
  ASSUME StoreInv, ViewOK, ViewOK', UNCHANGED entries, NEW c \in Clients, Ready(c),
         NEW asked \in [Services -> Creds \cup BadCreds \cup {Deleted, None}],
         NEW writes \in [Services -> Write \cup {None}], NEW ok \in BOOLEAN,
         Begin(c, asked, writes, ok),
         \A s \in Services : asked[s] = Deleted =>
           \E i \in Matching(session[c].user, s) : Plain(entries[i]) # None
  PROVE  Store!Next
<1> DEFINE store == [u \in Users |-> View(u)]
           u == session[c].user
<1>1. UNCHANGED store
  BY SameStore
<1>2. u \in Users /\ txn[c] = None
  BY DEF Ready, Idle, StoreInv, ExclusiveInv, IInv, TypeOK, SessionsOK, Session
<1>3. Pending[c] = None
  BY <1>2 DEF Pending
<1>4. Pending' = [Pending EXCEPT ![c] = [user |-> u, asked |-> asked]]
  <2>1. /\ txn'[c] # None /\ txn'[c].user = u /\ txn'[c].asked = asked
        /\ \A d \in Clients \ {c} : txn'[d] = txn[d]
    <3>1. txn' = [txn EXCEPT ![c] = [user |-> u, asked |-> asked, writes |-> writes, ok |-> ok]]
      BY DEF Begin
    <3>2. [user |-> u, asked |-> asked, writes |-> writes, ok |-> ok] # None
      BY <1>2, NoneAssumption DEF Txn
    <3> QED
      BY <3>1, <3>2 DEF StoreInv, ExclusiveInv, IInv, TypeOK
  <2> QED
    BY <2>1 DEF Pending
<1>5. \A s \in Services : asked[s] = Deleted => store[u][s] # None
  BY <1>2 DEF ViewOK
<1>6. Store!Request(c, u, asked)
  BY <1>1, <1>3, <1>4, <1>5 DEF Store!Request, Pending
<1> QED
  BY <1>2, <1>6 DEF Store!Next, Store!Asked

LEMMA SavePasswordStep ==
  ASSUME StoreInv, ViewOK, ViewOK', NEW c \in Clients, NEW s \in Services,
         NEW cred \in Creds, SavePassword(c, s, cred)
  PROVE  Store!Next
<1> DEFINE asked == [t \in Services |-> IF t = s THEN cred ELSE None]
           writes(i) == [t \in Services |-> IF t = s THEN Prepare(c, s, cred, i) ELSE None]
<1>1. PICK i \in FetchRow(session[c].user, s) : Begin(c, asked, writes(i), TRUE)
  BY DEF SavePassword
<1>2. Ready(c) /\ draws < MaxDraws /\ UNCHANGED entries
  BY DEF SavePassword, Draw
<1>3. Prepare(c, s, cred, i) \in Write
  BY <1>2, PrepareOK DEF StoreInv, ExclusiveInv
<1>4. writes(i) \in [Services -> Write \cup {None}]
  BY <1>3
<1>5. asked \in [Services -> Creds \cup BadCreds \cup {Deleted, None}]
  OBVIOUS
<1>6. \A t \in Services : asked[t] # Deleted
  BY CredsAssumption
<1> HIDE DEF asked, writes
<1> QED
  BY <1>1, <1>2, <1>4, <1>5, <1>6, BeginStep

LEMMA SavePasswordsStep ==
  ASSUME StoreInv, ViewOK, ViewOK', NEW c \in Clients, NEW batch \in Batches,
         SavePasswords(c, batch)
  PROVE  Store!Next
<1> DEFINE key == session[c].dek
           u == session[c].user
           Skip(s, i) == \/ batch[s] \notin Creds
                         \/ i # None /\ IsUnchanged(entries[i], batch[s], key)
           Fine(s, i) == /\ batch[s] \notin BadCreds
                         /\ i # None /\ batch[s] # None
                              => Compares(entries[i], batch[s], key)
           writes(f) == [s \in Services |-> IF Skip(s, f[s]) THEN None
                                            ELSE Prepare(c, s, batch[s], f[s])]
           Ok(f) == \A s \in Services : Fine(s, f[s])
<1>1. PICK f \in ByService(u) : Begin(c, batch, writes(f), Ok(f))
  BY DEF SavePasswords
<1>2. Ready(c) /\ draws < MaxDraws /\ UNCHANGED entries
  BY DEF SavePasswords, Draw
<1>3. ASSUME NEW s \in Services, ~Skip(s, f[s])
      PROVE  Prepare(c, s, batch[s], f[s]) \in Write
  <2>1. batch[s] \in Creds /\ f[s] \in FetchRow(u, s)
    BY <1>3, ByServiceType
  <2> QED
    BY <1>2, <2>1, PrepareOK DEF StoreInv, ExclusiveInv
<1>4. writes(f) \in [Services -> Write \cup {None}]
  BY <1>3
<1>5. Ok(f) \in BOOLEAN
  OBVIOUS
<1>6. batch \in [Services -> Creds \cup BadCreds \cup {None}]
  BY DEF Batches
<1>7. /\ batch \in [Services -> Creds \cup BadCreds \cup {Deleted, None}]
      /\ \A s \in Services : batch[s] # Deleted
  BY <1>6, CredsAssumption
<1> HIDE DEF writes, Ok
<1> QED
  BY <1>1, <1>2, <1>4, <1>5, <1>7, BeginStep

LEMMA DeletePasswordStep ==
  ASSUME ~RestoreAny, StoreInv, ViewOK, ViewOK', NEW c \in Clients, NEW s \in Services,
         DeletePassword(c, s)
  PROVE  Store!Next
<1> DEFINE asked == [t \in Services |-> IF t = s THEN Deleted ELSE None]
           W(i) == [id |-> i, row |-> [entries[i] EXCEPT !.live = FALSE],
                    dirty |-> {"live"}]
           writes(i) == [t \in Services |-> IF t = s THEN W(i) ELSE None]
<1>1. PICK i \in Matching(session[c].user, s) : Begin(c, asked, writes(i), TRUE)
  BY DEF DeletePassword
<1>2. Ready(c) /\ UNCHANGED entries
  BY DEF DeletePassword
<1>3. W(i) \in Write
  BY <1>2, DeletionOK DEF StoreInv, ExclusiveInv
<1> HIDE DEF W
<1>4. writes(i) \in [Services -> Write \cup {None}]
  BY <1>3
<1>5. asked \in [Services -> Creds \cup BadCreds \cup {Deleted, None}]
  OBVIOUS
<1>6. session[c].user \in Users
  BY <1>2 DEF Ready, StoreInv, ExclusiveInv, IInv, TypeOK, SessionsOK, Session
<1>7. \A t \in Services : asked[t] = Deleted =>
        \E j \in Matching(session[c].user, t) : Plain(entries[j]) # None
  BY <1>6, PlainReveal, CredsAssumption DEF StoreInv, ExclusiveInv
<1> HIDE DEF asked, writes
<1> QED
  BY <1>1, <1>2, <1>4, <1>5, <1>7, BeginStep

\* A commit performs the whole request.
LEMMA CommitStep ==
  ASSUME StoreInv, ViewOK, ViewOK', NEW c \in Clients, Commit(c)
  PROVE  Store!Next
<1> DEFINE store == [u \in Users |-> View(u)]
           t == txn[c]
<1>1. /\ t # None /\ t \in Txn /\ t.user \in Users
      /\ txn' = [txn EXCEPT ![c] = None]
  BY DEF Commit, StoreInv, ExclusiveInv, IInv, TypeOK, Txn
<1>2. Pending[c] # None /\ Pending[c].user = t.user /\ Pending[c].asked = t.asked
  BY <1>1, PendingIsARequest
<1>3. Pending' = [Pending EXCEPT ![c] = None]
  BY <1>1 DEF Pending, StoreInv, ExclusiveInv, IInv, TypeOK
<1>4. \A s \in Services : t.asked[s] \notin BadCreds
  BY <1>1, CommitView
<1>5. ASSUME NEW u \in Users
      PROVE  View(u)' = IF u # t.user THEN View(u)
                        ELSE [s \in Services |->
                                IF t.asked[s] = None THEN View(u)[s]
                                ELSE IF t.asked[s] = Deleted THEN None
                                ELSE t.asked[s]]
  <2>1. /\ View(u) = [s \in Services |-> View(u)[s]]
        /\ View(u)' = [s \in Services |-> View(u)'[s]]
    BY DEF ViewOK
  <2>2. CASE u # t.user
    <3>1. \A s \in Services : View(u)'[s] = View(u)[s]
      BY <2>2, CommitView
    <3> QED
      BY <2>1, <2>2, <3>1
  <2>3. CASE u = t.user
    <3>1. \A s \in Services :
            View(u)'[s] = IF t.asked[s] = None THEN View(u)[s]
                         ELSE IF t.asked[s] = Deleted THEN None ELSE t.asked[s]
      BY <2>3, CommitView
    <3> QED
      BY <2>1, <2>3, <3>1
  <2> QED
    BY <2>2, <2>3
<1>6. store' = [store EXCEPT ![t.user] =
                  [s \in Services |->
                     IF t.asked[s] = None THEN @[s]
                     ELSE IF t.asked[s] = Deleted THEN None ELSE t.asked[s]]]
  BY <1>1, <1>5
<1>7. Store!Perform(c)
  BY <1>2, <1>3, <1>4, <1>6 DEF Store!Perform, Pending
<1> QED
  BY <1>7 DEF Store!Next

\* Deleting the account erases what it stores.
LEMMA DeleteUserStep ==
  ASSUME ViewOK, ViewOK', StoreInv, NEW c \in Clients, DeleteUser(c)
  PROVE  Store!Next
<1> DEFINE store == [u \in Users |-> View(u)]
           v == session[c].user
<1>1. v \in Users /\ UNCHANGED txn
  BY DEF DeleteUser, StoreInv, ExclusiveInv, IInv, TypeOK, ErasingOK, Session
<1>2. ASSUME NEW i \in Ids
      PROVE  IF i \in LiveRows(v)
               THEN entries'[i] # None /\ ~entries'[i].live /\ entries'[i].user = v
               ELSE entries'[i] = entries[i]
  <2>1. CASE i \in LiveRows(v)
    <3>1. entries[i] \in Row /\ entries[i].user = v
          /\ entries'[i] = [entries[i] EXCEPT !.live = FALSE]
      BY <2>1 DEF DeleteUser, LiveRows, StoreInv, ExclusiveInv, IInv, TypeOK
    <3>2. entries'[i] \in Row /\ ~entries'[i].live /\ entries'[i].user = v
      BY <3>1 DEF Row
    <3> QED
      BY <2>1, <3>2, NoneAssumption
  <2>2. CASE i \notin LiveRows(v)
    BY <2>2 DEF DeleteUser
  <2> QED
    BY <2>1, <2>2
<1>3. ASSUME NEW u \in Users
      PROVE  View(u)' = IF u = v THEN [s \in Services |-> None] ELSE View(u)
  <2>1. /\ View(u) = [s \in Services |-> View(u)[s]]
        /\ View(u)' = [s \in Services |-> View(u)'[s]]
    BY DEF ViewOK
  <2>2. CASE u = v
    <3>1. \A s \in Services : Matching(u, s)' = {}
      BY <1>2, <2>2 DEF Matching, LiveRows
    <3>2. \A s \in Services : View(u)'[s] = None
      BY <3>1 DEF ViewOK
    <3> QED
      BY <2>1, <2>2, <3>2
  <2>3. CASE u # v
    <3>1. ASSUME NEW s \in Services
          PROVE  /\ Matching(u, s)' = Matching(u, s)
                 /\ \A i \in Matching(u, s) : entries'[i] = entries[i]
      BY <1>2, <2>3 DEF Matching, LiveRows
    <3>2. \A s \in Services : View(u)'[s] = View(u)[s]
      BY <3>1, SameView
    <3> QED
      BY <2>1, <2>3, <3>2
  <2> QED
    BY <2>2, <2>3
<1>4. store' = [store EXCEPT ![v] = [s \in Services |-> None]]
  BY <1>1, <1>3
<1>5. UNCHANGED Pending
  BY <1>1 DEF Pending
<1>6. Store!Erase(v)
  BY <1>4, <1>5 DEF Store!Erase, Pending
<1> QED
  BY <1>1, <1>6 DEF Store!Next

LEMMA StoreStep ==
  ASSUME ~RestoreAny, StoreInv, ViewOK, ViewOK', [Next]_vars
  PROVE  [Store!Next]_(Store!vars)
<1>1. ASSUME NEW c \in Clients, NEW u \in Users, NEW dek \in Users,
             Login(c, u) \/ RestoreSession(c, u, dek)
      PROVE  [Store!Next]_(Store!vars)
  BY <1>1, QuietStep DEF Login, RestoreSession
<1>2. ASSUME NEW c \in Clients, Logout(c) \/ Rollback(c) \/ Crash(c) \/ FindUser(c)
      PROVE  [Store!Next]_(Store!vars)
  BY <1>2, QuietStep DEF Logout, Rollback, Crash, FindUser
<1>3. CASE UNCHANGED vars
  <2>1. UNCHANGED [u \in Users |-> View(u)] /\ UNCHANGED Pending
    BY <1>3, SameStore DEF vars, Pending
  <2> QED
    BY <2>1 DEF Store!vars, Pending
<1> QED
  BY <1>1, <1>2, <1>3, SavePasswordStep, SavePasswordsStep, DeletePasswordStep,
     CommitStep, DeleteUserStep DEF Next

LEMMA StoreInit == ASSUME Init, ViewOK PROVE Store!Init
<1>1. ASSUME NEW u \in Users
      PROVE  View(u) = [s \in Services |-> None]
  <2>1. \A s \in Services : Matching(u, s) = {}
    BY DEF Init, Matching, LiveRows
  <2> QED
    BY <2>1 DEF ViewOK
<1>2. Pending = [c \in Clients |-> None]
  BY DEF Init, Pending
<1> QED
  BY <1>1, <1>2 DEF Store!Init, Pending

\* While no two clients hold sessions of one account and every session is
\* restored with its own DEK, every step of the vault is a step of
\* CredentialStore or a stutter: a save of many services, its skipped entries
\* and its single-column updates are one atomic change of what the account
\* stores, and a rollback or crash is none.
THEOREM VaultImplementsStore ==
  ASSUME ~SharedAccounts, ~RestoreAny PROVE Spec => ImplementsStore
<1>1. StoreInv => ViewOK
  BY ViewNow DEF StoreInv
<1>2. StoreInv /\ [Next]_vars => StoreInv'
  BY NextStoreInv
<1>3. Init => StoreInv
  BY InitStoreInv
<1>4. Init /\ ViewOK => Store!Init
  BY StoreInit
<1>5. StoreInv /\ ViewOK /\ ViewOK' /\ [Next]_vars => [Store!Next]_(Store!vars)
  BY StoreStep
<1> QED
  BY <1>1, <1>2, <1>3, <1>4, <1>5, PTL DEF Spec, ImplementsStore, Store!Spec

=============================================================================
