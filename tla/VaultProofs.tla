---------------------------- MODULE VaultProofs ----------------------------
(***************************************************************************)
(* Theorems about Vault, for any number of clients, accounts, services,    *)
(* credentials and draws.                                                  *)
(***************************************************************************)
EXTENDS Vault, FiniteSetTheorems, TLAPS

----------------------------------------------------------------------------
(* The inductive invariant.                                                 *)
(*                                                                          *)
(* What a commit does depends on changed objects prepared earlier, while    *)
(* other clients commit in between; so the invariant says of every changed  *)
(* object what stays true of it and of its row until it is committed.       *)

\* A ciphertext goes with the nonce beside it and, unless restore_session may
\* be given a foreign DEK, with the key of the row's account.
Sealed(row) ==
  /\ row.password.nonce = row.nonce
  /\ RestoreAny \/ row.password.key = row.user

Inserts(w) == entries[w.id] = None /\ w.dirty = Columns /\ w.row.live

Updates(w) ==
  /\ entries[w.id] # None
  /\ {"password", "nonce"} \subseteq w.dirty
  /\ "live" \notin w.dirty

Deletes(w) == entries[w.id] # None /\ w.dirty = {"live"} /\ ~w.row.live

\* A changed object of client c: it belongs to its service and its account,
\* is sealed, and is an insertion, an update or a deletion.
WriteOK(w, s, u) ==
  /\ w.id[2] = s
  /\ w.row.user = u
  /\ Sealed(w.row)
  /\ entries[w.id] # None => entries[w.id].user = u
  /\ Inserts(w) \/ Updates(w) \/ Deletes(w)

SessionsOK == \A c \in Clients :
  /\ session[c].user = None <=> session[c].dek = None
  /\ RestoreAny \/ session[c].dek = session[c].user

\* A client that deletes its account does nothing else.
ErasingOK == \A c \in erasing : session[c].user # None /\ txn[c] = None

RowsOK == \A i \in Ids : entries[i] # None => Sealed(entries[i])

WritesOK == \A c \in Clients, s \in Services :
  txn[c] # None /\ txn[c].writes[s] # None
    => WriteOK(txn[c].writes[s], s, txn[c].user)

\* Ids and nonces in use were drawn; two clients never insert one id.
DrawnOK ==
  /\ \A i \in Ids : entries[i] # None => i[1] <= draws /\ entries[i].nonce[1] <= draws
  /\ \A c \in Clients, s \in Services :
       txn[c] # None /\ txn[c].writes[s] # None
         => /\ txn[c].writes[s].id[1] <= draws
            /\ txn[c].writes[s].row.nonce[1] <= draws

InsertsApart == \A c, d \in Clients, s \in Services :
  (/\ c # d
   /\ txn[c] # None /\ txn[c].writes[s] # None
   /\ txn[d] # None /\ txn[d].writes[s] # None
   /\ entries[txn[c].writes[s].id] = None)
    => txn[c].writes[s].id # txn[d].writes[s].id

IInv == TypeOK /\ SessionsOK /\ ErasingOK /\ RowsOK /\ WritesOK /\ DrawnOK /\ InsertsApart

\* While no two clients share an account: a client under way still has the
\* session it began with, no other client has one of that account, and what
\* it found is what is there.
Alone == \A c, d \in Clients :
  c # d /\ session[c].user # None => session[c].user # session[d].user

SessionHeld == \A c \in Clients : txn[c] # None => session[c].user = txn[c].user

AtMostOne == \A u \in Users, s \in Services :
  \A i, j \in Matching(u, s) : i = j

FoundStands == \A c \in Clients, s \in Services :
  txn[c] # None /\ txn[c].writes[s] # None
    => Matching(txn[c].user, s) \subseteq {txn[c].writes[s].id}

ExclusiveInv == IInv /\ Alone /\ SessionHeld /\ AtMostOne /\ FoundStands

----------------------------------------------------------------------------
(* Typing *)

LEMMA PrepareType ==
  ASSUME TypeOK, NEW c \in Clients, NEW s \in Services, NEW cred \in Creds,
         session[c].user \in Users, session[c].dek \in Users,
         draws < MaxDraws,
         NEW i \in Ids \cup {None}, i # None => entries[i] # None
  PROVE  Prepare(c, s, cred, i) \in Write
<1> DEFINE nonce == <<draws + 1, s>>
<1>1. nonce \in Ids
  BY BoundAssumption DEF Ids, TypeOK
<1>2. cred.login \in Logins /\ cred.password \in Passwords
  BY DEF Logins, Passwords
<1>3. Encrypt(cred.password, session[c].dek, nonce) \in Ciphertext
  BY <1>1, <1>2 DEF Encrypt, Ciphertext
<1>4. CASE i = None
  BY <1>1, <1>2, <1>3, <1>4 DEF Prepare, NewPassword, Write, Row
<1>5. CASE i # None
  <2>1. entries[i] \in Row
    BY <1>5 DEF TypeOK
  <2>2. UpdatePassword(entries[i], cred, session[c].dek, nonce) \in Row
    BY <2>1, <1>1, <1>2, <1>3 DEF UpdatePassword, Row
  <2>3. Dirty(entries[i], UpdatePassword(entries[i], cred, session[c].dek, nonce))
          \in SUBSET Columns
    BY DEF Dirty
  <2> QED
    BY <1>5, <2>2, <2>3 DEF Prepare, Write
<1> QED
  BY <1>4, <1>5

LEMMA FlushType ==
  ASSUME NEW row \in Row \cup {None}, NEW w \in Write
  PROVE  Flush(row, w) \in Row
BY DEF Flush, Row, Write

LEMMA FetchRowType ==
  ASSUME NEW u, NEW s, NEW i \in FetchRow(u, s)
  PROVE  /\ i \in Ids \cup {None}
         /\ i # None => i \in Matching(u, s)
BY DEF FetchRow, Matching, LiveRows

LEMMA MatchingRow ==
  ASSUME TypeOK, NEW u, NEW s, NEW i \in Matching(u, s)
  PROVE  /\ i \in Ids /\ i[2] = s
         /\ entries[i] \in Row
         /\ entries[i].user = u
         /\ entries[i].live
BY DEF Matching, LiveRows, TypeOK

LEMMA IdsParts ==
  ASSUME NEW i \in Ids
  PROVE  i[1] \in Nat /\ i[2] \in Services /\ i = <<i[1], i[2]>>
BY BoundAssumption DEF Ids

LEMMA ByServiceType ==
  ASSUME NEW u, NEW f \in ByService(u), NEW s \in Services
  PROVE  f[s] \in FetchRow(u, s)
BY DEF ByService

----------------------------------------------------------------------------
(* The three kinds of changed objects *)

\* The drawn nonce is in no row yet, so an update always writes ciphertext
\* and nonce, and an insertion always uses a new id.
LEMMA PrepareOK ==
  ASSUME IInv, NEW c \in Clients, NEW s \in Services, NEW cred \in Creds,
         Ready(c), draws < MaxDraws,
         NEW i \in FetchRow(session[c].user, s)
  PROVE  LET w == Prepare(c, s, cred, i)
         IN  /\ w \in Write
             /\ WriteOK(w, s, session[c].user)
             /\ w.id[1] <= draws + 1 /\ w.row.nonce[1] <= draws + 1
             /\ entries[w.id] = None => w.id[1] = draws + 1
<1> DEFINE nonce == <<draws + 1, s>>
           u == session[c].user
           w == Prepare(c, s, cred, i)
<1>1. u \in Users /\ session[c].dek \in Users /\ (RestoreAny \/ session[c].dek = u)
  BY DEF IInv, TypeOK, SessionsOK, Session, Ready
<1>2. /\ i \in Ids \cup {None}
      /\ i # None => i[2] = s /\ entries[i] \in Row /\ entries[i].user = u
  BY FetchRowType, MatchingRow DEF IInv
<1>3. i # None => entries[i] # None
  BY <1>2, NoneAssumption
<1>4. w \in Write
  BY <1>1, <1>2, <1>3, PrepareType DEF IInv
<1>5. nonce \in Ids /\ nonce[1] = draws + 1 /\ nonce[2] = s /\ draws \in Nat
  BY BoundAssumption DEF Ids, TypeOK, IInv
<1>6. CASE i = None
  <2>1. w = [id |-> nonce,
             row |-> NewPassword(u, s, cred, session[c].dek, nonce),
             dirty |-> Columns]
    BY <1>6 DEF Prepare
  <2>2. entries[nonce] = None
    BY <1>5 DEF IInv, DrawnOK
  <2>3. Inserts(w)
    BY <2>1, <2>2 DEF Inserts, NewPassword
  <2>4. Sealed(w.row) /\ w.row.user = u /\ w.row.nonce = nonce
    BY <1>1, <2>1 DEF Sealed, NewPassword, Encrypt
  <2> QED
    BY <1>4, <1>5, <2>1, <2>2, <2>3, <2>4 DEF WriteOK
<1>7. CASE i # None
  <2> DEFINE row == UpdatePassword(entries[i], cred, session[c].dek, nonce)
  <2>1. w.id = i /\ w.row = row /\ w.dirty = Dirty(entries[i], row)
    BY <1>7 DEF Prepare
  <2>2. /\ row.user = u /\ row.live = entries[i].live /\ row.nonce = nonce
        /\ row.password = Encrypt(cred.password, session[c].dek, nonce)
    BY <1>2, <1>7 DEF UpdatePassword, Row
  <2>3. entries[i].nonce # nonce /\ entries[i].nonce[1] \in Nat /\ i[1] <= draws
    BY <1>2, <1>3, <1>5, <1>7, IdsParts DEF IInv, DrawnOK, Row
  <2>4. entries[i].password # row.password
    <3>1. entries[i].password.nonce = entries[i].nonce
      BY <1>2, <1>3, <1>7 DEF IInv, RowsOK, Sealed
    <3>2. row.password.nonce = nonce
      BY <2>2 DEF Encrypt
    <3> QED
      BY <2>3, <3>1, <3>2
  <2>5. "password" \in w.dirty /\ "nonce" \in w.dirty /\ "live" \notin w.dirty
    BY <2>1, <2>2, <2>3, <2>4 DEF Dirty, Columns
  <2>6. Updates(w)
    BY <1>3, <1>7, <2>1, <2>5 DEF Updates
  <2>7. Sealed(w.row)
    BY <1>1, <2>1, <2>2 DEF Sealed, Encrypt
  <2> QED
    BY <1>2, <1>3, <1>4, <1>5, <1>7, <2>1, <2>2, <2>3, <2>6, <2>7, IdsParts DEF WriteOK
<1> QED
  BY <1>6, <1>7

LEMMA DeletionOK ==
  ASSUME IInv, NEW c \in Clients, NEW s \in Services,
         NEW i \in Matching(session[c].user, s)
  PROVE  LET w == [id |-> i, row |-> [entries[i] EXCEPT !.live = FALSE],
                   dirty |-> {"live"}]
         IN  /\ w \in Write
             /\ WriteOK(w, s, session[c].user)
             /\ w.id[1] <= draws /\ w.row.nonce[1] <= draws
             /\ entries[w.id] # None
<1> DEFINE row == [entries[i] EXCEPT !.live = FALSE]
           w == [id |-> i, row |-> row, dirty |-> {"live"}]
<1>1. /\ i \in Ids /\ i[2] = s /\ entries[i] \in Row /\ entries[i] # None
      /\ entries[i].user = session[c].user
  BY MatchingRow, NoneAssumption DEF IInv
<1>2. /\ row \in Row /\ row.user = session[c].user /\ ~row.live
      /\ row.password = entries[i].password /\ row.nonce = entries[i].nonce
  BY <1>1 DEF Row
<1>3. w \in Write
  BY <1>1, <1>2 DEF Write, Columns
<1>4. Sealed(row)
  BY <1>1, <1>2 DEF IInv, RowsOK, Sealed
<1>5. Deletes(w)
  BY <1>1, <1>2 DEF Deletes
<1>6. i[1] <= draws /\ row.nonce[1] <= draws
  BY <1>1, <1>2 DEF IInv, DrawnOK
<1> QED
  BY <1>1, <1>2, <1>3, <1>4, <1>5, <1>6 DEF WriteOK

----------------------------------------------------------------------------
(* The steps that begin an operation *)

LEMMA BeginPreserves ==
  ASSUME IInv, NEW c \in Clients, Ready(c),
         NEW asked \in [Services -> Creds \cup BadCreds \cup {Deleted, None}],
         NEW writes \in [Services -> Write \cup {None}],
         NEW ok \in BOOLEAN,
         Begin(c, asked, writes, ok),
         UNCHANGED <<entries, session, gone, erasing>>,
         draws' \in 0 .. MaxDraws, draws <= draws',
         \A s \in Services : writes[s] # None =>
           /\ WriteOK(writes[s], s, session[c].user)
           /\ writes[s].id[1] <= draws' /\ writes[s].row.nonce[1] <= draws'
           /\ entries[writes[s].id] = None => writes[s].id[1] > draws
  PROVE  IInv'
<1> DEFINE t == [user |-> session[c].user, asked |-> asked,
                 writes |-> writes, ok |-> ok]
<1>1. t \in Txn
  BY DEF IInv, TypeOK, SessionsOK, Session, Ready, Txn
<1>2. /\ txn'[c] = t
      /\ \A d \in Clients \ {c} : txn'[d] = txn[d]
  BY DEF Begin, IInv, TypeOK
<1>3. TypeOK'
  BY <1>1 DEF IInv, TypeOK, Begin
<1>4. SessionsOK' /\ ErasingOK' /\ RowsOK'
  BY <1>2 DEF IInv, TypeOK, SessionsOK, ErasingOK, RowsOK, Sealed, Ready, Idle
<1>5. WritesOK'
  <2> SUFFICES ASSUME NEW d \in Clients, NEW s \in Services,
                      txn'[d] # None, txn'[d].writes[s] # None
               PROVE  WriteOK(txn[d].writes[s], s, txn[d].user)'
    BY DEF WritesOK
  <2>1. WriteOK(txn'[d].writes[s], s, txn'[d].user)
    BY <1>2 DEF IInv, WritesOK
  <2> QED
    BY <2>1 DEF WriteOK, Inserts, Updates, Deletes, Sealed
<1>6. draws \in Nat /\ draws' \in Nat
  BY BoundAssumption DEF IInv, TypeOK
<1>7. DrawnOK'
  <2>1. \A i \in Ids : entries'[i] # None => i[1] <= draws' /\ entries'[i].nonce[1] <= draws'
    <3> SUFFICES ASSUME NEW i \in Ids, entries[i] # None
                 PROVE  i[1] <= draws' /\ entries[i].nonce[1] <= draws'
      OBVIOUS
    <3>1. i[1] <= draws /\ entries[i].nonce[1] <= draws
      BY DEF IInv, DrawnOK
    <3>2. i[1] \in Nat /\ entries[i].nonce[1] \in Nat
      BY IdsParts DEF IInv, TypeOK, Row
    <3> QED
      BY <1>6, <3>1, <3>2
  <2>2. ASSUME NEW d \in Clients, NEW s \in Services,
               txn'[d] # None, txn'[d].writes[s] # None
        PROVE  /\ txn'[d].writes[s].id[1] <= draws'
               /\ txn'[d].writes[s].row.nonce[1] <= draws'
    <3>1. CASE d = c
      BY <1>2, <2>2, <3>1
    <3>2. CASE d # c
      <4>1. /\ txn'[d] = txn[d]
            /\ txn[d].writes[s].id[1] <= draws
            /\ txn[d].writes[s].row.nonce[1] <= draws
        BY <1>2, <2>2, <3>2 DEF IInv, DrawnOK
      <4>2. txn[d].writes[s] \in Write
        BY <2>2, <4>1 DEF IInv, TypeOK, Txn
      <4>3. txn[d].writes[s].id[1] \in Nat /\ txn[d].writes[s].row.nonce[1] \in Nat
        BY <4>2, IdsParts DEF Write, Row
      <4> QED
        BY <1>6, <4>1, <4>3
    <3> QED
      BY <3>1, <3>2
  <2> QED
    BY <2>1, <2>2 DEF DrawnOK
<1>8. InsertsApart'
  <2> SUFFICES ASSUME NEW d \in Clients, NEW e \in Clients, NEW s \in Services,
                      d # e,
                      txn'[d] # None, txn'[d].writes[s] # None,
                      txn'[e] # None, txn'[e].writes[s] # None,
                      entries[txn'[d].writes[s].id] = None
               PROVE  txn'[d].writes[s].id # txn'[e].writes[s].id
    BY DEF InsertsApart
  <2>1. CASE d # c /\ e # c
    BY <2>1, <1>2 DEF IInv, InsertsApart
  <2>2. CASE d = c
    <3>1. txn'[d].writes[s].id[1] > draws /\ txn[e].writes[s].id[1] <= draws
      BY <2>2, <1>2 DEF IInv, DrawnOK
    <3>2. txn[e].writes[s].id[1] \in Nat
      BY <2>2, <1>2, IdsParts DEF IInv, TypeOK, Txn, Write
    <3> QED
      BY <1>2, <1>6, <2>2, <3>1, <3>2
  <2>3. CASE e = c
    <3>1. txn'[d] = txn[d] /\ txn[d].writes[s].id[1] <= draws
      BY <2>3, <1>2 DEF IInv, DrawnOK
    <3>2. txn[d].writes[s].id[1] \in Nat
      BY <3>1, IdsParts DEF IInv, TypeOK, Txn, Write
    <3>3. SUFFICES ASSUME txn'[d].writes[s].id = txn'[e].writes[s].id
                   PROVE  FALSE
      OBVIOUS
    <3>4. txn'[e].writes[s].id[1] > draws
      BY <1>2, <2>3, <3>3
    <3> QED
      BY <1>6, <3>1, <3>2, <3>3, <3>4
  <2> QED
    BY <2>1, <2>2, <2>3
<1> QED
  BY <1>3, <1>4, <1>5, <1>7, <1>8 DEF IInv

LEMMA SavePasswordPreserves ==
  ASSUME IInv, NEW c \in Clients, NEW s \in Services, NEW cred \in Creds,
         SavePassword(c, s, cred)
  PROVE  IInv'
<1> DEFINE Writes(i) == [t \in Services |-> IF t = s THEN Prepare(c, s, cred, i) ELSE None]
<1>1. PICK i \in FetchRow(session[c].user, s) :
        Begin(c, [t \in Services |-> IF t = s THEN cred ELSE None], Writes(i), TRUE)
  BY DEF SavePassword
<1>2. draws \in Nat /\ draws < MaxDraws /\ draws' = draws + 1 /\ draws' \in 0 .. MaxDraws
  BY BoundAssumption DEF SavePassword, Draw, IInv, TypeOK
<1>3. Ready(c) /\ UNCHANGED <<entries, session, gone, erasing>>
  BY DEF SavePassword
<1>4. LET w == Prepare(c, s, cred, i)
      IN  /\ w \in Write
          /\ WriteOK(w, s, session[c].user)
          /\ w.id[1] <= draws + 1 /\ w.row.nonce[1] <= draws + 1
          /\ entries[w.id] = None => w.id[1] = draws + 1
  BY <1>2, <1>3, PrepareOK
<1>5. Writes(i) \in [Services -> Write \cup {None}]
  BY <1>4
<1>6. [t \in Services |-> IF t = s THEN cred ELSE None]
        \in [Services -> Creds \cup BadCreds \cup {Deleted, None}]
  OBVIOUS
<1>7. \A t \in Services : Writes(i)[t] # None =>
        /\ WriteOK(Writes(i)[t], t, session[c].user)
        /\ Writes(i)[t].id[1] <= draws' /\ Writes(i)[t].row.nonce[1] <= draws'
        /\ entries[Writes(i)[t].id] = None => Writes(i)[t].id[1] > draws
  BY <1>2, <1>4
<1>8. draws <= draws'
  BY <1>2
<1> HIDE DEF Writes
<1> QED
  BY <1>1, <1>2, <1>3, <1>5, <1>6, <1>7, <1>8, BeginPreserves

LEMMA SavePasswordsPreserves ==
  ASSUME IInv, NEW c \in Clients, NEW batch \in Batches, SavePasswords(c, batch)
  PROVE  IInv'
<1> DEFINE key == session[c].dek
           Skip(s, i) == \/ batch[s] \notin Creds
                         \/ i # None /\ IsUnchanged(entries[i], batch[s], key)
           Fine(s, i) == /\ batch[s] \notin BadCreds
                         /\ i # None /\ batch[s] # None
                              => Compares(entries[i], batch[s], key)
           Writes(f) == [s \in Services |-> IF Skip(s, f[s]) THEN None
                                            ELSE Prepare(c, s, batch[s], f[s])]
           Ok(f) == \A s \in Services : Fine(s, f[s])
<1>1. PICK existing \in ByService(session[c].user) :
        Begin(c, batch, Writes(existing), Ok(existing))
  BY DEF SavePasswords
<1>2. draws \in Nat /\ draws < MaxDraws /\ draws' = draws + 1 /\ draws' \in 0 .. MaxDraws
  BY BoundAssumption DEF SavePasswords, Draw, IInv, TypeOK
<1>3. Ready(c) /\ UNCHANGED <<entries, session, gone, erasing>>
  BY DEF SavePasswords
<1>4. ASSUME NEW s \in Services, ~Skip(s, existing[s])
      PROVE  LET w == Prepare(c, s, batch[s], existing[s])
             IN  /\ w \in Write
                 /\ WriteOK(w, s, session[c].user)
                 /\ w.id[1] <= draws + 1 /\ w.row.nonce[1] <= draws + 1
                 /\ entries[w.id] = None => w.id[1] = draws + 1
  <2>1. batch[s] \in Creds /\ existing[s] \in FetchRow(session[c].user, s)
    BY <1>4, ByServiceType
  <2> QED
    BY <2>1, <1>2, <1>3, PrepareOK
<1>5. Writes(existing) \in [Services -> Write \cup {None}]
  BY <1>4
<1>6. batch \in [Services -> Creds \cup BadCreds \cup {Deleted, None}]
  BY DEF Batches
<1>7. \A s \in Services : Writes(existing)[s] # None =>
        /\ WriteOK(Writes(existing)[s], s, session[c].user)
        /\ Writes(existing)[s].id[1] <= draws'
        /\ Writes(existing)[s].row.nonce[1] <= draws'
        /\ entries[Writes(existing)[s].id] = None => Writes(existing)[s].id[1] > draws
  <2> SUFFICES ASSUME NEW s \in Services, Writes(existing)[s] # None
               PROVE  LET w == Writes(existing)[s]
                      IN  /\ WriteOK(w, s, session[c].user)
                          /\ w.id[1] <= draws' /\ w.row.nonce[1] <= draws'
                          /\ entries[w.id] = None => w.id[1] > draws
    OBVIOUS
  <2>1. ~Skip(s, existing[s]) /\ Writes(existing)[s] = Prepare(c, s, batch[s], existing[s])
    OBVIOUS
  <2> QED
    BY <1>2, <1>4, <2>1
<1>8. Ok(existing) \in BOOLEAN
  OBVIOUS
<1> HIDE DEF Writes, Ok
<1> QED
  BY <1>1, <1>2, <1>3, <1>5, <1>6, <1>7, <1>8, BeginPreserves

LEMMA DeletePasswordPreserves ==
  ASSUME IInv, NEW c \in Clients, NEW s \in Services, DeletePassword(c, s)
  PROVE  IInv'
<1> DEFINE W(i) == [id |-> i, row |-> [entries[i] EXCEPT !.live = FALSE],
                    dirty |-> {"live"}]
           writes(i) == [t \in Services |-> IF t = s THEN W(i) ELSE None]
<1>1. PICK i \in Matching(session[c].user, s) :
        Begin(c, [t \in Services |-> IF t = s THEN Deleted ELSE None], writes(i), TRUE)
  BY DEF DeletePassword
<1>2. Ready(c) /\ UNCHANGED <<entries, session, draws, gone, erasing>>
  BY DEF DeletePassword
<1>3. /\ W(i) \in Write
      /\ WriteOK(W(i), s, session[c].user)
      /\ W(i).id[1] <= draws /\ W(i).row.nonce[1] <= draws
      /\ entries[W(i).id] # None
  BY DeletionOK
<1> HIDE DEF W
<1>4. writes(i) \in [Services -> Write \cup {None}]
  BY <1>3
<1>5. [t \in Services |-> IF t = s THEN Deleted ELSE None]
        \in [Services -> Creds \cup BadCreds \cup {Deleted, None}]
  OBVIOUS
<1>6. draws' \in 0 .. MaxDraws /\ draws <= draws'
  BY <1>2, BoundAssumption DEF IInv, TypeOK
<1>7. \A t \in Services : writes(i)[t] # None =>
        /\ WriteOK(writes(i)[t], t, session[c].user)
        /\ writes(i)[t].id[1] <= draws' /\ writes(i)[t].row.nonce[1] <= draws'
        /\ entries[writes(i)[t].id] = None => writes(i)[t].id[1] > draws
  BY <1>2, <1>3
<1> HIDE DEF writes
<1> QED
  BY <1>1, <1>2, <1>4, <1>5, <1>6, <1>7, BeginPreserves

----------------------------------------------------------------------------
(* The steps that end an operation, and those of sessions and accounts *)

LEMMA DropPreserves ==
  ASSUME IInv, UNCHANGED <<entries, draws, gone>>,
         session' \in [Clients -> Session], erasing' \subseteq Clients,
         SessionsOK', ErasingOK',
         txn' \in [Clients -> Txn \cup {None}],
         \A c \in Clients : txn'[c] = txn[c] \/ txn'[c] = None
  PROVE  IInv'
<1>1. TypeOK' /\ RowsOK'
  BY DEF IInv, TypeOK, RowsOK, Sealed
<1>2. WritesOK'
  BY DEF IInv, WritesOK, WriteOK, Inserts, Updates, Deletes, Sealed
<1>3. DrawnOK' /\ InsertsApart'
  BY DEF IInv, DrawnOK, InsertsApart
<1> QED
  BY <1>1, <1>2, <1>3 DEF IInv

\* What a commit makes of a row that some client's changed object is of.
LEMMA CommittedRow ==
  ASSUME IInv, NEW c \in Clients, Commit(c), NEW i \in Ids
  PROVE  LET w == txn[c].writes[i[2]]
         IN  \/ entries'[i] = entries[i] /\ (w = None \/ w.id # i)
             \/ /\ w # None /\ w.id = i /\ w \in Write
                /\ entries'[i] = Flush(entries[i], w)
                /\ entries'[i] \in Row /\ entries'[i] # None
                /\ entries'[i].user = txn[c].user
                /\ Sealed(entries'[i])
                /\ entries[i] # None /\ ~entries[i].live => ~entries'[i].live
                /\ entries'[i].nonce = w.row.nonce \/ entries'[i].nonce = entries[i].nonce
<1> DEFINE w == txn[c].writes[i[2]]
<1>1. entries'[i] = (IF w = None \/ w.id # i THEN entries[i] ELSE Flush(entries[i], w))
  BY DEF Commit
<1>2. SUFFICES ASSUME w # None, w.id = i
               PROVE  /\ w \in Write
                      /\ entries'[i] = Flush(entries[i], w)
                      /\ entries'[i] \in Row /\ entries'[i] # None
                      /\ entries'[i].user = txn[c].user
                      /\ Sealed(entries'[i])
                      /\ entries[i] # None /\ ~entries[i].live => ~entries'[i].live
                      /\ entries'[i].nonce = w.row.nonce \/ entries'[i].nonce = entries[i].nonce
  BY <1>1
<1>3. txn[c] # None /\ txn[c] \in Txn /\ i[2] \in Services
  BY IdsParts DEF IInv, TypeOK, Commit
<1>4. w \in Write /\ WriteOK(w, i[2], txn[c].user)
  BY <1>2, <1>3 DEF IInv, WritesOK, Txn
<1>5. entries[i] \in Row \cup {None} /\ entries'[i] = Flush(entries[i], w)
  BY <1>1, <1>2 DEF IInv, TypeOK
<1>6. entries'[i] \in Row /\ entries'[i] # None
  BY <1>4, <1>5, FlushType, NoneAssumption
<1>7. CASE Inserts(w)
  BY <1>2, <1>4, <1>5, <1>6, <1>7 DEF Inserts, Flush, WriteOK
<1>8. CASE Updates(w) \/ Deletes(w)
  <2>1. entries[i] # None /\ entries[i] \in Row /\ entries[i].user = txn[c].user
    BY <1>2, <1>4, <1>5, <1>8 DEF Updates, Deletes, WriteOK
  <2>2. entries'[i].user = txn[c].user
    BY <1>5, <2>1 DEF Flush
  <2>3. Sealed(entries[i]) /\ Sealed(w.row) /\ w.row.user = txn[c].user
    BY <1>4, <2>1 DEF IInv, RowsOK, WriteOK
  <2>4. \/ /\ entries'[i].password = w.row.password
           /\ entries'[i].nonce = w.row.nonce
        \/ /\ entries'[i].password = entries[i].password
           /\ entries'[i].nonce = entries[i].nonce
    BY <1>5, <1>8, <2>1 DEF Flush, Updates, Deletes
  <2>5. Sealed(entries'[i])
    BY <2>1, <2>2, <2>3, <2>4 DEF Sealed
  <2>6. ~entries[i].live => ~entries'[i].live
    BY <1>5, <1>8, <2>1 DEF Flush, Updates, Deletes
  <2> QED
    BY <1>4, <1>5, <1>6, <2>2, <2>4, <2>5, <2>6
<1> QED
  BY <1>4, <1>7, <1>8 DEF WriteOK

LEMMA CommitPreserves ==
  ASSUME IInv, NEW c \in Clients, Commit(c)
  PROVE  IInv'
<1>1. /\ txn' = [txn EXCEPT ![c] = None]
      /\ txn[c] \in Txn /\ txn[c] # None
      /\ UNCHANGED <<session, draws, gone, erasing>>
  BY DEF Commit, IInv, TypeOK
<1>2. \A i \in Ids : entries'[i] \in Row \cup {None}
  BY CommittedRow DEF IInv, TypeOK
<1>3. TypeOK'
  <2>1. entries' \in [Ids -> Row \cup {None}]
    BY <1>2 DEF Commit
  <2> QED
    BY <1>1, <2>1 DEF IInv, TypeOK
<1>4. SessionsOK' /\ ErasingOK'
  BY <1>1 DEF IInv, TypeOK, SessionsOK, ErasingOK
<1>5. RowsOK'
  BY CommittedRow DEF IInv, RowsOK, Sealed
<1>6. ASSUME NEW d \in Clients, NEW s \in Services,
             txn'[d] # None, txn'[d].writes[s] # None
      PROVE  /\ d # c /\ txn'[d] = txn[d]
             /\ txn[d].writes[s] \in Write
             /\ WriteOK(txn[d].writes[s], s, txn[d].user)
  BY <1>1, <1>6 DEF IInv, TypeOK, WritesOK, Txn
<1>7. WritesOK'
  <2> SUFFICES ASSUME NEW d \in Clients, NEW s \in Services,
                      txn'[d] # None, txn'[d].writes[s] # None
               PROVE  WriteOK(txn[d].writes[s], s, txn[d].user)'
    BY DEF WritesOK
  <2> DEFINE w == txn[d].writes[s]
  <2>1. d # c /\ txn'[d] = txn[d] /\ w \in Write /\ WriteOK(w, s, txn[d].user)
    BY <1>6
  <2>2. w.id \in Ids
    BY <2>1 DEF Write
  <2>3. CASE entries[w.id] = None
    <3>1. entries'[w.id] = None
      <4>1. w.id[2] = s /\ txn[d] # None
        BY <2>1 DEF WriteOK
      <4>2. txn[c].writes[s] = None \/ txn[c].writes[s].id # w.id
        BY <1>1, <2>1, <2>3, <4>1 DEF IInv, InsertsApart
      <4> QED
        BY <2>2, <2>3, <4>1, <4>2, CommittedRow
    <3>2. Inserts(w)
      BY <2>1, <2>3 DEF WriteOK, Inserts, Updates, Deletes
    <3> QED
      BY <2>1, <3>1, <3>2 DEF WriteOK, Inserts, Sealed
  <2>4. CASE entries[w.id] # None
    <3>1. entries'[w.id] # None /\ entries'[w.id].user = entries[w.id].user
      <4>1. CASE entries'[w.id] = entries[w.id]
        BY <2>4, <4>1
      <4>2. CASE entries'[w.id] # entries[w.id]
        <5> DEFINE v == txn[c].writes[w.id[2]]
        <5>1. /\ v # None /\ v.id = w.id
              /\ entries'[w.id] # None /\ entries'[w.id].user = txn[c].user
          BY <2>2, <4>2, CommittedRow
        <5>2. entries[w.id].user = txn[c].user
          <6>1. WriteOK(v, w.id[2], txn[c].user)
            BY <1>1, <2>2, <5>1, IdsParts DEF IInv, WritesOK
          <6> QED
            BY <2>4, <5>1, <6>1 DEF WriteOK
        <5> QED
          BY <5>1, <5>2
      <4> QED
        BY <4>1, <4>2
    <3>2. Updates(w) \/ Deletes(w)
      BY <2>1, <2>4 DEF WriteOK, Inserts
    <3> QED
      BY <2>1, <2>4, <3>1, <3>2 DEF WriteOK, Updates, Deletes, Sealed
  <2> QED
    BY <2>3, <2>4
<1>8. DrawnOK'
  <2>1. ASSUME NEW i \in Ids, entries'[i] # None
        PROVE  i[1] <= draws /\ entries'[i].nonce[1] <= draws
    <3>1. CASE entries'[i] = entries[i]
      BY <2>1, <3>1 DEF IInv, DrawnOK
    <3>2. CASE entries'[i] # entries[i]
      <4> DEFINE w == txn[c].writes[i[2]]
      <4>1. /\ w # None /\ w.id = i
            /\ entries'[i].nonce = w.row.nonce \/ entries'[i].nonce = entries[i].nonce
        BY <3>2, CommittedRow
      <4>2. i[1] <= draws /\ w.row.nonce[1] <= draws
        BY <1>1, <4>1, IdsParts DEF IInv, DrawnOK
      <4>3. CASE entries[i] = None
        <5>1. entries'[i].nonce = w.row.nonce
          BY <3>2, <4>3, CommittedRow DEF Flush
        <5> QED
          BY <4>2, <5>1
      <4>4. CASE entries[i] # None
        BY <4>1, <4>2, <4>4 DEF IInv, DrawnOK
      <4> QED
        BY <4>3, <4>4
    <3> QED
      BY <3>1, <3>2
  <2> QED
    BY <1>1, <1>6, <2>1 DEF IInv, DrawnOK
<1>9. InsertsApart'
  <2> SUFFICES ASSUME NEW d \in Clients, NEW e \in Clients, NEW s \in Services,
                      d # e,
                      txn'[d] # None, txn'[d].writes[s] # None,
                      txn'[e] # None, txn'[e].writes[s] # None,
                      entries'[txn'[d].writes[s].id] = None
               PROVE  txn'[d].writes[s].id # txn'[e].writes[s].id
    BY DEF InsertsApart
  <2>1. txn'[d] = txn[d] /\ txn'[e] = txn[e] /\ txn[d].writes[s].id \in Ids
    BY <1>6 DEF Write
  <2>2. entries[txn[d].writes[s].id] = None
    BY <2>1, CommittedRow
  <2> QED
    BY <2>1, <2>2 DEF IInv, InsertsApart
<1> QED
  BY <1>3, <1>4, <1>5, <1>7, <1>8, <1>9 DEF IInv

LEMMA DeleteUserPreserves ==
  ASSUME IInv, NEW c \in Clients, DeleteUser(c)
  PROVE  IInv'
<1>1. /\ UNCHANGED <<session, txn, draws>> /\ gone' \subseteq Users
      /\ erasing' \subseteq erasing /\ erasing' \subseteq Clients
  BY DEF DeleteUser, IInv, TypeOK, ErasingOK, Session
<1>2. ASSUME NEW i \in Ids
      PROVE  /\ entries'[i] = None <=> entries[i] = None
             /\ entries[i] # None =>
                  /\ entries'[i] \in Row
                  /\ entries'[i].user = entries[i].user
                  /\ entries'[i].password = entries[i].password
                  /\ entries'[i].nonce = entries[i].nonce
  <2>1. CASE i \in LiveRows(session[c].user)
    <3>1. entries[i] \in Row /\ entries[i] # None
      BY <2>1 DEF LiveRows, IInv, TypeOK
    <3>2. entries'[i] = [entries[i] EXCEPT !.live = FALSE]
      BY <2>1 DEF DeleteUser
    <3>3. entries'[i] \in Row
      BY <3>1, <3>2 DEF Row
    <3> QED
      BY <3>1, <3>2, <3>3, NoneAssumption DEF Row
  <2>2. CASE i \notin LiveRows(session[c].user)
    BY <2>2 DEF DeleteUser, IInv, TypeOK
  <2> QED
    BY <2>1, <2>2
<1>3. TypeOK'
  <2>1. \A i \in Ids : entries'[i] \in Row \cup {None}
    BY <1>2
  <2>2. entries' \in [Ids -> Row \cup {None}]
    BY <2>1 DEF DeleteUser
  <2> QED
    BY <1>1, <2>2 DEF IInv, TypeOK
<1>4. SessionsOK' /\ ErasingOK' /\ RowsOK'
  BY <1>1, <1>2 DEF IInv, SessionsOK, ErasingOK, RowsOK, Sealed
<1>5. \A d \in Clients, s \in Services :
        txn[d] # None /\ txn[d].writes[s] # None => txn[d].writes[s].id \in Ids
  BY DEF IInv, TypeOK, Txn, Write
<1>6. WritesOK'
  BY <1>1, <1>2, <1>5 DEF IInv, WritesOK, WriteOK, Inserts, Updates, Deletes, Sealed
<1>7. DrawnOK' /\ InsertsApart'
  BY <1>1, <1>2, <1>5 DEF IInv, DrawnOK, InsertsApart
<1> QED
  BY <1>3, <1>4, <1>6, <1>7 DEF IInv

----------------------------------------------------------------------------
(* The invariant is inductive *)

LEMMA InitIInv == Init => IInv
<1> SUFFICES ASSUME Init PROVE IInv
  OBVIOUS
<1>1. TypeOK
  BY BoundAssumption DEF Init, TypeOK, Session, NoSession
<1>2. SessionsOK /\ ErasingOK /\ RowsOK /\ WritesOK /\ DrawnOK /\ InsertsApart
  BY DEF Init, NoSession, SessionsOK, ErasingOK, RowsOK, WritesOK, DrawnOK, InsertsApart
<1> QED
  BY <1>1, <1>2 DEF IInv

LEMMA NextIInv == IInv /\ [Next]_vars => IInv'
<1> SUFFICES ASSUME IInv, [Next]_vars PROVE IInv'
  OBVIOUS
<1>1. ASSUME NEW c \in Clients, NEW u \in Users, Login(c, u)
      PROVE  IInv'
  <2>1. session' \in [Clients -> Session] /\ SessionsOK' /\ ErasingOK'
    BY <1>1, NoneAssumption DEF Login, Idle, IInv, TypeOK, Session, SessionsOK, ErasingOK
  <2> QED
    BY <1>1, <2>1, DropPreserves DEF Login, IInv, TypeOK
<1>2. ASSUME NEW c \in Clients, NEW u \in Users, NEW dek \in Users,
             RestoreSession(c, u, dek)
      PROVE  IInv'
  <2>1. session' \in [Clients -> Session] /\ SessionsOK' /\ ErasingOK'
    BY <1>2, NoneAssumption DEF RestoreSession, Idle, IInv, TypeOK, Session, SessionsOK, ErasingOK
  <2> QED
    BY <1>2, <2>1, DropPreserves DEF RestoreSession, IInv, TypeOK
<1>3. ASSUME NEW c \in Clients, Logout(c)
      PROVE  IInv'
  <2>1. session' \in [Clients -> Session] /\ SessionsOK' /\ ErasingOK'
    BY <1>3 DEF Logout, Idle, NoSession, IInv, TypeOK, Session, SessionsOK, ErasingOK
  <2> QED
    BY <1>3, <2>1, DropPreserves DEF Logout, IInv, TypeOK
<1>4. ASSUME NEW c \in Clients, NEW s \in Services, NEW cred \in Creds,
             SavePassword(c, s, cred)
      PROVE  IInv'
  BY <1>4, SavePasswordPreserves
<1>5. ASSUME NEW c \in Clients, NEW batch \in Batches, SavePasswords(c, batch)
      PROVE  IInv'
  BY <1>5, SavePasswordsPreserves
<1>6. ASSUME NEW c \in Clients, NEW s \in Services, DeletePassword(c, s)
      PROVE  IInv'
  BY <1>6, DeletePasswordPreserves
<1>7. ASSUME NEW c \in Clients, Commit(c)
      PROVE  IInv'
  BY <1>7, CommitPreserves
<1>8. ASSUME NEW c \in Clients, Rollback(c)
      PROVE  IInv'
  BY <1>8, DropPreserves DEF Rollback, IInv, TypeOK, SessionsOK, ErasingOK
<1>9. ASSUME NEW c \in Clients, Crash(c)
      PROVE  IInv'
  <2>1. session' \in [Clients -> Session] /\ SessionsOK' /\ ErasingOK'
    BY <1>9 DEF Crash, NoSession, IInv, TypeOK, Session, SessionsOK, ErasingOK
  <2> QED
    BY <1>9, <2>1, DropPreserves DEF Crash, IInv, TypeOK
<1>10. ASSUME NEW c \in Clients, FindUser(c)
       PROVE  IInv'
  <2>1. SessionsOK' /\ ErasingOK'
    BY <1>10, NoneAssumption DEF FindUser, Idle, IInv, SessionsOK, ErasingOK
  <2> QED
    BY <1>10, <2>1, DropPreserves DEF FindUser, IInv, TypeOK
<1>11. ASSUME NEW c \in Clients, DeleteUser(c)
       PROVE  IInv'
  BY <1>11, DeleteUserPreserves
<1>12. CASE UNCHANGED vars
  BY <1>12, DropPreserves DEF vars, IInv, TypeOK, SessionsOK, ErasingOK
<1> QED
  BY <1>1, <1>2, <1>3, <1>4, <1>5, <1>6, <1>7, <1>8, <1>9, <1>10, <1>11, <1>12 DEF Next

\* In every reachable state the invariant holds: whatever other clients have
\* committed, each changed object waiting to be committed still fits its row.
THEOREM Invariance == Spec => []IInv
BY InitIInv, NextIInv, PTL DEF Spec

\* The variables keep their types.
THEOREM Typing == Spec => []TypeOK
<1>1. IInv => TypeOK
  BY DEF IInv
<1> QED
  BY <1>1, Invariance, PTL

\* Every live row opens with its account's DEK, however updates of clients
\* that share the account interleave, provided restore_session is given the
\* account's own DEK.
THEOREM LiveRowsReadable == ASSUME ~RestoreAny PROVE Spec => []Readable
<1>1. IInv => Readable
  <2> SUFFICES ASSUME IInv, NEW i \in Ids, entries[i] # None
               PROVE  Decrypt(entries[i].password, entries[i].nonce, entries[i].user) # None
    BY DEF Readable
  <2>1. entries[i] \in Row /\ Sealed(entries[i])
    BY DEF IInv, TypeOK, RowsOK
  <2>2. entries[i].password.text \in Passwords
    BY <2>1 DEF Row, Ciphertext
  <2> QED
    BY <2>1, <2>2, NoneAssumption DEF Sealed, Decrypt
<1> QED
  BY <1>1, Invariance, PTL

\* No row is ever removed and no tombstone comes back to life, for any number
\* of clients that may share accounts and any DEK they restore.
THEOREM TombstonesStayDead == Spec => TombstonesStay
<1>1. IInv /\ [Next]_vars => [\A i \in Ids : RowStays(i)]_vars
  <2> SUFFICES ASSUME IInv, Next, NEW i \in Ids, entries[i] # None
               PROVE  entries'[i] # None /\ (~entries[i].live => ~entries'[i].live)
    BY DEF RowStays
  <2>1. CASE entries' = entries
    BY <2>1
  <2>2. ASSUME NEW c \in Clients, Commit(c)
        PROVE  entries'[i] # None /\ (~entries[i].live => ~entries'[i].live)
    BY <2>2, CommittedRow
  <2>3. ASSUME NEW c \in Clients, DeleteUser(c)
        PROVE  entries'[i] # None /\ (~entries[i].live => ~entries'[i].live)
    <3>1. CASE i \in LiveRows(session[c].user)
      <4>1. entries[i] \in Row /\ entries'[i] = [entries[i] EXCEPT !.live = FALSE]
        BY <2>3, <3>1 DEF DeleteUser, IInv, TypeOK
      <4>2. entries'[i] \in Row /\ ~entries'[i].live
        BY <4>1 DEF Row
      <4> QED
        BY <4>2, NoneAssumption
    <3>2. CASE i \notin LiveRows(session[c].user)
      BY <2>3, <3>2 DEF DeleteUser
    <3> QED
      BY <3>1, <3>2
  <2> QED
    BY <2>1, <2>2, <2>3 DEF Next, Login, RestoreSession, Logout, SavePassword,
         SavePasswords, DeletePassword, Rollback, Crash, FindUser
<1> QED
  BY <1>1, Invariance, PTL DEF Spec, TombstonesStay

----------------------------------------------------------------------------
(* One live row per service while no two clients share an account *)

\* A step that leaves the rows alone, keeps open operations or drops them, and
\* keeps the sessions of those it keeps, preserves what the exclusive
\* invariant adds.
LEMMA DropExclusive ==
  ASSUME ExclusiveInv, UNCHANGED entries, Alone',
         \A c \in Clients :
           txn'[c] = None \/ (txn'[c] = txn[c] /\ session'[c].user = session[c].user)
  PROVE  SessionHeld' /\ AtMostOne' /\ FoundStands'
<1>1. \A u, s : Matching(u, s)' = Matching(u, s)
  BY DEF Matching, LiveRows
<1>2. SessionHeld'
  BY DEF ExclusiveInv, SessionHeld
<1>3. AtMostOne'
  BY <1>1 DEF ExclusiveInv, AtMostOne, Matching, LiveRows
<1>4. FoundStands'
  BY <1>1 DEF ExclusiveInv, FoundStands, Matching, LiveRows
<1> QED
  BY <1>2, <1>3, <1>4

\* A new operation found the only live row there is, or none.
LEMMA BeginExclusive ==
  ASSUME ExclusiveInv, NEW c \in Clients, NEW asked, NEW writes, NEW ok,
         session[c].user \in Users,
         Begin(c, asked, writes, ok), UNCHANGED <<entries, session>>,
         \A s \in Services : writes[s] # None =>
           Matching(session[c].user, s) \subseteq {writes[s].id}
  PROVE  Alone' /\ SessionHeld' /\ AtMostOne' /\ FoundStands'
<1>1. /\ txn'[c] = [user |-> session[c].user, asked |-> asked,
                    writes |-> writes, ok |-> ok]
      /\ \A d \in Clients \ {c} : txn'[d] = txn[d]
  BY DEF Begin, ExclusiveInv, IInv, TypeOK
<1>2. Alone' /\ SessionHeld'
  BY <1>1 DEF ExclusiveInv, Alone, SessionHeld
<1>3. AtMostOne'
  BY DEF ExclusiveInv, AtMostOne, Matching, LiveRows
<1>4. FoundStands'
  BY <1>1 DEF ExclusiveInv, FoundStands, Matching, LiveRows
<1> QED
  BY <1>2, <1>3, <1>4

LEMMA PreparedStands ==
  ASSUME ExclusiveInv, NEW c \in Clients, session[c].user \in Users,
         NEW s \in Services, NEW cred, NEW i \in FetchRow(session[c].user, s)
  PROVE  Matching(session[c].user, s) \subseteq {Prepare(c, s, cred, i).id}
<1>1. CASE i = None
  <2>1. Matching(session[c].user, s) = {}
    BY <1>1, NoneAssumption DEF FetchRow, Matching, LiveRows
  <2> QED
    BY <2>1
<1>2. CASE i # None
  <2>1. Prepare(c, s, cred, i).id = i /\ i \in Matching(session[c].user, s)
    BY <1>2 DEF Prepare, FetchRow
  <2> QED
    BY <2>1 DEF ExclusiveInv, AtMostOne
<1> QED
  BY <1>1, <1>2

LEMMA CommitExclusive ==
  ASSUME ExclusiveInv, NEW c \in Clients, Commit(c)
  PROVE  Alone' /\ SessionHeld' /\ AtMostOne' /\ FoundStands'
<1>1. /\ txn'[c] = None /\ \A d \in Clients \ {c} : txn'[d] = txn[d]
      /\ txn[c] \in Txn /\ txn[c] # None /\ UNCHANGED session
      /\ session[c].user = txn[c].user
  BY DEF Commit, ExclusiveInv, IInv, TypeOK, SessionHeld
<1>2. Alone' /\ SessionHeld'
  BY <1>1 DEF ExclusiveInv, Alone, SessionHeld
<1>3. ASSUME NEW i \in Ids, entries'[i] # entries[i]
      PROVE  /\ txn[c].writes[i[2]] # None /\ txn[c].writes[i[2]].id = i
             /\ entries'[i].user = txn[c].user
  BY <1>3, CommittedRow DEF ExclusiveInv
<1>4. ASSUME NEW u \in Users, NEW s \in Services
      PROVE  \/ Matching(u, s)' \subseteq Matching(u, s)
             \/ /\ u = txn[c].user /\ txn[c].writes[s] # None
                /\ Matching(u, s)' \subseteq {txn[c].writes[s].id}
  <2> DEFINE w == txn[c].writes[s]
  <2>1. CASE u = txn[c].user /\ w # None
    <3>1. Matching(u, s) \subseteq {w.id}
      BY <1>1, <2>1 DEF ExclusiveInv, FoundStands
    <3>2. ASSUME NEW i \in Ids, i[2] = s, i # w.id
          PROVE  entries'[i] = entries[i]
      BY <1>3, <3>2
    <3> QED
      BY <2>1, <3>1, <3>2 DEF Matching, LiveRows
  <2>2. CASE u # txn[c].user \/ w = None
    <3>1. ASSUME NEW i \in Ids, i[2] = s, entries'[i].user = u
          PROVE  entries'[i] = entries[i]
      BY <1>3, <2>2, <3>1
    <3> QED
      BY <3>1 DEF Matching, LiveRows
  <2> QED
    BY <2>1, <2>2
<1>5. AtMostOne'
  <2> SUFFICES ASSUME NEW u \in Users, NEW s \in Services
               PROVE  (\A i, j \in Matching(u, s) : i = j)'
    BY DEF AtMostOne
  <2> QED
    BY <1>4 DEF ExclusiveInv, AtMostOne
<1>6. FoundStands'
  <2> SUFFICES ASSUME NEW d \in Clients, NEW s \in Services,
                      txn'[d] # None, txn'[d].writes[s] # None,
                      NEW u \in Users, u = txn[d].user
               PROVE  Matching(u, s)' \subseteq {txn[d].writes[s].id}
    <3>1. \A d \in Clients : txn'[d] # None => txn'[d] = txn[d] /\ txn[d].user \in Users
      BY <1>1 DEF ExclusiveInv, IInv, TypeOK, Txn
    <3> QED
      BY <3>1 DEF FoundStands, Matching, LiveRows
  <2>1. d # c /\ txn'[d] = txn[d]
    BY <1>1
  <2>2. u # txn[c].user
    BY <1>1, <2>1, NoneAssumption DEF ExclusiveInv, SessionHeld, Alone
  <2>3. Matching(u, s)' \subseteq Matching(u, s)
    BY <1>4, <2>2
  <2> QED
    BY <2>1, <2>3 DEF ExclusiveInv, FoundStands
<1> QED
  BY <1>2, <1>5, <1>6

LEMMA DeleteUserExclusive ==
  ASSUME ExclusiveInv, NEW c \in Clients, DeleteUser(c)
  PROVE  Alone' /\ SessionHeld' /\ AtMostOne' /\ FoundStands'
<1>1. UNCHANGED <<session, txn>>
  BY DEF DeleteUser
<1>2. ASSUME NEW u, NEW s
      PROVE  Matching(u, s)' \subseteq Matching(u, s)
  <2> SUFFICES ASSUME NEW i \in Ids, entries'[i] # None, entries'[i].user = u,
                      entries'[i].live, i[2] = s
               PROVE  i \in Matching(u, s)
    BY DEF Matching, LiveRows
  <2>1. i \notin LiveRows(session[c].user)
    <3> SUFFICES ASSUME i \in LiveRows(session[c].user) PROVE FALSE
      OBVIOUS
    <3>1. entries[i] \in Row /\ entries'[i] = [entries[i] EXCEPT !.live = FALSE]
      BY NoneAssumption DEF DeleteUser, LiveRows, ExclusiveInv, IInv, TypeOK
    <3> QED
      BY <3>1 DEF Row
  <2> QED
    BY <2>1 DEF DeleteUser, Matching, LiveRows
<1>3. Alone' /\ SessionHeld'
  BY <1>1 DEF ExclusiveInv, Alone, SessionHeld
<1>4. AtMostOne'
  <2> SUFFICES ASSUME NEW u \in Users, NEW s \in Services
               PROVE  (\A i, j \in Matching(u, s) : i = j)'
    BY DEF AtMostOne
  <2> QED
    BY <1>2 DEF ExclusiveInv, AtMostOne
<1>5. FoundStands'
  <2> SUFFICES ASSUME NEW d \in Clients, NEW s \in Services,
                      txn[d] # None, txn[d].writes[s] # None,
                      NEW u, u = txn[d].user
               PROVE  Matching(u, s)' \subseteq {txn[d].writes[s].id}
    BY <1>1 DEF FoundStands, Matching, LiveRows
  <2> QED
    BY <1>2 DEF ExclusiveInv, FoundStands
<1> QED
  BY <1>3, <1>4, <1>5

LEMMA NextExclusive ==
  ASSUME ~SharedAccounts
  PROVE  ExclusiveInv /\ [Next]_vars => ExclusiveInv'
<1> SUFFICES ASSUME ExclusiveInv, [Next]_vars
             PROVE  Alone' /\ SessionHeld' /\ AtMostOne' /\ FoundStands'
  BY NextIInv DEF ExclusiveInv
<1>1. ASSUME NEW c \in Clients, NEW u \in Users, NEW dek \in Users,
             Login(c, u) \/ RestoreSession(c, u, dek)
      PROVE  Alone' /\ SessionHeld' /\ AtMostOne' /\ FoundStands'
  <2>1. /\ txn[c] = None /\ UNCHANGED <<entries, txn>>
        /\ session'[c].user = u
        /\ \A o \in Clients \ {c} : session'[o] = session[o] /\ session[o].user # u
    BY <1>1 DEF Login, RestoreSession, Idle, Exclusive, ExclusiveInv, IInv, TypeOK
  <2>2. Alone'
    BY <2>1 DEF ExclusiveInv, Alone
  <2>3. \A d \in Clients :
          txn'[d] = None \/ (txn'[d] = txn[d] /\ session'[d].user = session[d].user)
    BY <2>1
  <2> QED
    BY <2>1, <2>2, <2>3, DropExclusive
<1>2. ASSUME NEW c \in Clients, Logout(c) \/ Crash(c)
      PROVE  Alone' /\ SessionHeld' /\ AtMostOne' /\ FoundStands'
  <2>1. /\ UNCHANGED entries /\ txn'[c] = None /\ session'[c].user = None
        /\ \A o \in Clients \ {c} : session'[o] = session[o] /\ txn'[o] = txn[o]
    BY <1>2 DEF Logout, Idle, Crash, NoSession, ExclusiveInv, IInv, TypeOK
  <2>2. Alone'
    BY <2>1, NoneAssumption DEF ExclusiveInv, Alone
  <2>3. \A d \in Clients :
          txn'[d] = None \/ (txn'[d] = txn[d] /\ session'[d].user = session[d].user)
    BY <2>1
  <2> QED
    BY <2>1, <2>2, <2>3, DropExclusive
<1>3. ASSUME NEW c \in Clients, Rollback(c)
      PROVE  Alone' /\ SessionHeld' /\ AtMostOne' /\ FoundStands'
  <2>1. Alone'
    BY <1>3 DEF Rollback, ExclusiveInv, Alone
  <2> QED
    BY <1>3, <2>1, DropExclusive DEF Rollback, ExclusiveInv, IInv, TypeOK
<1>4. ASSUME NEW c \in Clients, Ready(c)
      PROVE  session[c].user \in Users
  BY <1>4 DEF Ready, ExclusiveInv, IInv, TypeOK, SessionsOK, Session
<1>5. ASSUME NEW c \in Clients, NEW s \in Services, NEW cred \in Creds,
             SavePassword(c, s, cred)
      PROVE  Alone' /\ SessionHeld' /\ AtMostOne' /\ FoundStands'
  <2> DEFINE Writes(i) == [t \in Services |-> IF t = s THEN Prepare(c, s, cred, i) ELSE None]
  <2>1. session[c].user \in Users /\ UNCHANGED <<entries, session>>
    BY <1>4, <1>5 DEF SavePassword
  <2>2. PICK i \in FetchRow(session[c].user, s) :
          Begin(c, [t \in Services |-> IF t = s THEN cred ELSE None], Writes(i), TRUE)
    BY <1>5 DEF SavePassword
  <2>3. \A t \in Services : Writes(i)[t] # None =>
          Matching(session[c].user, t) \subseteq {Writes(i)[t].id}
    BY <2>1, PreparedStands
  <2> HIDE DEF Writes
  <2> QED
    BY <2>1, <2>2, <2>3, BeginExclusive
<1>6. ASSUME NEW c \in Clients, NEW batch \in Batches, SavePasswords(c, batch)
      PROVE  Alone' /\ SessionHeld' /\ AtMostOne' /\ FoundStands'
  <2> DEFINE key == session[c].dek
             Skip(s, i) == \/ batch[s] \notin Creds
                           \/ i # None /\ IsUnchanged(entries[i], batch[s], key)
             Fine(s, i) == /\ batch[s] \notin BadCreds
                           /\ i # None /\ batch[s] # None
                                => Compares(entries[i], batch[s], key)
             Writes(f) == [s \in Services |-> IF Skip(s, f[s]) THEN None
                                              ELSE Prepare(c, s, batch[s], f[s])]
  <2>1. session[c].user \in Users /\ UNCHANGED <<entries, session>>
    BY <1>4, <1>6 DEF SavePasswords
  <2>2. PICK existing \in ByService(session[c].user) :
          Begin(c, batch, Writes(existing), \A s \in Services : Fine(s, existing[s]))
    BY <1>6 DEF SavePasswords
  <2>3. \A s \in Services : Writes(existing)[s] # None =>
          Matching(session[c].user, s) \subseteq {Writes(existing)[s].id}
    BY <2>1, PreparedStands, ByServiceType
  <2> HIDE DEF Writes, Fine
  <2> QED
    BY <2>1, <2>2, <2>3, BeginExclusive
<1>7. ASSUME NEW c \in Clients, NEW s \in Services, DeletePassword(c, s)
      PROVE  Alone' /\ SessionHeld' /\ AtMostOne' /\ FoundStands'
  <2> DEFINE Writes(i) ==
               [t \in Services |->
                  IF t = s
                    THEN [id |-> i, row |-> [entries[i] EXCEPT !.live = FALSE],
                          dirty |-> {"live"}]
                    ELSE None]
  <2>1. session[c].user \in Users /\ UNCHANGED <<entries, session>>
    BY <1>4, <1>7 DEF DeletePassword
  <2>2. PICK i \in Matching(session[c].user, s) :
          Begin(c, [t \in Services |-> IF t = s THEN Deleted ELSE None], Writes(i), TRUE)
    BY <1>7 DEF DeletePassword
  <2>3. \A t \in Services : Writes(i)[t] # None =>
          Matching(session[c].user, t) \subseteq {Writes(i)[t].id}
    BY <2>1 DEF ExclusiveInv, AtMostOne
  <2> HIDE DEF Writes
  <2> QED
    BY <2>1, <2>2, <2>3, BeginExclusive
<1>8. ASSUME NEW c \in Clients, Commit(c)
      PROVE  Alone' /\ SessionHeld' /\ AtMostOne' /\ FoundStands'
  BY <1>8, CommitExclusive
<1>9. ASSUME NEW c \in Clients, DeleteUser(c)
      PROVE  Alone' /\ SessionHeld' /\ AtMostOne' /\ FoundStands'
  BY <1>9, DeleteUserExclusive
<1>10. ASSUME NEW c \in Clients, FindUser(c)
       PROVE  Alone' /\ SessionHeld' /\ AtMostOne' /\ FoundStands'
  <2>1. Alone'
    BY <1>10 DEF FindUser, ExclusiveInv, Alone
  <2> QED
    BY <1>10, <2>1, DropExclusive DEF FindUser
<1>11. CASE UNCHANGED vars
  <2>1. Alone'
    BY <1>11 DEF vars, ExclusiveInv, Alone
  <2> QED
    BY <1>11, <2>1, DropExclusive DEF vars
<1> QED
  BY <1>1, <1>2, <1>3, <1>5, <1>6, <1>7, <1>8, <1>9, <1>10, <1>11 DEF Next

LEMMA InitExclusive == Init => ExclusiveInv
<1> SUFFICES ASSUME Init PROVE Alone /\ SessionHeld /\ AtMostOne /\ FoundStands
  BY InitIInv DEF ExclusiveInv
<1> QED
  BY DEF Init, NoSession, Alone, SessionHeld, AtMostOne, FoundStands, Matching, LiveRows

\* While no two clients hold sessions of one account, an account never has two
\* live rows for a service, though no constraint of the table forbids it: what
\* a save found when it looked still stands when it commits.
THEOREM ExclusiveOneLive == ASSUME ~SharedAccounts PROVE Spec => []OneLivePerService
<1>1. ExclusiveInv => OneLivePerService
  <2> SUFFICES ASSUME ExclusiveInv, NEW u \in Users, NEW s \in Services
               PROVE  Cardinality(Matching(u, s)) <= 1
    BY DEF OneLivePerService
  <2>1. CASE Matching(u, s) = {}
    BY <2>1, FS_EmptySet
  <2>2. ASSUME NEW i \in Matching(u, s)
        PROVE  Cardinality(Matching(u, s)) <= 1
    <3>1. Matching(u, s) = {i}
      BY <2>2 DEF ExclusiveInv, AtMostOne
    <3>2. Cardinality({i}) = 1
      BY FS_Singleton
    <3> QED
      BY <3>1, <3>2
  <2> QED
    BY <2>1, <2>2
<1>2. ExclusiveInv /\ [Next]_vars => ExclusiveInv'
  BY NextExclusive
<1> QED
  BY <1>1, <1>2, InitExclusive, PTL DEF Spec

=============================================================================
