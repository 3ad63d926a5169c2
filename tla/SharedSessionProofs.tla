------------------------- MODULE SharedSessionProofs -------------------------
(***************************************************************************)
(* SharedSession's invariants, proved for any number of threads, services   *)
(* and rows.  That no session is ever stuck holds for any accounts; what a  *)
(* steady session is answered, while the process uses one account.          *)
(***************************************************************************)
EXTENDS SharedSession, TLAPS

----------------------------------------------------------------------------
(* Calls *)

Calls == [Threads -> Call \cup {None}]

VaultOps == {"get", "services", "entries", "set", "delete"}

Nexts == {"set uid", "set dek", "check uid", "clear dek", "clear uid", "check key",
          "read key", "decrypt", "query", "delete", "assert uid", "read uid", "look up", "commit"}

\* What a call has read by the time of its next step.
ArgsOK(c) ==
  /\ c.next \in {"set uid", "set dek"} => c.arg \in Accounts
  /\ c.next = "set uid" => c.op \in {"login", "restore"}
  /\ c.next \in {"check key", "read key", "query", "decrypt"} => c.op \in VaultOps
  /\ c.next \in {"assert uid", "read uid", "look up", "commit"} => c.op = "set"
  /\ c.next = "delete" => c.op = "delete" /\ c.row # None
  /\ c.next = "read uid" => c.key \in Accounts
  /\ c.next = "decrypt" => c.op = "get"
  /\ c.op = "set" => c.arg \in Services
  /\ c.next \in {"look up", "commit"} => c.key \in Accounts /\ c.user \in Accounts
  /\ c.op = "get" /\ c.row # None => c.sealed \in Accounts
  /\ c.op = "get" /\ c.next \in {"read key", "decrypt"} => c.row # None

\* A thread is about to complete what makes user_id differ from the DEK.
Repairing == \E t \in Threads : call[t] # None /\ call[t].next \in {"set dek", "clear uid"}

\* No row is ever removed, so the one that a call found is still there.
RowOK(c) == c.row # None => rows[c.row] # None

IInv ==
  /\ TypeOK
  /\ \A t \in Threads : call[t] # None => ArgsOK(call[t]) /\ RowOK(call[t])
  /\ uid # None /\ dek = None /\ ~overtaken => Repairing
  /\ Restoring /\ ~overtaken => dek # None

\* A call that may begin.
Fresh(c) ==
  c \in Call /\ ArgsOK(c) /\ RowOK(c) /\ (c.next = "set uid" => c.op = "login")

\* The fields of a call that goes on to another step.
SameBut(c, d, next) ==
  /\ d \in Call /\ d.next = next
  /\ d.op = c.op /\ d.arg = c.arg /\ d.key = c.key /\ d.user = c.user
  /\ d.sealed = c.sealed /\ d.row = c.row

OthersStay(t) == \A o \in Threads : o # t => call'[o] = call[o]

LEMMA CallTyped ==
  ASSUME TypeOK, NEW t \in Threads, call[t] # None
  PROVE  call \in Calls /\ call[t] \in Call
BY DEF TypeOK, Calls

LEMMA CallGoes ==
  ASSUME TypeOK, NEW t \in Threads, call[t] # None, NEW next \in Nexts, Go(t, next)
  PROVE  /\ call' \in Calls /\ call'[t] # None
         /\ SameBut(call[t], call'[t], next)
         /\ OthersStay(t)
<1> DEFINE c == call[t]
           d == [c EXCEPT !.next = next]
<1>1. c \in Call /\ call \in Calls
  BY CallTyped
<1>2. d \in Call
  BY <1>1 DEF Call, Nexts
<1>3. SameBut(c, d, next)
  BY <1>1, <1>2 DEF SameBut, Call
<1>4. call' = [call EXCEPT ![t] = d]
  BY DEF Go
<1> HIDE DEF d
<1>5. call' \in Calls /\ call'[t] = d /\ OthersStay(t)
  BY <1>1, <1>2, <1>4 DEF Calls, OthersStay
<1>6. d # None
  BY <1>2, NoneAssumption
<1> QED
  BY <1>3, <1>5, <1>6

LEMMA CallReturns ==
  ASSUME TypeOK, NEW t \in Threads, Return(t)
  PROVE  call' \in Calls /\ call'[t] = None /\ OthersStay(t)
BY DEF TypeOK, Calls, Return, OthersStay

LEMMA CallBegins ==
  ASSUME TypeOK, NEW t \in Threads, NEW c \in Call, Begin(t, c)
  PROVE  /\ call' \in Calls /\ call'[t] = c /\ c # None /\ OthersStay(t)
         /\ steady' \in [Threads -> BOOLEAN]
         /\ steady'[t] = Whole
         /\ \A o \in Threads : o # t => steady'[o] = steady[o]
BY NoneAssumption DEF TypeOK, Calls, Begin, OthersStay, Whole

LEMMA LookupTyped ==
  ASSUME TypeOK, NEW u \in Accounts \cup {None}, NEW s, NEW i \in Lookup(u, s), i # None
  PROVE  i \in 1 .. MaxRows /\ rows[i] \in Row
BY DEF Lookup, Live, TypeOK

\* The call that get_pass_for has under way once its row is fetched.
LEMMA FetchedTyped ==
  ASSUME TypeOK, NEW s \in Services, NEW i \in 1 .. MaxRows, rows[i] \in Row
  PROVE  LET c == [New("get", s, "check key") EXCEPT
                     !.row = i, !.user = rows[i].user, !.sealed = rows[i].key]
         IN  /\ c \in Call /\ c.op = "get" /\ c.next = "check key"
             /\ c.sealed = rows[i].key /\ c.row = i
BY DEF New, Call, Row

LEMMA ReplyTyped ==
  ASSUME TypeOK, NEW t \in Threads, call[t] # None, call[t].op \in VaultOps,
         NEW result \in {"success", "failure", "raised"}, Reply(t, result)
  PROVE  /\ call' \in Calls /\ call'[t] = None /\ OthersStay(t)
         /\ answer' \in Answer
         /\ answer'.op = call[t].op /\ answer'.result = result /\ answer'.steady = steady[t]
<1>1. Return(t) /\ steady[t] \in BOOLEAN
  BY DEF Reply, TypeOK
<1>2. answer' = [op |-> call[t].op, result |-> result, steady |-> steady[t]]
  BY DEF Reply
<1> QED
  BY <1>1, <1>2, CallReturns DEF Answer, VaultOps

----------------------------------------------------------------------------
(* Preservation, one lemma for the session and one for the vault *)

\* A step that leaves user_id and the DEK alone, and whose thread was not about
\* to assign one of them, repairs nothing and breaks nothing.
LEMMA SessionUntouched ==
  ASSUME IInv, NEW t \in Threads, OthersStay(t), UNCHANGED <<uid, dek, overtaken>>,
         call[t] # None => call[t].next \notin {"set dek", "clear uid"},
         call'[t] # None => (call'[t].next = "set uid" => call'[t].op = "login")
  PROVE  /\ (uid # None /\ dek = None /\ ~overtaken => Repairing)'
         /\ (Restoring /\ ~overtaken => dek # None)'
BY DEF IInv, Repairing, OthersStay, Restoring, At

LEMMA BeginsWell ==
  ASSUME IInv, NEW t \in Threads, NEW c, Fresh(c), Begin(t, c),
         UNCHANGED <<uid, dek, rows, answer, overtaken>>
  PROVE  IInv'
<1>1. /\ call' \in Calls /\ call'[t] = c /\ c # None /\ OthersStay(t)
      /\ steady' \in [Threads -> BOOLEAN]
  BY CallBegins DEF IInv, Fresh
<1>2. TypeOK'
  BY <1>1 DEF IInv, TypeOK, Calls
<1>3. (\A o \in Threads : call[o] # None => ArgsOK(call[o]) /\ RowOK(call[o]))'
  BY <1>1 DEF IInv, OthersStay, ArgsOK, RowOK, Fresh
<1>4. call[t] = None
  BY DEF Begin
<1> QED
  BY <1>1, <1>2, <1>3, <1>4, SessionUntouched DEF IInv, Fresh

LEMMA SessionSteps ==
  ASSUME IInv, NEW t \in Threads,
         \/ \E a \in Accounts : Login(t, a) \/ RestoreSession(t, a)
         \/ SetUid(t) \/ SetDek(t)
         \/ Logout(t) \/ CheckUid(t) \/ ClearDek(t) \/ ClearUid(t)
  PROVE  IInv'
<1> USE DEF Nexts
<1>1. ASSUME NEW a \in Accounts, Login(t, a) PROVE IInv'
  <2>1. Fresh(New("login", a, "set uid"))
    BY DEF Fresh, ArgsOK, RowOK, New, Call
  <2>2. Begin(t, New("login", a, "set uid")) /\ UNCHANGED <<uid, dek, rows, answer, overtaken>>
    BY <1>1 DEF Login
  <2> QED
    BY <2>1, <2>2, BeginsWell
<1>2. ASSUME NEW a \in Accounts, RestoreSession(t, a) PROVE IInv'
  <2>1. Fresh(New("restore", a, "set dek"))
    BY DEF Fresh, ArgsOK, RowOK, New, Call
  <2>2. Begin(t, New("restore", a, "set dek")) /\ UNCHANGED <<uid, dek, rows, answer, overtaken>>
    BY <1>2 DEF RestoreSession
  <2> QED
    BY <2>1, <2>2, BeginsWell
<1>3. ASSUME NEW next \in {"set uid", "set dek"}, Go(t, next) \/ Return(t), call[t] # None
      PROVE  /\ call' \in Calls /\ OthersStay(t)
             /\ Go(t, next) => call'[t] # None /\ SameBut(call[t], call'[t], next)
             /\ Return(t) => call'[t] = None
  BY <1>3, CallGoes, CallReturns DEF IInv
<1>4. CASE SetUid(t)
  <2>1. /\ call[t] # None /\ call[t].arg \in Accounts /\ call[t].next = "set uid"
        /\ uid' = call[t].arg /\ Assigned /\ UNCHANGED <<dek, rows, answer, overtaken>>
    BY <1>4 DEF SetUid, At, IInv, ArgsOK
  <2>2. /\ call' \in Calls /\ OthersStay(t)
        /\ call[t].op = "login" => call'[t] # None /\ SameBut(call[t], call'[t], "set dek")
        /\ call[t].op # "login" => call'[t] = None
    BY <1>3, <1>4, <2>1 DEF SetUid
  <2>3. TypeOK'
    BY <2>1, <2>2 DEF Assigned, IInv, TypeOK, Calls
  <2>4. (\A o \in Threads : call[o] # None => ArgsOK(call[o]) /\ RowOK(call[o]))'
    <3>1. ASSUME NEW o \in Threads, o # t, call'[o] # None PROVE ArgsOK(call'[o]) /\ RowOK(call[o])'
      BY <2>1, <2>2, <3>1 DEF IInv, OthersStay, RowOK
    <3>2. ASSUME call'[t] # None PROVE ArgsOK(call'[t]) /\ RowOK(call[t])'
      BY <2>1, <2>2, <3>2 DEF IInv, ArgsOK, RowOK, SameBut
    <3> QED
      BY <3>1, <3>2
  <2>5. (Restoring /\ ~overtaken => dek # None)'
    BY <2>1, <2>2 DEF IInv, Restoring, At, OthersStay, SameBut
  <2>6. CASE call[t].op = "login"
    <3>1. Repairing'
      BY <2>2, <2>6 DEF Repairing, SameBut
    <3> QED
      BY <2>3, <2>4, <2>5, <3>1 DEF IInv
  <2>7. CASE call[t].op # "login"
    <3>1. call[t].op = "restore"
      BY <2>1, <2>7 DEF IInv, ArgsOK
    <3>2. ~overtaken => dek # None
      BY <2>1, <3>1 DEF IInv, Restoring, At
    <3> QED
      BY <2>1, <2>3, <2>4, <2>5, <3>2 DEF IInv
  <2> QED
    BY <2>6, <2>7
<1>5. CASE SetDek(t)
  <2>1. /\ call[t] # None /\ call[t].arg \in Accounts /\ call[t].next = "set dek"
        /\ dek' = call[t].arg /\ Assigned /\ UNCHANGED <<uid, rows, answer, overtaken>>
    BY <1>5 DEF SetDek, At, IInv, ArgsOK
  <2>2. /\ call' \in Calls /\ OthersStay(t)
        /\ call'[t] # None => call[t].op = "restore" /\ SameBut(call[t], call'[t], "set uid")
    BY <1>3, <1>5, <2>1 DEF SetDek
  <2>3. TypeOK' /\ dek' # None
    BY <2>1, <2>2, NoneAssumption DEF Assigned, IInv, TypeOK, Calls
  <2>4. (\A o \in Threads : call[o] # None => ArgsOK(call[o]) /\ RowOK(call[o]))'
    BY <2>1, <2>2 DEF IInv, OthersStay, ArgsOK, RowOK, SameBut
  <2> QED
    BY <2>3, <2>4 DEF IInv
<1>6. CASE Logout(t)
  <2>1. Fresh(New("logout", None, "check uid"))
    BY DEF Fresh, ArgsOK, RowOK, New, Call
  <2>2. Begin(t, New("logout", None, "check uid")) /\ UNCHANGED <<uid, dek, rows, answer, overtaken>>
    BY <1>6 DEF Logout
  <2> QED
    BY <2>1, <2>2, BeginsWell
<1>7. CASE CheckUid(t)
  <2>1. /\ call[t] # None /\ call[t].next = "check uid"
        /\ UNCHANGED <<uid, dek, rows, answer, steady, overtaken>>
    BY <1>7 DEF CheckUid, At
  <2>2. /\ call' \in Calls /\ OthersStay(t)
        /\ call'[t] # None => SameBut(call[t], call'[t], "clear dek")
    BY <1>7, <2>1, CallGoes, CallReturns DEF CheckUid, IInv
  <2>3. TypeOK'
    BY <2>1, <2>2 DEF IInv, TypeOK, Calls
  <2>4. (call[t] # None => ArgsOK(call[t]) /\ RowOK(call[t]))'
    BY <2>1, <2>2 DEF IInv, ArgsOK, RowOK, SameBut
  <2> QED
    BY <2>1, <2>2, <2>3, <2>4, SessionUntouched DEF IInv, OthersStay, SameBut, ArgsOK, RowOK
<1>8. CASE ClearDek(t)
  <2>1. call[t] # None /\ call[t].next = "clear dek" /\ Go(t, "clear uid")
    BY <1>8 DEF ClearDek, At
  <2>2. /\ call' \in Calls /\ call'[t] # None
        /\ SameBut(call[t], call'[t], "clear uid") /\ OthersStay(t)
    BY <2>1, CallGoes DEF IInv
  <2>3. TypeOK'
    BY <1>8, <2>2 DEF ClearDek, Assigned, IInv, TypeOK, Calls, Restoring
  <2>4. (\A o \in Threads : call[o] # None => ArgsOK(call[o]) /\ RowOK(call[o]))'
    BY <1>8, <2>1, <2>2 DEF ClearDek, IInv, OthersStay, ArgsOK, RowOK, SameBut
  <2>5. Repairing'
    BY <2>2 DEF Repairing, SameBut
  <2>6. Restoring' => overtaken'
    BY <1>8, <2>1, <2>2 DEF ClearDek, Restoring, At, OthersStay, SameBut
  <2> QED
    BY <2>3, <2>4, <2>5, <2>6 DEF IInv
<1>9. CASE ClearUid(t)
  <2>1. Return(t) /\ uid' = None
    BY <1>9 DEF ClearUid
  <2>2. call' \in Calls /\ call'[t] = None /\ OthersStay(t)
    BY <2>1, CallReturns DEF IInv
  <2>3. TypeOK'
    BY <1>9, <2>2 DEF ClearUid, Assigned, IInv, TypeOK, Calls
  <2> QED
    BY <1>9, <2>1, <2>2, <2>3 DEF IInv, OthersStay, ArgsOK, RowOK, ClearUid, Restoring, At
<1> QED
  BY <1>1, <1>2, <1>4, <1>5, <1>6, <1>7, <1>8, <1>9

LEMMA AnsweredWell ==
  ASSUME IInv, NEW t \in Threads, call[t] # None, call[t].op \in VaultOps,
         call[t].next \notin {"set dek", "clear uid"},
         NEW result \in {"success", "failure", "raised"}, Reply(t, result),
         rows' \in [1 .. MaxRows -> Row \cup {None}],
         \A i \in 1 .. MaxRows : rows[i] # None => rows'[i] # None,
         UNCHANGED <<uid, dek, steady, overtaken>>
  PROVE  IInv'
<1>1. call' \in Calls /\ call'[t] = None /\ OthersStay(t) /\ answer' \in Answer
  BY ReplyTyped DEF IInv
<1>2. TypeOK'
  BY <1>1 DEF IInv, TypeOK, Calls
<1>3. (\A o \in Threads : call[o] # None => ArgsOK(call[o]) /\ RowOK(call[o]))'
  <2> SUFFICES ASSUME NEW o \in Threads, call'[o] # None
               PROVE  ArgsOK(call[o])' /\ RowOK(call[o])'
    OBVIOUS
  <2>1. call'[o] = call[o] /\ call[o] \in Call
    BY <1>1, CallTyped DEF IInv, OthersStay
  <2> QED
    BY <2>1 DEF IInv, ArgsOK, RowOK, Call
<1> QED
  BY <1>1, <1>2, <1>3, SessionUntouched DEF IInv

\* A step of one call that neither answers nor touches anything but the call.
LEMMA GoesWell ==
  ASSUME IInv, NEW t \in Threads, call[t] # None,
         call[t].next \notin {"set dek", "clear uid"},
         call' \in Calls, OthersStay(t), call'[t] # None, ArgsOK(call'[t]), RowOK(call'[t]),
         call'[t].next # "set uid",
         UNCHANGED <<uid, dek, rows, answer, steady, overtaken>>
  PROVE  IInv'
<1>1. TypeOK'
  BY DEF IInv, TypeOK, Calls
<1>2. (\A o \in Threads : call[o] # None => ArgsOK(call[o]) /\ RowOK(call[o]))'
  BY DEF IInv, OthersStay, ArgsOK, RowOK
<1> QED
  BY <1>1, <1>2, SessionUntouched DEF IInv

LEMMA VaultBegins ==
  ASSUME IInv, NEW t \in Threads,
         \/ \E s \in Services : GetPassword(t, s) \/ SetPassword(t, s) \/ DeletePassword(t, s)
         \/ ListServices(t) \/ ListEntries(t)
  PROVE  IInv'
<1> USE DEF Nexts
<1>1. ASSUME NEW op \in VaultOps, NEW arg \in Services \cup {None},
             op = "set" => arg \in Services
      PROVE  Fresh(New(op, arg, "check key"))
  <2>1. New(op, arg, "check key") \in Call
    BY DEF New, Call, VaultOps
  <2>2. ArgsOK(New(op, arg, "check key")) /\ RowOK(New(op, arg, "check key"))
    BY <1>1 DEF ArgsOK, RowOK, New, VaultOps
  <2> QED
    BY <2>1, <2>2 DEF Fresh, New
<1>2. ASSUME NEW s \in Services, SetPassword(t, s) PROVE IInv'
  <2>1. Fresh(New("set", s, "check key"))
    BY <1>1 DEF VaultOps
  <2>2. Begin(t, New("set", s, "check key")) /\ UNCHANGED <<uid, dek, rows, answer, overtaken>>
    BY <1>2 DEF SetPassword
  <2> QED
    BY <2>1, <2>2, BeginsWell
<1>3. ASSUME NEW s \in Services, DeletePassword(t, s) PROVE IInv'
  <2>1. Fresh(New("delete", s, "check key"))
    BY <1>1 DEF VaultOps
  <2>2. Begin(t, New("delete", s, "check key")) /\ UNCHANGED <<uid, dek, rows, answer, overtaken>>
    BY <1>3 DEF DeletePassword
  <2> QED
    BY <2>1, <2>2, BeginsWell
<1>4. ASSUME ListServices(t) PROVE IInv'
  <2>1. Fresh(New("services", None, "check key"))
    BY <1>1 DEF VaultOps
  <2>2. Begin(t, New("services", None, "check key")) /\ UNCHANGED <<uid, dek, rows, answer, overtaken>>
    BY <1>4 DEF ListServices
  <2> QED
    BY <2>1, <2>2, BeginsWell
<1>5. ASSUME ListEntries(t) PROVE IInv'
  <2>1. Fresh(New("entries", None, "check key"))
    BY <1>1 DEF VaultOps
  <2>2. Begin(t, New("entries", None, "check key")) /\ UNCHANGED <<uid, dek, rows, answer, overtaken>>
    BY <1>5 DEF ListEntries
  <2> QED
    BY <2>1, <2>2, BeginsWell
<1>6. ASSUME NEW s \in Services, GetPassword(t, s) PROVE IInv'
  <2> DEFINE Fetched(i) == [New("get", s, "check key") EXCEPT
                              !.row = i, !.user = rows[i].user, !.sealed = rows[i].key]
  <2>1. PICK i \in Lookup(uid, s) :
          Begin(t, IF i = None THEN New("get", s, "check key") ELSE Fetched(i))
    BY <1>6 DEF GetPassword
  <2>2. UNCHANGED <<uid, dek, rows, answer, overtaken>>
    BY <1>6 DEF GetPassword
  <2>3. CASE i = None
    <3>1. Fresh(New("get", s, "check key"))
      BY <1>1 DEF VaultOps
    <3> QED
      BY <2>1, <2>2, <2>3, <3>1, BeginsWell
  <2>4. CASE i # None
    <3>1. i \in 1 .. MaxRows /\ rows[i] \in Row
      BY <2>4, LookupTyped DEF IInv, TypeOK
    <3>2. /\ Fetched(i) \in Call /\ Fetched(i).op = "get" /\ Fetched(i).next = "check key"
          /\ Fetched(i).sealed = rows[i].key /\ Fetched(i).row = i
      BY <3>1, FetchedTyped DEF IInv
    <3> HIDE DEF Fetched
    <3>3. Fresh(Fetched(i))
      BY <3>1, <3>2, NoneAssumption DEF Fresh, ArgsOK, RowOK, VaultOps, Row
    <3> QED
      BY <2>1, <2>2, <2>4, <3>3, BeginsWell
  <2> QED
    BY <2>3, <2>4
<1> QED
  BY <1>2, <1>3, <1>4, <1>5, <1>6

LEMMA VaultSteps ==
  ASSUME IInv, NEW t \in Threads,
         \/ CheckKey(t) \/ ReadKey(t)
         \/ Decrypt(t) \/ Listed(t) \/ Decrypted(t)
         \/ FindEntry(t) \/ DeleteEntry(t)
         \/ AssertUid(t) \/ ReadUid(t) \/ LookUp(t) \/ CommitPassword(t)
  PROVE  IInv'
<1> USE DEF Nexts
<1> DEFINE c == call[t]
<1>1. /\ c # None /\ c \in Call /\ ArgsOK(c) /\ RowOK(c) /\ call \in Calls
      /\ c.next \in {"check key", "read key", "decrypt", "query", "delete", "assert uid",
                     "read uid", "look up", "commit"}
      /\ c.op \in VaultOps
      /\ UNCHANGED <<uid, dek, steady, overtaken>>
  <2>1. /\ c # None
        /\ c.next \in {"check key", "read key", "decrypt", "query", "delete", "assert uid",
                     "read uid", "look up", "commit"}
        /\ UNCHANGED <<uid, dek, steady, overtaken>>
    BY DEF CheckKey, ReadKey, Decrypt, Listed, Decrypted, FindEntry, DeleteEntry, AssertUid,
           ReadUid, LookUp, CommitPassword, At
  <2>2. c \in Call /\ ArgsOK(c) /\ RowOK(c) /\ call \in Calls
    BY <2>1, CallTyped DEF IInv
  <2> QED
    BY <2>1, <2>2 DEF ArgsOK, VaultOps
<1>2. ASSUME NEW result \in {"success", "failure", "raised"}, Reply(t, result), UNCHANGED rows
      PROVE  IInv'
  BY <1>1, <1>2, AnsweredWell DEF IInv, TypeOK
<1>3. CASE CheckKey(t)
  <2>1. \/ \E result \in {"failure", "raised"} : Reply(t, result)
        \/ Go(t, "read key") /\ UNCHANGED answer /\ (c.op = "get" => c.row # None)
    BY <1>3 DEF CheckKey, Missing
  <2>2. UNCHANGED rows
    BY <1>3 DEF CheckKey
  <2>3. ASSUME Go(t, "read key"), UNCHANGED answer, c.op = "get" => c.row # None
        PROVE  IInv'
    <3>1. call' \in Calls /\ call'[t] # None /\ SameBut(c, call'[t], "read key") /\ OthersStay(t)
      BY <1>1, <2>3, CallGoes DEF IInv
    <3>2. ArgsOK(call'[t]) /\ RowOK(call'[t])
      BY <1>1, <2>3, <3>1 DEF ArgsOK, RowOK, SameBut
    <3> QED
      BY <1>1, <2>2, <2>3, <3>1, <3>2, GoesWell DEF SameBut
  <2> QED
    BY <1>2, <2>1, <2>2, <2>3
<1>4. CASE ReadKey(t)
  <2> DEFINE next == CASE c.op = "get" -> "decrypt" [] c.op = "set" -> "assert uid" [] OTHER -> "query"
             d == [c EXCEPT !.key = dek, !.next = next]
  <2>1. call' = [call EXCEPT ![t] = d]
    BY <1>4 DEF ReadKey
  <2>2. next \in {"decrypt", "assert uid", "query"} /\ dek \in Accounts \cup {None}
    BY DEF IInv, TypeOK
  <2>3. d \in Call
    BY <1>1, <2>2 DEF Call
  <2>4. /\ d.op = c.op /\ d.arg = c.arg /\ d.sealed = c.sealed /\ d.row = c.row /\ d.next = next
    BY <1>1 DEF Call
  <2>5. ArgsOK(d) /\ RowOK(d)
    <3>1. c.next = "read key"
      BY <1>4 DEF ReadKey, At
    <3>2. /\ next = "decrypt" <=> c.op = "get"
          /\ next = "assert uid" <=> c.op = "set"
      OBVIOUS
    <3> HIDE DEF d, next
    <3> QED
      BY <1>1, <2>2, <2>4, <3>1, <3>2 DEF ArgsOK, RowOK, VaultOps
  <2> HIDE DEF d
  <2>6. call' \in Calls /\ call'[t] = d /\ d # None /\ OthersStay(t)
    BY <1>1, <2>1, <2>3, NoneAssumption DEF Calls, OthersStay
  <2>7. UNCHANGED <<rows, answer>>
    BY <1>4 DEF ReadKey
  <2> QED
    BY <1>1, <2>2, <2>4, <2>5, <2>6, <2>7, GoesWell
<1>5. CASE Decrypt(t)
  BY <1>2, <1>5 DEF Decrypt
<1>6. CASE Listed(t)
  BY <1>2, <1>6 DEF Listed
<1>7. CASE Decrypted(t)
  BY <1>2, <1>7 DEF Decrypted
<1>8. CASE FindEntry(t)
  <2>1. PICK i \in Lookup(uid, c.arg) :
          IF i = None THEN Reply(t, "failure")
                      ELSE /\ call' = [call EXCEPT ![t].row = i, ![t].next = "delete"]
                           /\ UNCHANGED answer
    BY <1>8 DEF FindEntry
  <2>2. UNCHANGED rows /\ c.next = "query" /\ c.op = "delete"
    BY <1>8 DEF FindEntry, At
  <2>3. CASE i = None
    BY <1>2, <2>1, <2>2, <2>3
  <2>4. CASE i # None
    <3> DEFINE d == [c EXCEPT !.row = i, !.next = "delete"]
    <3>1. i \in 1 .. MaxRows /\ rows[i] # None
      BY <2>4, LookupTyped, NoneAssumption DEF IInv, TypeOK
    <3>2. /\ d \in Call /\ d.op = c.op /\ d.arg = c.arg /\ d.key = c.key /\ d.user = c.user
          /\ d.sealed = c.sealed /\ d.row = i /\ d.next = "delete"
      BY <1>1, <3>1 DEF Call
    <3>3. call' = [call EXCEPT ![t] = d] /\ UNCHANGED answer
      BY <2>1, <2>4
    <3> HIDE DEF d
    <3>4. ArgsOK(d) /\ RowOK(d)
      BY <1>1, <2>2, <2>4, <3>1, <3>2 DEF ArgsOK, RowOK
    <3>5. call' \in Calls /\ call'[t] = d /\ d # None /\ OthersStay(t)
      BY <1>1, <3>2, <3>3, NoneAssumption DEF Calls, OthersStay
    <3> QED
      BY <1>1, <2>2, <3>2, <3>3, <3>4, <3>5, GoesWell
  <2> QED
    BY <2>3, <2>4
<1>9. CASE DeleteEntry(t)
  <2>1. c.row # None /\ Reply(t, "success") /\ rows' = [rows EXCEPT ![c.row].live = FALSE]
    BY <1>1, <1>9 DEF DeleteEntry, At, ArgsOK
  <2>2. c.row \in 1 .. MaxRows /\ rows[c.row] \in Row
    BY <1>1, <2>1 DEF Call, RowOK, IInv, TypeOK
  <2>3. [rows[c.row] EXCEPT !.live = FALSE] \in Row
    BY <2>2 DEF Row
  <2>4. /\ rows' \in [1 .. MaxRows -> Row \cup {None}]
        /\ \A j \in 1 .. MaxRows : rows[j] # None => rows'[j] # None
    BY <2>1, <2>2, <2>3, NoneAssumption DEF IInv, TypeOK
  <2> QED
    BY <1>1, <2>1, <2>4, AnsweredWell
<1>10. CASE AssertUid(t)
  <2>1. \/ \E result \in {"failure", "raised"} : Reply(t, result)
        \/ c.key # None /\ Go(t, "read uid") /\ UNCHANGED answer
    BY <1>10 DEF AssertUid
  <2>2. UNCHANGED rows /\ c.next = "assert uid"
    BY <1>10 DEF AssertUid, At
  <2>3. ASSUME c.key # None, Go(t, "read uid"), UNCHANGED answer
        PROVE  IInv'
    <3>1. call' \in Calls /\ call'[t] # None /\ SameBut(c, call'[t], "read uid") /\ OthersStay(t)
      BY <1>1, <2>3, CallGoes DEF IInv
    <3>2. c.key \in Accounts
      BY <1>1, <2>3 DEF Call
    <3>3. ArgsOK(call'[t]) /\ RowOK(call'[t])
      BY <1>1, <2>2, <3>1, <3>2 DEF ArgsOK, RowOK, SameBut
    <3> QED
      BY <1>1, <2>2, <2>3, <3>1, <3>3, GoesWell DEF SameBut
  <2> QED
    BY <1>2, <2>1, <2>2, <2>3
<1>11. CASE ReadUid(t)
  <2>1. \/ Reply(t, "failure")
        \/ /\ uid # None
           /\ call' = [call EXCEPT ![t].user = uid, ![t].next = "look up"]
           /\ UNCHANGED answer
    BY <1>11 DEF ReadUid
  <2>2. UNCHANGED rows /\ c.next = "read uid" /\ c.key \in Accounts
    BY <1>1, <1>11 DEF ReadUid, At, ArgsOK
  <2>3. ASSUME uid # None, UNCHANGED answer,
               call' = [call EXCEPT ![t].user = uid, ![t].next = "look up"]
        PROVE  IInv'
    <3> DEFINE d == [c EXCEPT !.user = uid, !.next = "look up"]
    <3>1. uid \in Accounts
      BY <2>3 DEF IInv, TypeOK
    <3>2. /\ d \in Call /\ d.op = c.op /\ d.arg = c.arg /\ d.key = c.key /\ d.user = uid
          /\ d.sealed = c.sealed /\ d.row = c.row /\ d.next = "look up"
      BY <1>1, <3>1 DEF Call
    <3>3. call' = [call EXCEPT ![t] = d]
      BY <2>3
    <3> HIDE DEF d
    <3>4. ArgsOK(d) /\ RowOK(d)
      BY <1>1, <2>2, <3>1, <3>2 DEF ArgsOK, RowOK
    <3>5. call' \in Calls /\ call'[t] = d /\ d # None /\ OthersStay(t)
      BY <1>1, <3>2, <3>3, NoneAssumption DEF Calls, OthersStay
    <3> QED
      BY <1>1, <2>2, <2>3, <3>2, <3>4, <3>5, GoesWell
  <2> QED
    BY <1>2, <2>1, <2>2, <2>3
<1>12. CASE LookUp(t)
  <2>1. PICK i \in Lookup(uid, c.arg) :
          call' = [call EXCEPT ![t].row = i, ![t].next = "commit"]
    BY <1>12 DEF LookUp
  <2>2. UNCHANGED <<rows, answer>> /\ c.next = "look up"
    BY <1>12 DEF LookUp, At
  <2> DEFINE d == [c EXCEPT !.row = i, !.next = "commit"]
  <2>3. i \in 1 .. MaxRows \cup {None} /\ (i # None => rows[i] # None)
    BY LookupTyped, NoneAssumption DEF IInv, TypeOK
  <2>4. /\ d \in Call /\ d.op = c.op /\ d.arg = c.arg /\ d.key = c.key /\ d.user = c.user
        /\ d.sealed = c.sealed /\ d.row = i /\ d.next = "commit"
    BY <1>1, <2>3 DEF Call
  <2>5. call' = [call EXCEPT ![t] = d]
    BY <2>1
  <2> HIDE DEF d
  <2>6. ArgsOK(d) /\ RowOK(d)
    BY <1>1, <2>2, <2>3, <2>4 DEF ArgsOK, RowOK
  <2>7. call' \in Calls /\ call'[t] = d /\ d # None /\ OthersStay(t)
    BY <1>1, <2>4, <2>5, NoneAssumption DEF Calls, OthersStay
  <2> QED
    BY <1>1, <2>2, <2>4, <2>6, <2>7, GoesWell
<1>13. CASE CommitPassword(t)
  <2>1. c.key \in Accounts /\ c.user \in Accounts /\ c.arg \in Services
    BY <1>1, <1>13 DEF CommitPassword, At, ArgsOK
  <2>2. Reply(t, "success")
    BY <1>13 DEF CommitPassword
  <2>3. /\ rows' \in [1 .. MaxRows -> Row \cup {None}]
        /\ \A i \in 1 .. MaxRows : rows[i] # None => rows'[i] # None
    <3>1. CASE c.row = None
      <4> DEFINE new == [user |-> c.user, service |-> c.arg, key |-> c.key, live |-> TRUE]
      <4>1. new \in Row
        BY <2>1 DEF Row
      <4>2. \E i \in 1 .. MaxRows : rows' = [rows EXCEPT ![i] = new]
        BY <1>13, <3>1 DEF CommitPassword
      <4> QED
        BY <4>1, <4>2, NoneAssumption DEF IInv, TypeOK
    <3>2. CASE c.row # None
      <4>1. rows' = [rows EXCEPT ![c.row].key = c.key]
        BY <1>13, <3>2 DEF CommitPassword
      <4>2. c.row \in 1 .. MaxRows /\ rows[c.row] \in Row
        BY <1>1, <3>2 DEF Call, RowOK, IInv, TypeOK
      <4>3. [rows[c.row] EXCEPT !.key = c.key] \in Row
        BY <2>1, <4>2 DEF Row
      <4> QED
        BY <4>1, <4>2, <4>3, NoneAssumption DEF IInv, TypeOK
    <3> QED
      BY <3>1, <3>2
  <2> QED
    BY <1>1, <2>2, <2>3, AnsweredWell
<1> QED
  BY <1>3, <1>4, <1>5, <1>6, <1>7, <1>8, <1>9, <1>10, <1>11, <1>12, <1>13

THEOREM Invariance == Spec => []IInv
<1>1. Init => IInv
  <2> SUFFICES ASSUME Init PROVE IInv
    OBVIOUS
  <2>1. TypeOK
    BY DEF Init, TypeOK
  <2> QED
    BY <2>1 DEF Init, IInv, Restoring, At
<1>2. IInv /\ [Next]_vars => IInv'
  <2> SUFFICES ASSUME IInv, [Next]_vars PROVE IInv'
    OBVIOUS
  <2>1. CASE Next
    <3>1. PICK t \in Threads :
            \/ \E a \in Accounts : Login(t, a) \/ RestoreSession(t, a)
            \/ SetUid(t) \/ SetDek(t)
            \/ Logout(t) \/ CheckUid(t) \/ ClearDek(t) \/ ClearUid(t)
            \/ \E s \in Services : GetPassword(t, s) \/ SetPassword(t, s) \/ DeletePassword(t, s)
            \/ ListServices(t) \/ ListEntries(t)
            \/ CheckKey(t) \/ ReadKey(t)
            \/ Decrypt(t) \/ Listed(t) \/ Decrypted(t)
            \/ FindEntry(t) \/ DeleteEntry(t)
            \/ AssertUid(t) \/ ReadUid(t) \/ LookUp(t) \/ CommitPassword(t)
      BY <2>1 DEF Next
    <3> QED
      BY <3>1, SessionSteps, VaultBegins, VaultSteps
  <2>2. CASE UNCHANGED vars
    BY <2>2 DEF vars, IInv, TypeOK, ArgsOK, RowOK, Repairing, Restoring, At
  <2> QED
    BY <2>1, <2>2
<1> QED
  BY <1>1, <1>2, PTL DEF Spec

\* TypeOK: the session, the rows and the calls of the threads keep their types
\* (user_manager.py, password_manager.py).
THEOREM Typing == Spec => []TypeOK
<1>1. IInv => TypeOK
  BY DEF IInv
<1> QED
  BY <1>1, Invariance, PTL

\* NeverStuck: however the logins, restores and logouts of any threads race,
\* they never leave a user_id without a DEK, unless a logout overtook a restore
\* (login, login_by_dek, logout).
THEOREM SessionNeverStuck == Spec => []NeverStuck
<1>1. IInv => NeverStuck
  BY DEF IInv, NeverStuck, Repairing
<1> QED
  BY <1>1, Invariance, PTL

----------------------------------------------------------------------------
(* What a steady session is answered *)

OneAccount == \A a, b \in Accounts : a = b

\* The steps that use the session key a call has read.
Keyed == {"decrypt", "query", "assert uid", "read uid", "look up", "commit"}

\* While a session lasts, it is whole, and a call has read its key.
Sound(t) ==
  steady[t] /\ call[t] # None =>
    Whole /\ (call[t].next \in Keyed => call[t].key = uid)

SteadyInv == IInv /\ SteadyAnswers /\ \A t \in Threads : Sound(t)

\* An answer that a steady session may get.
Allowed(t, result) ==
  steady[t] => /\ result # "raised"
               /\ call[t].op \in {"services", "entries", "set"} => result = "success"

LEMMA AnsweredSteadily ==
  ASSUME SteadyInv, NEW t \in Threads, call[t] # None, call[t].op \in VaultOps,
         NEW result \in {"success", "failure", "raised"}, Reply(t, result),
         Allowed(t, result), UNCHANGED <<uid, dek, steady>>
  PROVE  SteadyAnswers' /\ \A o \in Threads : Sound(o)'
<1>1. /\ call'[t] = None /\ OthersStay(t)
      /\ answer'.op = call[t].op /\ answer'.result = result /\ answer'.steady = steady[t]
  BY ReplyTyped DEF SteadyInv, IInv
<1> QED
  BY <1>1 DEF SteadyInv, SteadyAnswers, Allowed, Sound, OthersStay, Whole

\* A step of one call, none of whose threads' sessions it touches.
LEMMA GoesSteadily ==
  ASSUME SteadyInv, NEW t \in Threads, OthersStay(t), UNCHANGED <<uid, dek, answer, steady>>,
         steady[t] /\ call'[t] # None =>
           call[t] # None /\ (call'[t].next \in Keyed => call'[t].key = uid)
  PROVE  SteadyAnswers' /\ \A o \in Threads : Sound(o)'
BY DEF SteadyInv, SteadyAnswers, Sound, OthersStay, Whole

LEMMA BeginsSteadily ==
  ASSUME SteadyInv, NEW t \in Threads, NEW c \in Call, Begin(t, c), c.next \notin Keyed,
         UNCHANGED <<uid, dek, rows, answer>>
  PROVE  SteadyAnswers' /\ \A o \in Threads : Sound(o)'
<1>1. /\ call'[t] = c /\ OthersStay(t) /\ steady'[t] = Whole
      /\ \A o \in Threads : o # t => steady'[o] = steady[o]
  BY CallBegins DEF SteadyInv, IInv
<1> QED
  BY <1>1 DEF SteadyInv, SteadyAnswers, Sound, OthersStay, Whole

LEMMA AssignedSteadily ==
  ASSUME SteadyInv, Assigned, UNCHANGED answer
  PROVE  SteadyAnswers' /\ \A o \in Threads : Sound(o)'
BY DEF SteadyInv, SteadyAnswers, Sound, Assigned

LEMMA SteadyBegins ==
  ASSUME SteadyInv, NEW t \in Threads,
         \/ \E a \in Accounts : Login(t, a) \/ RestoreSession(t, a)
         \/ Logout(t)
         \/ \E s \in Services : GetPassword(t, s) \/ SetPassword(t, s) \/ DeletePassword(t, s)
         \/ ListServices(t) \/ ListEntries(t)
  PROVE  SteadyAnswers' /\ \A o \in Threads : Sound(o)'
<1>1. ASSUME NEW op \in {"login", "restore", "logout"} \cup VaultOps,
             NEW arg \in Accounts \cup Services \cup {None},
             NEW next \in {"set uid", "set dek", "check uid", "check key"}
      PROVE  New(op, arg, next) \in Call /\ New(op, arg, next).next \notin Keyed
  BY DEF New, Call, VaultOps, Keyed
<1>2. UNCHANGED <<uid, dek, rows, answer>>
  BY DEF Login, RestoreSession, Logout, GetPassword, SetPassword, DeletePassword, ListServices, ListEntries
<1>3. \E c \in Call : Begin(t, c) /\ c.next \notin Keyed
  <2>1. ASSUME NEW a \in Accounts, Login(t, a) \/ RestoreSession(t, a)
        PROVE  \E c \in Call : Begin(t, c) /\ c.next \notin Keyed
    BY <1>1, <2>1 DEF Login, RestoreSession
  <2>2. CASE Logout(t)
    BY <1>1, <2>2 DEF Logout
  <2>3. ASSUME NEW s \in Services, SetPassword(t, s)
        PROVE  \E c \in Call : Begin(t, c) /\ c.next \notin Keyed
    BY <1>1, <2>3 DEF SetPassword, VaultOps
  <2>4. ASSUME NEW s \in Services, DeletePassword(t, s)
        PROVE  \E c \in Call : Begin(t, c) /\ c.next \notin Keyed
    BY <1>1, <2>4 DEF DeletePassword, VaultOps
  <2>5. CASE ListServices(t)
    BY <1>1, <2>5 DEF ListServices, VaultOps
  <2>6. CASE ListEntries(t)
    BY <1>1, <2>6 DEF ListEntries, VaultOps
  <2>7. ASSUME NEW s \in Services, GetPassword(t, s)
        PROVE  \E c \in Call : Begin(t, c) /\ c.next \notin Keyed
    <3> DEFINE Fetched(i) == [New("get", s, "check key") EXCEPT
                                !.row = i, !.user = rows[i].user, !.sealed = rows[i].key]
    <3>1. PICK i \in Lookup(uid, s) :
            Begin(t, IF i = None THEN New("get", s, "check key") ELSE Fetched(i))
      BY <2>7 DEF GetPassword
    <3>2. CASE i = None
      BY <1>1, <3>1, <3>2 DEF VaultOps
    <3>3. CASE i # None
      <4>1. i \in 1 .. MaxRows /\ rows[i] \in Row
        BY <3>3, LookupTyped DEF SteadyInv, IInv, TypeOK
      <4>2. Fetched(i) \in Call /\ Fetched(i).next = "check key"
        BY <4>1, FetchedTyped DEF SteadyInv, IInv
      <4> HIDE DEF Fetched
      <4> QED
        BY <3>1, <3>3, <4>2 DEF Keyed
    <3> QED
      BY <3>2, <3>3
  <2> QED
    BY <2>1, <2>2, <2>3, <2>4, <2>5, <2>6, <2>7
<1> QED
  BY <1>2, <1>3, BeginsSteadily

LEMMA SteadySteps ==
  ASSUME OneAccount, SteadyInv, NEW t \in Threads,
         \/ CheckUid(t) \/ CheckKey(t) \/ ReadKey(t)
         \/ Decrypt(t) \/ Listed(t) \/ Decrypted(t)
         \/ FindEntry(t) \/ DeleteEntry(t)
         \/ AssertUid(t) \/ ReadUid(t) \/ LookUp(t) \/ CommitPassword(t)
  PROVE  SteadyAnswers' /\ \A o \in Threads : Sound(o)'
<1> USE DEF Nexts
<1> DEFINE c == call[t]
<1>1. /\ c # None /\ c \in Call /\ ArgsOK(c) /\ RowOK(c) /\ call \in Calls /\ Sound(t)
      /\ steady[t] => Whole
      /\ UNCHANGED <<uid, dek, steady>>
  <2>1. c # None /\ UNCHANGED <<uid, dek, steady>>
    BY DEF CheckUid, CheckKey, ReadKey, Decrypt, Listed, Decrypted, FindEntry, DeleteEntry,
           AssertUid, ReadUid, LookUp, CommitPassword, At
  <2> QED
    BY <2>1, CallTyped DEF SteadyInv, IInv, Sound
<1>2. ASSUME NEW result \in {"success", "failure", "raised"}, Reply(t, result),
             Allowed(t, result), c.op \in VaultOps
      PROVE  SteadyAnswers' /\ \A o \in Threads : Sound(o)'
  BY <1>1, <1>2, AnsweredSteadily
<1>3. CASE CheckUid(t)
  <2>1. CASE Return(t)
    BY <1>3, <2>1, CallReturns, GoesSteadily DEF CheckUid, SteadyInv, IInv
  <2>2. CASE Go(t, "clear dek")
    <3>1. SameBut(c, call'[t], "clear dek") /\ OthersStay(t)
      BY <1>1, <2>2, CallGoes DEF SteadyInv, IInv
    <3> QED
      BY <1>1, <1>3, <3>1, GoesSteadily DEF CheckUid, SameBut, Keyed
  <2> QED
    BY <1>3, <2>1, <2>2 DEF CheckUid
<1>4. CASE CheckKey(t)
  <2>1. c.op \in VaultOps
    BY <1>1, <1>4 DEF CheckKey, At, ArgsOK
  <2>2. CASE Go(t, "read key") /\ UNCHANGED answer
    <3>1. SameBut(c, call'[t], "read key") /\ OthersStay(t)
      BY <1>1, <2>2, CallGoes DEF SteadyInv, IInv
    <3> QED
      BY <1>1, <2>2, <3>1, GoesSteadily DEF SameBut, Keyed
  <2>3. CASE c.op = "get" /\ Reply(t, "failure")
    BY <1>2, <2>1, <2>3 DEF Allowed
  <2>4. CASE dek = None /\ \E result \in {"raised", "failure"} : Reply(t, result)
    BY <1>1, <1>2, <2>1, <2>4 DEF Allowed, Whole
  <2> QED
    BY <1>4, <2>2, <2>3, <2>4 DEF CheckKey, Missing
<1>5. CASE ReadKey(t)
  <2> DEFINE next == CASE c.op = "get" -> "decrypt" [] c.op = "set" -> "assert uid" [] OTHER -> "query"
             d == [c EXCEPT !.key = dek, !.next = next]
  <2>1. call' = [call EXCEPT ![t] = d]
    BY <1>5 DEF ReadKey
  <2>2. d.key = dek
    BY <1>1 DEF Call
  <2> HIDE DEF d
  <2>3. call'[t] = d /\ OthersStay(t)
    BY <1>1, <2>1 DEF Calls, OthersStay
  <2> QED
    BY <1>1, <1>5, <2>2, <2>3, GoesSteadily DEF ReadKey, Whole
<1>6. CASE Decrypt(t)
  <2>1. c.next = "decrypt" /\ c.op = "get" /\ c.sealed \in Accounts
    BY <1>1, <1>6 DEF Decrypt, At, ArgsOK
  <2>2. steady[t] => c.key = c.sealed
    BY <1>1, <2>1 DEF Sound, Whole, Keyed, SteadyInv, IInv, TypeOK, OneAccount
  <2> QED
    BY <1>2, <1>6, <2>1, <2>2 DEF Decrypt, Allowed, VaultOps
<1>7. CASE Listed(t)
  BY <1>2, <1>7 DEF Listed, Allowed, VaultOps
<1>8. CASE Decrypted(t)
  <2>1. c.next = "query" /\ c.op = "entries"
    BY <1>8 DEF Decrypted, At
  <2>2. ASSUME steady[t], NEW i \in Live(uid) PROVE rows[i].key = c.key
    <3>1. rows[i] \in Row
      BY DEF Live, SteadyInv, IInv, TypeOK
    <3>2. rows[i].key \in Accounts
      BY <3>1 DEF Row
    <3> QED
      BY <1>1, <2>1, <2>2, <3>2 DEF Sound, Whole, Keyed, SteadyInv, IInv, TypeOK, OneAccount
  <2> QED
    BY <1>2, <1>8, <2>1, <2>2 DEF Decrypted, Allowed, VaultOps
<1>9. CASE FindEntry(t)
  <2>1. PICK i \in Lookup(uid, c.arg) :
          IF i = None THEN Reply(t, "failure")
                      ELSE /\ call' = [call EXCEPT ![t].row = i, ![t].next = "delete"]
                           /\ UNCHANGED answer
    BY <1>9 DEF FindEntry
  <2>2. CASE Reply(t, "failure")
    BY <1>2, <1>9, <2>2 DEF FindEntry, Allowed, VaultOps
  <2>3. CASE call' = [call EXCEPT ![t].row = i, ![t].next = "delete"] /\ UNCHANGED answer
    <3> DEFINE d == [c EXCEPT !.row = i, !.next = "delete"]
    <3>1. d.next \notin Keyed
      BY <1>1 DEF Call, Keyed
    <3>2. call' = [call EXCEPT ![t] = d]
      BY <2>3
    <3> HIDE DEF d
    <3>3. call'[t] = d /\ OthersStay(t)
      BY <1>1, <3>2 DEF Calls, OthersStay
    <3> QED
      BY <1>1, <2>3, <3>1, <3>3, GoesSteadily
  <2> QED
    BY <2>1, <2>2, <2>3
<1>10. CASE DeleteEntry(t)
  <2>1. c.op = "delete"
    BY <1>1, <1>10 DEF DeleteEntry, At, ArgsOK
  <2> QED
    BY <1>2, <1>10, <2>1 DEF DeleteEntry, Allowed, VaultOps
<1>11. CASE AssertUid(t)
  <2>1. c.next = "assert uid" /\ c.op = "set"
    BY <1>1, <1>11 DEF AssertUid, At, ArgsOK
  <2>2. steady[t] => uid # None /\ c.key = uid
    BY <1>1, <2>1 DEF Sound, Whole, Keyed
  <2>3. CASE \E result \in {"raised", "failure"} : ~steady[t] /\ Reply(t, result)
    BY <1>2, <2>1, <2>3 DEF Allowed, VaultOps
  <2>4. CASE Go(t, "read uid") /\ UNCHANGED answer
    <3>1. SameBut(c, call'[t], "read uid") /\ OthersStay(t)
      BY <1>1, <2>4, CallGoes DEF SteadyInv, IInv
    <3> QED
      BY <1>1, <2>2, <2>4, <3>1, GoesSteadily DEF SameBut
  <2> QED
    BY <1>11, <2>2, <2>3, <2>4 DEF AssertUid
<1>12. CASE ReadUid(t)
  <2>1. c.next = "read uid" /\ c.op = "set"
    BY <1>1, <1>12 DEF ReadUid, At, ArgsOK
  <2>2. steady[t] => uid # None /\ c.key = uid
    BY <1>1, <2>1 DEF Sound, Whole, Keyed
  <2>3. CASE ~steady[t] /\ Reply(t, "failure")
    BY <1>2, <2>1, <2>3 DEF Allowed, VaultOps
  <2>4. CASE call' = [call EXCEPT ![t].user = uid, ![t].next = "look up"] /\ UNCHANGED answer
    <3> DEFINE d == [c EXCEPT !.user = uid, !.next = "look up"]
    <3>1. d.key = c.key
      BY <1>1 DEF Call
    <3>2. call' = [call EXCEPT ![t] = d]
      BY <2>4
    <3> HIDE DEF d
    <3>3. call'[t] = d /\ OthersStay(t)
      BY <1>1, <3>2 DEF Calls, OthersStay
    <3> QED
      BY <1>1, <2>2, <2>4, <3>1, <3>3, GoesSteadily
  <2> QED
    BY <1>12, <2>2, <2>3, <2>4 DEF ReadUid
<1>13. CASE LookUp(t)
  <2>1. PICK i \in Lookup(uid, c.arg) :
          call' = [call EXCEPT ![t].row = i, ![t].next = "commit"]
    BY <1>13 DEF LookUp
  <2> DEFINE d == [c EXCEPT !.row = i, !.next = "commit"]
  <2>2. d.key = c.key /\ c.next = "look up"
    BY <1>1, <1>13 DEF Call, LookUp, At
  <2>3. call' = [call EXCEPT ![t] = d] /\ UNCHANGED answer
    BY <1>13, <2>1 DEF LookUp
  <2> HIDE DEF d
  <2>4. call'[t] = d /\ OthersStay(t)
    BY <1>1, <2>3 DEF Calls, OthersStay
  <2>5. steady[t] => c.key = uid
    BY <1>1, <2>2 DEF Sound, Keyed
  <2> QED
    BY <1>1, <2>2, <2>3, <2>4, <2>5, GoesSteadily
<1>14. CASE CommitPassword(t)
  <2>1. c.op = "set"
    BY <1>1, <1>14 DEF CommitPassword, At, ArgsOK
  <2> QED
    BY <1>2, <1>14, <2>1 DEF CommitPassword, Allowed, VaultOps
<1> QED
  BY <1>3, <1>4, <1>5, <1>6, <1>7, <1>8, <1>9, <1>10, <1>11, <1>12, <1>13, <1>14

\* SteadyAnswers: in a process of one account, any number of threads get from
\* a session that lasts what they ask for (PasswordManager).
THEOREM SteadySession == ASSUME OneAccount PROVE Spec => []SteadyAnswers
<1>1. Init => SteadyInv
  <2> SUFFICES ASSUME Init PROVE SteadyInv
    OBVIOUS
  <2>1. IInv
    BY DEF Init, IInv, TypeOK, Restoring, At
  <2> QED
    BY <2>1 DEF Init, SteadyInv, SteadyAnswers, Sound
<1>2. SteadyInv /\ IInv' /\ [Next]_vars => SteadyInv'
  <2> SUFFICES ASSUME SteadyInv, IInv', [Next]_vars PROVE SteadyInv'
    OBVIOUS
  <2>1. CASE UNCHANGED vars
    BY <2>1 DEF vars, SteadyInv, SteadyAnswers, Sound, Whole
  <2>2. ASSUME NEW t \in Threads, SetUid(t) \/ SetDek(t) \/ ClearDek(t) \/ ClearUid(t)
        PROVE  SteadyInv'
    BY <2>2, AssignedSteadily DEF SetUid, SetDek, ClearDek, ClearUid, SteadyInv
  <2> QED
    BY <2>1, <2>2, SteadyBegins, SteadySteps DEF Next, SteadyInv
<1>3. SteadyInv => SteadyAnswers
  BY DEF SteadyInv
<1> QED
  BY <1>1, <1>2, <1>3, Invariance, PTL DEF Spec
=============================================================================
