---------------------------- MODULE DualSyncProofs ----------------------------
(***************************************************************************)
(* DualSync's types and its invariants NothingForgotten, RemoteWasLocal and *)
(* OnlyOvertakenStale, proved for any number of threads, rows, fields,      *)
(* transactions, failures and restarts.                                    *)
(***************************************************************************)
EXTENDS DualSync, FiniteSetTheorems, WellFoundedInduction, TLAPS

----------------------------------------------------------------------------
(* The first field of an entry *)

\* A set of places of a list has a least one.
LEMMA LeastOf ==
  ASSUME NEW n \in Nat, NEW P \in SUBSET (1 .. n), P # {}
  PROVE  \E i \in P : \A j \in P : i <= j
<1> DEFINE T == {1 .. i : i \in P}
           R == StrictSubsetOrdering(1 .. n)
           S == FiniteSubsetsOf(1 .. n)
<1>1. IsWellFoundedOn(R, S)
  BY FS_StrictSubsetOrderingWellFounded
<1>2. T \subseteq S /\ T # {}
  <2>1. ASSUME NEW i \in P PROVE IsFiniteSet(1 .. i) /\ 1 .. i \subseteq 1 .. n
    BY FS_Interval
  <2> QED
    BY <2>1 DEF FiniteSubsetsOf
<1> HIDE DEF R, S, T
<1>3. PICK x \in T : \A y \in T : ~ (<<y, x>> \in R)
  BY <1>1, <1>2, WFMin
<1>4. PICK i \in P : x = 1 .. i
  BY <1>3 DEF T
<1>5. ASSUME NEW j \in P, j < i PROVE FALSE
  <2>1. 1 .. j \in T /\ 1 .. j \subseteq 1 .. i /\ i \in 1 .. i /\ i \notin 1 .. j
    BY <1>5 DEF T
  <2>2. 1 .. j \in SUBSET (1 .. n) /\ 1 .. i \in SUBSET (1 .. n)
    OBVIOUS
  <2>3. <<1 .. j, 1 .. i>> \in R
    BY <2>1, <2>2 DEF R, StrictSubsetOrdering
  <2> QED
    BY <1>3, <1>4, <2>1, <2>3
<1> QED
  BY <1>5

LEMMA FirstIsOne ==
  ASSUME NEW fields \in SUBSET Fields, fields # {}
  PROVE  First(fields) \in fields
<1> DEFINE P == {i \in 1 .. Len(Tracked) : Tracked[i] \in fields}
           least == CHOOSE i \in P : \A j \in P : i <= j
<1>1. Len(Tracked) \in Nat
  BY StartAssumption
<1>2. P \in SUBSET (1 .. Len(Tracked)) /\ P # {}
  BY DEF Fields
<1> HIDE DEF P
<1>3. \E i \in P : \A j \in P : i <= j
  BY <1>1, <1>2, LeastOf
<1>4. least \in P
  BY <1>3
<1>5. First(fields) = Tracked[least]
  BY DEF First, P
<1> QED
  BY <1>4, <1>5 DEF P

----------------------------------------------------------------------------
(* The inductive invariant *)

\* A dict holds its first key, if it has one, and each value was the row's once.
Filled(e) == e.first # None => e.value[e.first] # None
Was(e, r) == \A f \in Fields : e.value[f] # None => <<f, e.value[f]>> \in history[r]

\* What a transaction collected is what it will commit, and only a row that is
\* inserted with all its fields may be missing by then.
FlushOK(x) ==
  x.change # None =>
    \A r \in Rows :
      /\ x.pending[r] = Collected(x.change[r])
      /\ local[r] = None /\ Changes(x.change[r]) => Set(x.change[r]) = Fields

PendingOK(x) ==
  \A r \in Rows : x.pending[r] # None =>
    Filled(x.pending[r]) /\ (x.change = None => Was(x.pending[r], r))

TxnsOK == \A t \in Threads : txn[t] # None => FlushOK(txn[t]) /\ PendingOK(txn[t])

\* The dict that a thread is about to update is there, and has fields to come.
InPlace(x) ==
  x.at # None => x.change = None /\ x.pending[x.at] # None /\ to_sync[x.at] # None

MergesOK == \A t \in Threads : txn[t] # None => InPlace(txn[t])

QueueOK == \A r \in Rows : to_sync[r] # None => Filled(to_sync[r]) /\ Was(to_sync[r], r)

\* What sync_remote has set and not committed is still recorded.
StagedOK(r) ==
  sync.staged[r] # None =>
    /\ sync.staged[r] \in history[r]
    /\ remote[r] # None
    /\ to_sync[r] # None /\ to_sync[r].value[sync.staged[r][1]] # None

SyncOK == sync # None => sync.todo \subseteq Recorded /\ \A r \in Rows : StagedOK(r)

\* NothingForgotten with Waiting as a predicate.
Waits(r, f) ==
  \/ \E t \in Threads : /\ Committed(t) /\ txn[t].pending[r] # None
                        /\ txn[t].pending[r].value[f] # None
  \/ to_sync[r] # None /\ to_sync[r].value[f] # None

Differs(r, f) ==
  local[r] # None /\ remote[r] # None /\ local[r].data[f] # remote[r].data[f]

NoneLost == restarts = 0 => \A r \in Rows, f \in Fields : Differs(r, f) => Waits(r, f)

IInv == TypeOK /\ TxnsOK /\ MergesOK /\ QueueOK /\ SyncOK /\ RemoteWasLocal /\ NoneLost

LEMMA WaitingSomething ==
  ASSUME NEW r \in Rows, NEW f \in Fields
  PROVE  Waits(r, f) <=> Waiting(r, f) \ {None} # {}
BY DEF Waits, Waiting

\* History only grows, so what was a value of a row remains one.
LEMMA WasStays ==
  ASSUME NEW r \in Rows, NEW e, Was(e, r), history[r] \subseteq history'[r]
  PROVE  \A f \in Fields : e.value[f] # None => <<f, e.value[f]>> \in history'[r]
BY DEF Was

----------------------------------------------------------------------------
(* Collecting and merging *)

LEMMA CollectedTyped ==
  ASSUME NEW ch \in Change
  PROVE  /\ Collected(ch) \in Entry \cup {None}
         /\ Collected(ch) # None => Filled(Collected(ch)) /\ Collected(ch).value = ch.set
         /\ Collected(ch) = None <=> Set(ch) = {}
<1>1. Set(ch) \in SUBSET Fields /\ ch.set \in [Fields -> Values \cup {None}]
  BY DEF Set, Change
<1>2. CASE Set(ch) = {}
  BY <1>2 DEF Collected
<1>3. CASE Set(ch) # {}
  <2> DEFINE first == First(Set(ch))
  <2>1. first \in Set(ch)
    BY <1>1, <1>3, FirstIsOne
  <2> HIDE DEF first
  <2>2. Collected(ch) = [value |-> ch.set, first |-> first]
    BY <1>3 DEF Collected, first
  <2>3. Collected(ch) \in Entry
    BY <1>1, <2>1, <2>2 DEF Entry
  <2>4. ch.set[first] # None
    BY <2>1 DEF Set
  <2> QED
    BY <1>3, <2>2, <2>3, <2>4, NoneAssumption DEF Filled
<1> QED
  BY <1>2, <1>3

LEMMA MergedWell ==
  ASSUME NEW entry \in Entry, NEW new \in Entry, NEW r \in Rows,
         Filled(entry), Was(entry, r), Filled(new), Was(new, r)
  PROVE  /\ Merged(entry, new) \in Entry
         /\ Filled(Merged(entry, new)) /\ Was(Merged(entry, new), r)
         /\ \A f \in Fields : Merged(entry, new).value[f] =
              IF new.value[f] # None THEN new.value[f] ELSE entry.value[f]
<1> DEFINE value == [f \in Fields |-> IF new.value[f] # None THEN new.value[f]
                                                            ELSE entry.value[f]]
           first == IF entry.first = None THEN new.first ELSE entry.first
<1>1. value \in [Fields -> Values \cup {None}] /\ first \in Fields \cup {None}
  BY DEF Entry
<1>2. Merged(entry, new) = [first |-> first, value |-> value]
  BY DEF Merged
<1>3. \A f \in Fields : value[f] = IF new.value[f] # None THEN new.value[f] ELSE entry.value[f]
  OBVIOUS
<1>4. first # None => /\ first \in Fields
                      /\ new.value[first] # None \/ entry.value[first] # None
  BY <1>1 DEF Filled
<1> HIDE DEF value, first
<1>5. Merged(entry, new) \in Entry
  BY <1>1, <1>2 DEF Entry
<1>6. Filled(Merged(entry, new))
  BY <1>2, <1>3, <1>4 DEF Filled
<1>7. Was(Merged(entry, new), r)
  BY <1>2, <1>3 DEF Was
<1> QED
  BY <1>2, <1>3, <1>5, <1>6, <1>7

\* A dict that setdefault has just made.
LEMMA EmptyDictWell ==
  ASSUME NEW r \in Rows
  PROVE  /\ EmptyDict \in Entry /\ EmptyDict # None
         /\ Filled(EmptyDict) /\ Was(EmptyDict, r)
         /\ \A f \in Fields : EmptyDict.value[f] = None
<1>1. EmptyDict \in Entry
  BY DEF EmptyDict, Entry
<1> QED
  BY <1>1, NoneAssumption DEF EmptyDict, Filled, Was

LEMMA AppliedTyped ==
  ASSUME NEW ch \in Change, NEW row \in Row \cup {None},
         row = None /\ Changes(ch) => Set(ch) = Fields
  PROVE  /\ Applied(row, ch) \in Row \cup {None}
         /\ ~Changes(ch) => Applied(row, ch) = row
         /\ Changes(ch) => /\ Applied(row, ch) \in Row
                           /\ \A f \in Fields : Applied(row, ch).data[f] =
                                IF f \in Set(ch) THEN ch.set[f] ELSE row.data[f]
<1>1. CASE ~Changes(ch)
  BY <1>1 DEF Applied
<1>2. CASE Changes(ch)
  <2> DEFINE data == [f \in Fields |-> IF ch.set[f] # None THEN ch.set[f] ELSE row.data[f]]
  <2>1. data \in [Fields -> Values]
    <3>1. ch.set \in [Fields -> Values \cup {None}]
      BY DEF Change
    <3>2. CASE row = None
      BY <1>2, <3>1, <3>2 DEF Set
    <3>3. CASE row # None
      BY <3>1, <3>3 DEF Row
    <3> QED
      BY <3>2, <3>3
  <2>2. StillLive(row, ch) \in BOOLEAN
    BY DEF StillLive
  <2>3. Applied(row, ch) = [data |-> data, live |-> StillLive(row, ch)]
    BY <1>2 DEF Applied
  <2>4. \A f \in Fields : data[f] = IF f \in Set(ch) THEN ch.set[f] ELSE row.data[f]
    BY DEF Set
  <2> HIDE DEF data
  <2>5. Applied(row, ch) \in Row
    BY <2>1, <2>2, <2>3 DEF Row
  <2> QED
    BY <1>2, <2>3, <2>4, <2>5
<1> QED
  BY <1>1, <1>2

----------------------------------------------------------------------------
(* Preservation *)

OthersStay(t) == \A o \in Threads : o # t => txn'[o] = txn[o]

LEMMA FlushKeeps ==
  ASSUME IInv, NEW t \in Threads, NEW change \in [Rows -> Change], Flush(t, change)
  PROVE  IInv'
<1> DEFINE pending == [r \in Rows |-> Collected(change[r])]
           x == [change |-> change, pending |-> pending, at |-> None, number |-> writes']
<1>1. txn[t] = None /\ UNCHANGED <<local, remote, to_sync, sync, failures, restarts, history, overtaken>>
  BY DEF Flush
<1>2. /\ pending \in [Rows -> Entry \cup {None}]
      /\ \A r \in Rows : /\ pending[r] = Collected(change[r])
                         /\ pending[r] # None => Filled(pending[r])
  BY CollectedTyped
<1>3. \A r \in Rows : local[r] = None /\ Changes(change[r]) => Set(change[r]) = Fields
  BY DEF Flush, Possible, Changes
<1>4. txn' = [txn EXCEPT ![t] = x]
  BY DEF Flush
<1> HIDE DEF pending
<1>5. /\ x \in Txn /\ x # None /\ x.change # None /\ x.change = change
      /\ x.pending = pending /\ x.at = None
  <2>1. writes' \in Nat
    BY BoundAssumption DEF IInv, TypeOK, Flush
  <2> QED
    BY <1>2, <2>1, NoneAssumption DEF Txn
<1> HIDE DEF x
<1>6. txn' \in [Threads -> Txn \cup {None}] /\ txn'[t] = x /\ OthersStay(t)
  BY <1>4, <1>5 DEF IInv, TypeOK, OthersStay
<1>7. TypeOK'
  <2>1. writes' \in 0 .. MaxWrites
    BY BoundAssumption DEF IInv, TypeOK, Flush
  <2> QED
    BY <1>1, <1>6, <2>1 DEF IInv, TypeOK
<1>8. TxnsOK'
  <2>1. FlushOK(txn[t])' /\ PendingOK(txn[t])'
    BY <1>1, <1>2, <1>3, <1>5, <1>6 DEF FlushOK, PendingOK
  <2>2. \A o \in Threads : o # t /\ txn'[o] # None => FlushOK(txn[o])' /\ PendingOK(txn[o])'
    BY <1>1, <1>6 DEF IInv, TxnsOK, FlushOK, PendingOK, Was, OthersStay
  <2> QED
    BY <2>1, <2>2 DEF TxnsOK
<1>9. NoneLost'
  <2>1. \A r \in Rows, f \in Fields : Waits(r, f) => Waits(r, f)'
    BY <1>1, <1>6 DEF Waits, Committed, OthersStay
  <2> QED
    BY <1>1, <2>1 DEF IInv, NoneLost, Differs
<1>10. MergesOK'
  BY <1>1, <1>5, <1>6 DEF IInv, MergesOK, InPlace, OthersStay
<1> QED
  BY <1>1, <1>7, <1>8, <1>9, <1>10
  DEF IInv, QueueOK, SyncOK, StagedOK, Recorded, RemoteWasLocal, Was

LEMMA CommitKeeps ==
  ASSUME IInv, NEW t \in Threads, DbCommit(t)
  PROVE  IInv'
<1> DEFINE x == txn[t]
           ch == x.change
           y == [x EXCEPT !.change = None]
<1>1. x # None /\ ch # None /\ UNCHANGED <<remote, to_sync, sync, writes, failures, restarts, overtaken>>
  BY DEF DbCommit, Flushed
<1>2. x \in Txn /\ ch \in [Rows -> Change] /\ FlushOK(x) /\ PendingOK(x)
  BY <1>1 DEF IInv, TypeOK, TxnsOK, Txn
<1>3. y \in Txn /\ y # None /\ y.change = None /\ y.pending = x.pending /\ y.at = x.at
  BY <1>2, NoneAssumption DEF Txn
<1>4. txn' = [txn EXCEPT ![t] = y]
  BY DEF DbCommit
<1>5. local' = [r \in Rows |-> Applied(local[r], ch[r])]
  BY DEF DbCommit
<1>6. history' = [r \in Rows |-> history[r] \cup {<<f, local'[r].data[f]>> : f \in Set(ch[r])}]
  BY DEF DbCommit
<1>7. \A r \in Rows : /\ local[r] = None /\ Changes(ch[r]) => Set(ch[r]) = Fields
                      /\ x.pending[r] = Collected(ch[r])
  BY <1>1, <1>2 DEF FlushOK
<1> HIDE DEF y, ch
<1>8. \A r \in Rows :
        /\ local'[r] \in Row \cup {None}
        /\ ~Changes(ch[r]) => local'[r] = local[r]
        /\ Changes(ch[r]) => /\ local'[r] \in Row
                             /\ \A f \in Fields : local'[r].data[f] =
                                  IF f \in Set(ch[r]) THEN ch[r].set[f] ELSE local[r].data[f]
  BY <1>2, <1>5, <1>7, AppliedTyped DEF IInv, TypeOK
<1>9. \A r \in Rows : /\ Set(ch[r]) \subseteq Fields
                      /\ Set(ch[r]) # {} => Changes(ch[r])
                      /\ \A f \in Fields : ch[r].set[f] # None <=> f \in Set(ch[r])
  BY DEF Set, Changes
<1>10. \A r \in Rows : history[r] \subseteq history'[r]
  BY <1>6
<1>11. history' \in [Rows -> SUBSET (Fields \X Values)]
  <2> SUFFICES ASSUME NEW r \in Rows, NEW f \in Set(ch[r])
               PROVE  <<f, local'[r].data[f]>> \in Fields \X Values
    BY <1>6 DEF IInv, TypeOK
  <2>1. local'[r] \in Row /\ f \in Fields
    BY <1>8, <1>9
  <2> QED
    BY <2>1 DEF Row
<1>12. txn' \in [Threads -> Txn \cup {None}] /\ txn'[t] = y /\ OthersStay(t)
  BY <1>3, <1>4 DEF IInv, TypeOK, OthersStay
<1>13. TypeOK'
  <2>1. local' \in [Rows -> Row \cup {None}]
    BY <1>5, <1>8
  <2> QED
    BY <1>1, <1>11, <1>12, <2>1 DEF IInv, TypeOK
<1>14. \A r \in Rows : \A e : Was(e, r) => Was(e, r)'
  BY <1>10 DEF Was
<1>15. TxnsOK'
  <2>1. FlushOK(txn[t])'
    BY <1>3, <1>12 DEF FlushOK
  <2>2. PendingOK(txn[t])'
    <3> SUFFICES ASSUME NEW r \in Rows, x.pending[r] # None
                 PROVE  /\ Filled(x.pending[r])
                        /\ \A f \in Fields : x.pending[r].value[f] # None =>
                             <<f, x.pending[r].value[f]>> \in history'[r]
      BY <1>3, <1>12 DEF PendingOK, Filled, Was
    <3>1. Filled(x.pending[r]) /\ x.pending[r].value = ch[r].set
      BY <1>2, <1>7, CollectedTyped
    <3>2. ASSUME NEW f \in Fields, ch[r].set[f] # None
          PROVE  <<f, ch[r].set[f]>> \in history'[r]
      BY <1>6, <1>8, <1>9, <3>2
    <3> QED
      BY <3>1, <3>2
  <2>3. ASSUME NEW o \in Threads, o # t, txn[o] # None
        PROVE  FlushOK(txn[o])' /\ PendingOK(txn[o])'
    <3>1. txn'[o] = txn[o] /\ FlushOK(txn[o]) /\ PendingOK(txn[o])
      BY <1>12, <2>3 DEF IInv, TxnsOK, OthersStay
    <3>2. \A r \in Rows : local'[r] = None => local[r] = None
      BY <1>8, NoneAssumption
    <3> QED
      BY <1>14, <3>1, <3>2 DEF FlushOK, PendingOK
  <2> QED
    BY <1>12, <2>1, <2>2, <2>3 DEF TxnsOK, OthersStay
<1>16. QueueOK'
  BY <1>1, <1>14 DEF IInv, QueueOK
<1>17. SyncOK' /\ RemoteWasLocal'
  BY <1>1, <1>10 DEF IInv, SyncOK, StagedOK, Recorded, RemoteWasLocal
<1>18. NoneLost'
  <2> SUFFICES ASSUME restarts = 0, NEW r \in Rows, NEW f \in Fields, Differs(r, f)'
               PROVE  Waits(r, f)'
    BY <1>1 DEF NoneLost
  <2>1. Waits(r, f) => Waits(r, f)'
    BY <1>1, <1>12 DEF ch, Waits, Committed, OthersStay
  <2>2. CASE f \in Set(ch[r])
    <3>1. x.pending[r] # None /\ x.pending[r].value[f] # None
      BY <1>2, <1>7, <1>9, <2>2, CollectedTyped
    <3> QED
      BY <1>3, <1>12, <3>1 DEF Waits, Committed
  <2>3. CASE f \notin Set(ch[r])
    <3>1. Differs(r, f)
      BY <1>1, <1>7, <1>8, <2>3 DEF Differs
    <3> QED
      BY <2>1, <3>1 DEF IInv, NoneLost
  <2> QED
    BY <2>2, <2>3
<1>19. MergesOK'
  <2>1. x.at = None
    BY <1>1 DEF IInv, MergesOK, InPlace, ch
  <2> QED
    BY <1>1, <1>3, <1>12, <2>1 DEF IInv, MergesOK, InPlace, OthersStay
<1> QED
  BY <1>13, <1>15, <1>16, <1>17, <1>18, <1>19 DEF IInv

LEMMA RollbackKeeps ==
  ASSUME IInv, NEW t \in Threads, Rollback(t)
  PROVE  IInv'
<1>1. /\ txn[t] # None /\ txn[t].change # None
      /\ UNCHANGED <<local, remote, to_sync, sync, writes, failures, restarts, history, overtaken>>
  BY DEF Rollback, Flushed
<1>2. txn' \in [Threads -> Txn \cup {None}] /\ txn'[t] = None /\ OthersStay(t)
  BY DEF IInv, TypeOK, Rollback, OthersStay
<1>3. TypeOK'
  BY <1>1, <1>2 DEF IInv, TypeOK
<1>4. TxnsOK'
  BY <1>1, <1>2 DEF IInv, TxnsOK, FlushOK, PendingOK, Was, OthersStay
<1>5. NoneLost'
  <2>1. \A r \in Rows, f \in Fields : Waits(r, f) => Waits(r, f)'
    BY <1>1, <1>2 DEF Waits, Committed, OthersStay
  <2> QED
    BY <1>1, <2>1 DEF IInv, NoneLost, Differs
<1>6. MergesOK'
  BY <1>1, <1>2 DEF IInv, MergesOK, InPlace, OthersStay
<1> QED
  BY <1>1, <1>3, <1>4, <1>5, <1>6
  DEF IInv, QueueOK, SyncOK, StagedOK, Recorded, RemoteWasLocal, Was

LEMMA MergeEndsKeeps ==
  ASSUME IInv, NEW t \in Threads, MergeEnds(t)
  PROVE  IInv'
<1> DEFINE x == txn[t]
<1>1. /\ x # None /\ x.change = None /\ \A r \in Rows : x.pending[r] = None
      /\ UNCHANGED <<local, remote, to_sync, sync, writes, failures, restarts, history, overtaken>>
  BY DEF MergeEnds, Committed
<1>2. txn' \in [Threads -> Txn \cup {None}] /\ txn'[t] = None /\ OthersStay(t)
  BY DEF MergeEnds, IInv, TypeOK, OthersStay
<1>3. TypeOK'
  BY <1>1, <1>2 DEF IInv, TypeOK
<1>4. TxnsOK'
  BY <1>1, <1>2 DEF IInv, TxnsOK, FlushOK, PendingOK, Was, OthersStay
<1>5. NoneLost'
  <2>1. \A r \in Rows, f \in Fields : Waits(r, f) => Waits(r, f)'
    BY <1>1, <1>2 DEF Waits, Committed, OthersStay
  <2> QED
    BY <1>1, <2>1 DEF IInv, NoneLost, Differs
<1>6. MergesOK'
  BY <1>1, <1>2 DEF IInv, MergesOK, InPlace, OthersStay
<1> QED
  BY <1>1, <1>3, <1>4, <1>5, <1>6
  DEF IInv, QueueOK, SyncOK, StagedOK, Recorded, RemoteWasLocal, Was

\* A step of a merge that leaves a thread y to be done, of x, and the dict e in
\* to_sync: what x has of the row either stays to be done or is in e.
LEMMA DictKeeps ==
  ASSUME IInv, NEW t \in Threads, NEW r \in Rows, NEW y \in Txn, NEW e \in Entry,
         Committed(t), y.change = None,
         txn' = [txn EXCEPT ![t] = y], to_sync' = [to_sync EXCEPT ![r] = e],
         UNCHANGED <<local, remote, sync, writes, failures, restarts, history>>,
         overtaken' \subseteq Rows \X Fields,
         Filled(e), Was(e, r),
         \A q \in Rows : q # r => y.pending[q] = txn[t].pending[q],
         y.pending[r] = None \/ y.pending[r] = txn[t].pending[r],
         y.at = None \/ (y.at = r /\ y.pending[r] # None),
         \A f \in Fields :
           /\ to_sync[r] # None /\ to_sync[r].value[f] # None => e.value[f] # None
           /\ txn[t].pending[r] # None /\ txn[t].pending[r].value[f] # None =>
                e.value[f] # None \/ y.pending[r] = txn[t].pending[r]
  PROVE  IInv'
<1> DEFINE x == txn[t]
<1>1. x # None /\ x.change = None /\ x \in Txn /\ FlushOK(x) /\ PendingOK(x)
  BY DEF Committed, IInv, TypeOK, TxnsOK
<1>2. y # None /\ e # None
  BY NoneAssumption
<1>3. /\ txn' \in [Threads -> Txn \cup {None}] /\ txn'[t] = y /\ OthersStay(t)
      /\ to_sync' \in [Rows -> Entry \cup {None}] /\ to_sync'[r] = e
      /\ \A q \in Rows : q # r => to_sync'[q] = to_sync[q]
  BY DEF IInv, TypeOK, OthersStay
<1>4. TypeOK'
  BY <1>3 DEF IInv, TypeOK
<1>5. TxnsOK'
  <2>1. FlushOK(txn[t])' /\ PendingOK(txn[t])'
    <3>1. \A q \in Rows : y.pending[q] = None \/ y.pending[q] = x.pending[q]
      OBVIOUS
    <3> QED
      BY <1>1, <1>3, <3>1 DEF FlushOK, PendingOK, Was
  <2>2. \A o \in Threads : o # t /\ txn'[o] # None => FlushOK(txn[o])' /\ PendingOK(txn[o])'
    BY <1>3 DEF IInv, TxnsOK, FlushOK, PendingOK, Was, OthersStay
  <2> QED
    BY <2>1, <2>2 DEF TxnsOK
<1>6. QueueOK'
  BY <1>3 DEF IInv, QueueOK, Was
<1>7. SyncOK' /\ RemoteWasLocal'
  <2>1. ASSUME sync # None, NEW q \in Rows PROVE StagedOK(q)'
    <3>1. StagedOK(q)
      BY <2>1 DEF IInv, SyncOK
    <3>2. sync.staged[q] # None => sync.staged[q][1] \in Fields
      BY <2>1 DEF IInv, TypeOK, Sync
    <3> QED
      BY <1>2, <1>3, <3>1, <3>2 DEF StagedOK
  <2>2. Recorded \subseteq Recorded'
    BY <1>2, <1>3 DEF Recorded
  <2> QED
    BY <2>1, <2>2 DEF IInv, SyncOK, RemoteWasLocal
<1>8. NoneLost'
  <2>1. ASSUME NEW q \in Rows, NEW f \in Fields, Waits(q, f) PROVE Waits(q, f)'
    <3>1. CASE to_sync[q] # None /\ to_sync[q].value[f] # None
      BY <1>2, <1>3, <3>1 DEF Waits
    <3>2. ASSUME NEW u \in Threads, Committed(u), txn[u].pending[q] # None,
                 txn[u].pending[q].value[f] # None
          PROVE  Waits(q, f)'
      <4>1. CASE u # t
        BY <1>3, <3>2, <4>1 DEF Waits, Committed, OthersStay
      <4>2. CASE u = t /\ y.pending[q] = x.pending[q]
        BY <1>2, <1>3, <3>2, <4>2 DEF Waits, Committed
      <4>3. CASE u = t /\ y.pending[q] # x.pending[q]
        BY <1>2, <1>3, <3>2, <4>3 DEF Waits
      <4> QED
        BY <4>1, <4>2, <4>3
    <3> QED
      BY <2>1, <3>1, <3>2 DEF Waits
  <2> QED
    BY <2>1 DEF IInv, NoneLost, Differs
<1>9. MergesOK'
  <2>1. \A q \in Rows : to_sync[q] # None => to_sync'[q] # None
    BY <1>2, <1>3
  <2>2. ASSUME NEW o \in Threads, o # t, txn[o] # None PROVE InPlace(txn[o])'
    <3>1. txn'[o] = txn[o] /\ txn[o].at \in Rows \cup {None} /\ InPlace(txn[o])
      BY <1>3, <2>2 DEF IInv, TypeOK, Txn, MergesOK, OthersStay
    <3> QED
      BY <2>1, <3>1 DEF InPlace
  <2>3. InPlace(txn[t])'
    BY <1>2, <1>3 DEF InPlace
  <2> QED
    BY <1>3, <2>2, <2>3 DEF MergesOK, OthersStay
<1> QED
  BY <1>4, <1>5, <1>6, <1>7, <1>8, <1>9 DEF IInv

LEMMA SetDefaultKeeps ==
  ASSUME IInv, NEW t \in Threads, NEW r \in Rows, SetDefault(t, r)
  PROVE  IInv'
<1> DEFINE x == txn[t]
           y == [x EXCEPT !.at = r]
           e == IF to_sync[r] = None THEN EmptyDict ELSE to_sync[r]
<1>1. Committed(t) /\ x # None /\ x.change = None /\ x \in Txn
  BY DEF SetDefault, Committed, IInv, TypeOK
<1>2. y \in Txn /\ y.change = None /\ y.pending = x.pending /\ y.at = r
  BY <1>1 DEF Txn
<1>3. /\ e \in Entry /\ Filled(e) /\ Was(e, r)
      /\ to_sync[r] # None => e = to_sync[r]
  BY EmptyDictWell DEF IInv, TypeOK, QueueOK
<1>4. /\ txn' = [txn EXCEPT ![t] = y] /\ to_sync' = [to_sync EXCEPT ![r] = e]
      /\ UNCHANGED <<local, remote, sync, writes, failures, restarts, history, overtaken>>
  BY DEF SetDefault
<1>5. x.pending[r] # None /\ overtaken' \subseteq Rows \X Fields
  BY <1>4 DEF SetDefault, IInv, TypeOK
<1> HIDE DEF y, e
<1> QED
  BY <1>1, <1>2, <1>3, <1>4, <1>5, DictKeeps

LEMMA UpdateDictKeeps ==
  ASSUME IInv, NEW t \in Threads, NEW r \in Rows, UpdateDict(t, r)
  PROVE  IInv'
<1> DEFINE x == txn[t]
           y == [x EXCEPT !.pending = [x.pending EXCEPT ![r] = None], !.at = None]
           e == Merged(to_sync[r], x.pending[r])
<1>1. Committed(t) /\ x # None /\ x.change = None /\ x \in Txn /\ PendingOK(x)
  BY DEF UpdateDict, Committed, IInv, TypeOK, TxnsOK
<1>2. /\ y \in Txn /\ y.change = None /\ y.pending[r] = None /\ y.at = None
      /\ \A q \in Rows : q # r => y.pending[q] = x.pending[q]
  BY <1>1 DEF Txn
<1>3. x.pending[r] # None /\ to_sync[r] # None
  BY <1>1, NoneAssumption DEF UpdateDict, IInv, MergesOK, InPlace
<1>4. /\ x.pending[r] \in Entry /\ Filled(x.pending[r]) /\ Was(x.pending[r], r)
      /\ to_sync[r] \in Entry /\ Filled(to_sync[r]) /\ Was(to_sync[r], r)
  BY <1>1, <1>3 DEF IInv, TypeOK, Txn, PendingOK, QueueOK
<1>5. /\ e \in Entry /\ Filled(e) /\ Was(e, r)
      /\ \A f \in Fields : e.value[f] =
           IF x.pending[r].value[f] # None THEN x.pending[r].value[f] ELSE to_sync[r].value[f]
  BY <1>4, MergedWell
<1>6. /\ txn' = [txn EXCEPT ![t] = y] /\ to_sync' = [to_sync EXCEPT ![r] = e]
      /\ UNCHANGED <<local, remote, sync, writes, failures, restarts, history>>
  BY DEF UpdateDict
<1>7. overtaken' \subseteq Rows \X Fields
  BY DEF UpdateDict, IInv, TypeOK
<1>8. \A f \in Fields : /\ to_sync[r].value[f] # None => e.value[f] # None
                        /\ x.pending[r].value[f] # None => e.value[f] # None
  BY <1>5
<1> HIDE DEF y, e
<1> QED
  BY <1>1, <1>2, <1>5, <1>6, <1>7, <1>8, DictKeeps

LEMMA AfterCommitKeeps ==
  ASSUME IInv, NEW t \in Threads, AfterCommit(t)
  PROVE  IInv'
BY SetDefaultKeeps, UpdateDictKeeps, MergeEndsKeeps DEF AfterCommit

LEMMA SyncStartKeeps ==
  ASSUME IInv, SyncStart
  PROVE  IInv'
<1> DEFINE s == [todo |-> Recorded, size |-> Cardinality(Recorded),
                 staged |-> [r \in Rows |-> None], failed |-> {}]
<1>1. UNCHANGED <<local, remote, to_sync, txn, writes, failures, restarts, history, overtaken>>
  BY DEF SyncStart
<1>2. s \in Sync
  <2>1. Recorded \subseteq Rows
    BY DEF Recorded
  <2>2. /\ Cardinality(Recorded) \in Nat /\ Cardinality(Rows) \in Nat
        /\ Cardinality(Recorded) <= Cardinality(Rows)
    BY <2>1, StartAssumption, FS_Subset, FS_CardinalityType
  <2> QED
    BY <2>1, <2>2 DEF Sync
<1>3. sync' = s /\ s.todo = Recorded /\ \A r \in Rows : s.staged[r] = None
  BY DEF SyncStart
<1> HIDE DEF s
<1> QED
  BY <1>1, <1>2, <1>3
  DEF IInv, TypeOK, TxnsOK, FlushOK, PendingOK, MergesOK, InPlace, QueueOK, Was, SyncOK, StagedOK, Recorded,
      RemoteWasLocal, NoneLost, Differs, Waits, Committed

LEMMA SyncStepKeeps ==
  ASSUME IInv, NEW r \in Rows, SyncStep(r)
  PROVE  IInv'
<1> DEFINE e == to_sync[r]
           f == e.first
           stage == IF remote[r] = None THEN None ELSE <<f, e.value[f]>>
           failed == IF remote[r] = None THEN sync.failed \cup {r} ELSE sync.failed
           s == [sync EXCEPT !.todo = sync.todo \ {r}, !.staged = [sync.staged EXCEPT ![r] = stage],
                             !.failed = failed]
<1>1. UNCHANGED <<local, remote, to_sync, txn, writes, failures, restarts, history, overtaken>>
  BY DEF SyncStep
<1>2. sync # None /\ sync \in Sync /\ r \in sync.todo /\ sync.todo \subseteq Recorded
  BY DEF SyncStep, IInv, TypeOK, SyncOK
<1>3. e \in Entry /\ Filled(e) /\ Was(e, r) /\ e # None
  BY <1>2 DEF IInv, TypeOK, QueueOK, Recorded
<1>4. remote[r] # None => /\ f \in Fields /\ e.value[f] # None /\ e.value[f] \in Values
                          /\ <<f, e.value[f]>> \in history[r]
  <2>1. remote[r] # None => e.first # None
    BY DEF SyncStep, FindsEmpty
  <2> QED
    BY <1>3, <2>1 DEF Entry, Filled, Was
<1>5. stage \in (Fields \X Values) \cup {None} /\ failed \subseteq Rows
  BY <1>2, <1>4 DEF Sync
<1>6. stage # None => /\ stage \in history[r] /\ remote[r] # None
                      /\ e.value[stage[1]] # None
  BY <1>4
<1>7. sync' = s
  BY <1>2 DEF SyncStep, Sent
<1> HIDE DEF stage, failed
<1>8. /\ s \in Sync /\ s.todo \subseteq Recorded /\ s.staged[r] = stage
      /\ \A q \in Rows : q # r => s.staged[q] = sync.staged[q]
  BY <1>2, <1>5 DEF Sync
<1> HIDE DEF s
<1>9. SyncOK'
  BY <1>1, <1>2, <1>3, <1>6, <1>7, <1>8 DEF IInv, SyncOK, StagedOK, Recorded
<1> QED
  BY <1>1, <1>7, <1>8, <1>9
  DEF IInv, TypeOK, TxnsOK, FlushOK, PendingOK, MergesOK, InPlace, QueueOK, Was,
      RemoteWasLocal, NoneLost, Differs, Waits, Committed

LEMMA SyncCommitKeeps ==
  ASSUME IInv, SyncCommit
  PROVE  IInv'
<1>1. /\ sync # None /\ sync \in Sync /\ sync' = None
      /\ UNCHANGED <<local, to_sync, txn, writes, failures, restarts, history, overtaken>>
  BY DEF SyncCommit, IInv, TypeOK
<1>2. ASSUME NEW r \in Rows
      PROVE  /\ remote'[r] \in Row \cup {None}
             /\ sync.staged[r] = None => remote'[r] = remote[r]
             /\ sync.staged[r] # None =>
                  /\ remote'[r] \in Row /\ remote[r] \in Row
                  /\ \A f \in Fields : remote'[r].data[f] =
                       IF f = sync.staged[r][1] THEN sync.staged[r][2] ELSE remote[r].data[f]
  <2>1. CASE sync.staged[r] = None
    BY <2>1 DEF SyncCommit, IInv, TypeOK
  <2>2. CASE sync.staged[r] # None
    <3> DEFINE row == remote[r]
               d == [row.data EXCEPT ![sync.staged[r][1]] = sync.staged[r][2]]
    <3>1. row \in Row /\ sync.staged[r] \in Fields \X Values
      BY <1>1, <2>2 DEF IInv, TypeOK, SyncOK, StagedOK, Sync
    <3>2. remote'[r] = [row EXCEPT !.data = d]
      BY <2>2 DEF SyncCommit
    <3>3. /\ d \in [Fields -> Values]
          /\ \A f \in Fields :
               d[f] = IF f = sync.staged[r][1] THEN sync.staged[r][2] ELSE row.data[f]
      BY <3>1 DEF Row
    <3> HIDE DEF d
    <3>4. remote'[r] \in Row /\ remote'[r].data = d
      BY <3>1, <3>2, <3>3 DEF Row
    <3> QED
      BY <2>2, <3>1, <3>3, <3>4
  <2> QED
    BY <2>1, <2>2
<1>3. remote' \in [Rows -> Row \cup {None}]
  <2>1. remote' = [r \in Rows |-> remote'[r]]
    BY DEF SyncCommit
  <2> QED
    BY <1>2, <2>1
<1>4. TypeOK'
  BY <1>1, <1>3 DEF IInv, TypeOK
<1>5. RemoteWasLocal'
  <2> SUFFICES ASSUME NEW r \in Rows, remote'[r] # None, NEW f \in Fields
               PROVE  <<f, remote'[r].data[f]>> \in history[r]
    BY <1>1 DEF RemoteWasLocal
  <2>1. CASE sync.staged[r] = None
    BY <1>2, <2>1 DEF IInv, RemoteWasLocal
  <2>2. CASE sync.staged[r] # None
    <3>1. sync.staged[r] \in history[r] /\ sync.staged[r] \in Fields \X Values /\ remote[r] # None
      BY <1>1, <2>2 DEF IInv, SyncOK, StagedOK, TypeOK, Sync
    <3>2. sync.staged[r] = <<sync.staged[r][1], sync.staged[r][2]>>
      BY <3>1
    <3> QED
      BY <1>2, <2>2, <3>1, <3>2 DEF IInv, RemoteWasLocal
  <2> QED
    BY <2>1, <2>2
<1>6. NoneLost'
  <2> SUFFICES ASSUME restarts = 0, NEW r \in Rows, NEW f \in Fields, Differs(r, f)'
               PROVE  Waits(r, f)'
    BY <1>1 DEF NoneLost
  <2>1. Waits(r, f) => Waits(r, f)'
    BY <1>1 DEF Waits, Committed
  <2>2. CASE sync.staged[r] = None \/ f # sync.staged[r][1]
    BY <1>1, <1>2, <2>1, <2>2, NoneAssumption DEF IInv, NoneLost, Differs
  <2>3. CASE sync.staged[r] # None /\ f = sync.staged[r][1]
    BY <1>1, <2>1, <2>3 DEF IInv, SyncOK, StagedOK, Waits
  <2> QED
    BY <2>2, <2>3
<1> QED
  BY <1>1, <1>4, <1>5, <1>6 DEF IInv, TxnsOK, FlushOK, PendingOK, MergesOK, InPlace, QueueOK, Was, SyncOK

LEMMA FaultsKeep ==
  ASSUME IInv, SyncRaises \/ RemoteFails \/ Restart
  PROVE  IInv'
<1>1. CASE SyncRaises \/ RemoteFails
  <2>1. failures' \in 0 .. MaxFaults
    BY <1>1, BoundAssumption DEF IInv, TypeOK, SyncRaises, RemoteFails
  <2>2. sync' = None /\ UNCHANGED <<local, remote, to_sync, txn, writes, restarts, history, overtaken>>
    BY <1>1 DEF SyncRaises, RemoteFails
  <2> QED
    BY <2>1, <2>2
    DEF IInv, TypeOK, TxnsOK, FlushOK, PendingOK, MergesOK, InPlace, QueueOK, Was, SyncOK,
        RemoteWasLocal, NoneLost, Differs, Waits, Committed
<1>2. CASE Restart
  <2>1. restarts' \in 0 .. MaxFaults /\ restarts' # 0
    BY <1>2, BoundAssumption DEF IInv, TypeOK, Restart
  <2>2. /\ sync' = None /\ to_sync' = [r \in Rows |-> None] /\ txn' = [t \in Threads |-> None]
        /\ overtaken' = {} /\ UNCHANGED <<local, remote, writes, failures, history>>
    BY <1>2 DEF Restart
  <2> QED
    BY <2>1, <2>2 DEF IInv, TypeOK, TxnsOK, MergesOK, QueueOK, SyncOK, RemoteWasLocal, NoneLost
<1> QED
  BY <1>1, <1>2

----------------------------------------------------------------------------

THEOREM Invariance == Spec => []IInv
<1>1. Init => IInv
  <2> SUFFICES ASSUME Init PROVE IInv
    OBVIOUS
  <2> DEFINE row == [data |-> [f \in Fields |-> Old], live |-> TRUE]
  <2>1. row \in Row /\ row # None /\ \A f \in Fields : row.data[f] = Old
    <3>1. Old \in Values
      BY StartAssumption
    <3>2. row \in Row
      BY <3>1 DEF Row
    <3> QED
      BY <3>2, NoneAssumption
  <2>2. local = [r \in Rows |-> IF r \in Seeded THEN row ELSE None]
    BY DEF Init
  <2> HIDE DEF row
  <2>3. TypeOK
    <3>1. local \in [Rows -> Row \cup {None}]
      BY <2>1, <2>2
    <3>2. history \in [Rows -> SUBSET (Fields \X Values)]
      <4>1. Fields \X {Old} \subseteq Fields \X Values
        BY StartAssumption
      <4> QED
        BY <4>1 DEF Init
    <3>3. writes \in 0 .. MaxWrites /\ failures \in 0 .. MaxFaults /\ restarts \in 0 .. MaxFaults
      BY BoundAssumption DEF Init
    <3> QED
      BY <3>1, <3>2, <3>3 DEF Init, TypeOK
  <2>4. RemoteWasLocal
    BY <2>1, <2>2 DEF Init, RemoteWasLocal
  <2> QED
    BY <2>3, <2>4 DEF Init, IInv, TxnsOK, MergesOK, QueueOK, SyncOK, NoneLost, Differs
<1>2. IInv /\ [Next]_vars => IInv'
  <2> SUFFICES ASSUME IInv, [Next]_vars PROVE IInv'
    OBVIOUS
  <2>1. CASE UNCHANGED vars
    BY <2>1
    DEF vars, IInv, TypeOK, TxnsOK, FlushOK, PendingOK, MergesOK, InPlace, QueueOK, Was, SyncOK, StagedOK,
        Recorded, RemoteWasLocal, NoneLost, Differs, Waits, Committed
  <2> QED
    BY <2>1, FlushKeeps, CommitKeeps, RollbackKeeps, AfterCommitKeeps, SyncStartKeeps,
       SyncStepKeeps, SyncCommitKeeps, FaultsKeep DEF Next
<1> QED
  BY <1>1, <1>2, PTL DEF Spec

\* TypeOK: databases, queue and transactions keep their types, above all no
\* commit leaves a row without a value (_add_to_sync, sync_remote).
THEOREM Typing == Spec => []TypeOK
<1>1. IInv => TypeOK
  BY DEF IInv
<1> QED
  BY <1>1, Invariance, PTL

\* NothingForgotten: while the process lives, a committed change of a tracked
\* field waits until the remote database has it (_add_to_sync, _commit_sync).
THEOREM ChangesKept == Spec => []NothingForgotten
<1>1. IInv => NothingForgotten
  BY WaitingSomething DEF IInv, NoneLost, NothingForgotten, Differs
<1> QED
  BY <1>1, Invariance, PTL

\* RemoteWasLocal: nothing that the local database has not committed reaches
\* the remote one (sync_remote, _commit_sync).
THEOREM RemoteHonest == Spec => []RemoteWasLocal
<1>1. IInv => RemoteWasLocal
  BY DEF IInv
<1> QED
  BY <1>1, Invariance, PTL

----------------------------------------------------------------------------
(* OnlyOvertakenStale *)

\* Transactions are numbered as they flush, which one does while no other has
\* flushed and not committed: the numbers are the order of the commits.
InOrder ==
  /\ \A t \in Threads : txn[t] # None => txn[t].number <= writes
  /\ \A t, u \in Threads : t # u /\ txn[t] # None /\ txn[u] # None =>
       /\ txn[t].number # txn[u].number
       /\ Flushed(t) => txn[u].number < txn[t].number

\* A committed transaction is about to merge a value of the field ...
Merging(t, r, f) ==
  Committed(t) /\ txn[t].pending[r] # None /\ txn[t].pending[r].value[f] # None

\* ... and no later one is.
Latest(t, r, f) ==
  /\ Merging(t, r, f)
  /\ \A u \in Threads : Merging(u, r, f) => txn[u].number <= txn[t].number

\* Unless it was overtaken, the row's value of the field is the one that the
\* latest of them will merge, and without any of them the one in to_sync.
CurrentOK(r, f) ==
  <<r, f>> \notin overtaken =>
    /\ \A t \in Threads : Latest(t, r, f) => txn[t].pending[r].value[f] = local[r].data[f]
    /\ (\A t \in Threads : ~Merging(t, r, f)) /\ to_sync[r] # None =>
         to_sync[r].value[f] \in {None, local[r].data[f]}

CurrentInv == InOrder /\ \A r \in Rows, f \in Fields : CurrentOK(r, f)

\* What a step leaves of the transactions that are to be merged.
LEMMA OrderKept ==
  ASSUME InOrder, writes' = writes,
         \A t \in Threads : txn'[t] # None =>
           /\ txn[t] # None /\ txn'[t].number = txn[t].number
           /\ txn'[t].change # None => txn[t].change # None
  PROVE  InOrder'
BY DEF InOrder, Flushed

LEMMA FieldKept ==
  ASSUME NEW r \in Rows, NEW f \in Fields, CurrentOK(r, f),
         overtaken \subseteq overtaken', local'[r].data[f] = local[r].data[f],
         \A t \in Threads : /\ Merging(t, r, f)' <=> Merging(t, r, f)
                            /\ Merging(t, r, f) =>
                                 /\ txn'[t].number = txn[t].number
                                 /\ txn'[t].pending[r] = txn[t].pending[r],
         to_sync'[r] # None => \/ to_sync[r] # None /\ to_sync'[r].value[f] = to_sync[r].value[f]
                               \/ to_sync'[r].value[f] = None
  PROVE  CurrentOK(r, f)'
<1>1. \A t \in Threads : Latest(t, r, f)' => Latest(t, r, f)
  BY DEF Latest
<1> QED
  BY <1>1 DEF CurrentOK, Latest

\* What a commit makes of one field.
LEMMA CommitWrites ==
  ASSUME IInv, NEW t \in Threads, DbCommit(t), NEW r \in Rows, NEW f \in Fields
  PROVE  LET ch == txn[t].change[r]
             new == txn[t].pending[r]
         IN  /\ f \in Set(ch) => /\ new # None /\ new.value[f] # None
                                 /\ local'[r].data[f] = new.value[f]
             /\ f \notin Set(ch) => /\ new = None \/ new.value[f] = None
                                    /\ local'[r].data[f] = local[r].data[f]
<1> DEFINE x == txn[t]
           ch == x.change[r]
<1>1. x # None /\ x.change # None /\ x \in Txn /\ FlushOK(x)
  BY DEF DbCommit, Flushed, IInv, TypeOK, TxnsOK
<1>2. ch \in Change /\ local[r] \in Row \cup {None}
  BY <1>1 DEF Txn, IInv, TypeOK
<1>3. x.pending[r] = Collected(ch) /\ (local[r] = None /\ Changes(ch) => Set(ch) = Fields)
  BY <1>1 DEF FlushOK
<1>4. local'[r] = Applied(local[r], ch)
  BY DEF DbCommit
<1> HIDE DEF ch
<1>5. /\ x.pending[r] # None => x.pending[r].value = ch.set
      /\ x.pending[r] = None <=> Set(ch) = {}
  BY <1>2, <1>3, CollectedTyped
<1>6. /\ ~Changes(ch) => local'[r] = local[r]
      /\ Changes(ch) => local'[r].data[f] = IF f \in Set(ch) THEN ch.set[f] ELSE local[r].data[f]
  BY <1>2, <1>3, <1>4, AppliedTyped
<1>7. f \in Set(ch) <=> ch.set[f] # None
  BY DEF Set
<1> QED
  BY <1>5, <1>6, <1>7 DEF ch, Changes

LEMMA FlushCurrent ==
  ASSUME IInv, CurrentInv, NEW t \in Threads, NEW change \in [Rows -> Change], Flush(t, change)
  PROVE  CurrentInv'
<1> DEFINE x == [change |-> change, pending |-> [r \in Rows |-> Collected(change[r])],
                 at |-> None, number |-> writes']
<1>1. /\ txn[t] = None /\ \A o \in Threads : ~Flushed(o)
      /\ UNCHANGED <<local, to_sync, overtaken>> /\ writes' = writes + 1 /\ writes \in Nat
  BY BoundAssumption DEF Flush, IInv, TypeOK
<1>2. x # None /\ x.change # None /\ x.number = writes + 1
  <2>1. x \in Txn
    <3>1. x.pending \in [Rows -> Entry \cup {None}]
      BY CollectedTyped
    <3> QED
      BY <1>1, <3>1 DEF Txn
  <2> QED
    BY <1>1, <2>1, NoneAssumption
<1>3. txn'[t] = x /\ OthersStay(t)
  BY DEF Flush, IInv, TypeOK, OthersStay
<1> HIDE DEF x
<1>4. InOrder'
  <2>1. \A u \in Threads : txn[u] # None => txn[u].number \in Nat
    BY DEF IInv, TypeOK, Txn
  <2>2. \A u \in Threads : u # t /\ txn'[u] # None =>
          txn'[u].number = txn[u].number /\ txn[u] # None /\ txn[u].number <= writes /\ ~Flushed(u)'
    BY <1>1, <1>3 DEF OthersStay, CurrentInv, InOrder, Flushed
  <2> QED
    BY <1>1, <1>2, <1>3, <2>1, <2>2 DEF CurrentInv, InOrder, OthersStay
<1>5. \A r \in Rows, f \in Fields : CurrentOK(r, f)'
  <2> SUFFICES ASSUME NEW r \in Rows, NEW f \in Fields PROVE CurrentOK(r, f)'
    OBVIOUS
  <2>1. CurrentOK(r, f)
    BY DEF CurrentInv
  <2>2. \A o \in Threads : /\ Merging(o, r, f)' <=> Merging(o, r, f)
                           /\ Merging(o, r, f) => txn'[o] = txn[o]
    BY <1>1, <1>2, <1>3 DEF Merging, Committed, OthersStay
  <2> QED
    BY <1>1, <2>1, <2>2, FieldKept
<1> QED
  BY <1>4, <1>5 DEF CurrentInv

LEMMA CommitCurrent ==
  ASSUME IInv, CurrentInv, NEW t \in Threads, DbCommit(t)
  PROVE  CurrentInv'
<1> DEFINE x == txn[t]
           y == [x EXCEPT !.change = None]
<1>1. /\ x # None /\ x.change # None /\ x \in Txn /\ Flushed(t)
      /\ UNCHANGED <<to_sync, overtaken, writes>>
  BY DEF DbCommit, Flushed, IInv, TypeOK
<1>2. /\ y # None /\ y.change = None /\ y.pending = x.pending /\ y.number = x.number
  BY <1>1, NoneAssumption DEF Txn
<1>3. txn'[t] = y /\ OthersStay(t)
  BY DEF DbCommit, IInv, TypeOK, OthersStay
<1> HIDE DEF y
<1>4. InOrder'
  BY <1>1, <1>2, <1>3, OrderKept DEF CurrentInv, OthersStay
<1>5. \A r \in Rows, f \in Fields : CurrentOK(r, f)'
  <2> SUFFICES ASSUME NEW r \in Rows, NEW f \in Fields PROVE CurrentOK(r, f)'
    OBVIOUS
  <2>1. CurrentOK(r, f) /\ ~Merging(t, r, f)
    BY <1>1 DEF CurrentInv, Merging, Committed
  <2>2. \A o \in Threads : o # t => /\ Merging(o, r, f)' <=> Merging(o, r, f)
                                    /\ txn'[o] = txn[o]
    BY <1>3 DEF Merging, Committed, OthersStay
  <2>3. CASE f \in Set(x.change[r])
    <3>1. /\ x.pending[r] # None /\ x.pending[r].value[f] # None
          /\ local'[r].data[f] = x.pending[r].value[f]
      BY <2>3, CommitWrites
    <3>2. Merging(t, r, f)'
      BY <1>2, <1>3, <3>1 DEF Merging, Committed
    <3>3. \A o \in Threads : o # t /\ Merging(o, r, f)' =>
            o \in Threads /\ txn'[o].number \in Nat /\ txn'[o].number < txn'[t].number
      BY <1>1, <1>2, <1>3, <2>2 DEF CurrentInv, InOrder, Merging, Committed, IInv, TypeOK, Txn
    <3>4. txn'[t].number \in Nat
      BY <1>1, <1>2, <1>3 DEF Txn
    <3>5. \A o \in Threads : Latest(o, r, f)' => o = t
      BY <3>2, <3>3, <3>4 DEF Latest
    <3> QED
      BY <1>2, <1>3, <3>1, <3>2, <3>5 DEF CurrentOK
  <2>4. CASE f \notin Set(x.change[r])
    <3>1. /\ x.pending[r] = None \/ x.pending[r].value[f] = None
          /\ local'[r].data[f] = local[r].data[f]
      BY <2>4, CommitWrites
    <3>2. ~Merging(t, r, f)'
      BY <1>2, <1>3, <3>1 DEF Merging, Committed
    <3> QED
      BY <1>1, <2>1, <2>2, <3>1, <3>2, FieldKept
  <2> QED
    BY <2>3, <2>4
<1> QED
  BY <1>4, <1>5 DEF CurrentInv

\* A transaction that no longer has anything to merge goes.
LEMMA EndCurrent ==
  ASSUME IInv, CurrentInv, NEW t \in Threads, Rollback(t) \/ MergeEnds(t)
  PROVE  CurrentInv'
<1>1. txn'[t] = None /\ OthersStay(t) /\ UNCHANGED <<local, to_sync, overtaken, writes>>
  BY DEF Rollback, MergeEnds, IInv, TypeOK, OthersStay
<1>2. InOrder'
  BY <1>1, OrderKept DEF CurrentInv, OthersStay
<1>3. \A r \in Rows, f \in Fields : CurrentOK(r, f)'
  <2> SUFFICES ASSUME NEW r \in Rows, NEW f \in Fields PROVE CurrentOK(r, f)'
    OBVIOUS
  <2>1. CurrentOK(r, f) /\ ~Merging(t, r, f)
    BY DEF CurrentInv, Merging, Committed, Rollback, MergeEnds, Flushed
  <2>2. \A o \in Threads : /\ Merging(o, r, f)' <=> Merging(o, r, f)
                           /\ Merging(o, r, f) => txn'[o] = txn[o]
    BY <1>1, <2>1 DEF Merging, Committed, OthersStay
  <2> QED
    BY <1>1, <2>1, <2>2, FieldKept
<1> QED
  BY <1>2, <1>3 DEF CurrentInv

LEMMA SetDefaultCurrent ==
  ASSUME IInv, CurrentInv, NEW t \in Threads, NEW q \in Rows, SetDefault(t, q)
  PROVE  CurrentInv'
<1> DEFINE x == txn[t]
           y == [x EXCEPT !.at = q]
<1>1. /\ x # None /\ x.change = None /\ x \in Txn
      /\ UNCHANGED <<local, overtaken, writes>>
  BY DEF SetDefault, Committed, IInv, TypeOK
<1>2. y # None /\ y.change = None /\ y.pending = x.pending /\ y.number = x.number
  BY <1>1, NoneAssumption DEF Txn
<1>3. txn'[t] = y /\ OthersStay(t)
  BY DEF SetDefault, IInv, TypeOK, OthersStay
<1>4. \A r \in Rows : to_sync'[r] = to_sync[r] \/ to_sync'[r] = EmptyDict
  BY DEF SetDefault, IInv, TypeOK
<1> HIDE DEF y
<1>5. InOrder'
  BY <1>1, <1>2, <1>3, OrderKept DEF CurrentInv, OthersStay
<1>6. \A r \in Rows, f \in Fields : CurrentOK(r, f)'
  <2> SUFFICES ASSUME NEW r \in Rows, NEW f \in Fields PROVE CurrentOK(r, f)'
    OBVIOUS
  <2>1. CurrentOK(r, f)
    BY DEF CurrentInv
  <2>2. \A o \in Threads : /\ Merging(o, r, f)' <=> Merging(o, r, f)
                           /\ Merging(o, r, f) => /\ txn'[o].number = txn[o].number
                                                  /\ txn'[o].pending[r] = txn[o].pending[r]
    BY <1>1, <1>2, <1>3 DEF Merging, Committed, OthersStay
  <2>3. EmptyDict.value[f] = None
    BY EmptyDictWell
  <2> QED
    BY <1>1, <1>4, <2>1, <2>2, <2>3, FieldKept
<1> QED
  BY <1>5, <1>6 DEF CurrentInv

LEMMA UpdateDictCurrent ==
  ASSUME IInv, CurrentInv, NEW t \in Threads, NEW q \in Rows, UpdateDict(t, q)
  PROVE  CurrentInv'
<1> DEFINE x == txn[t]
           y == [x EXCEPT !.pending = [x.pending EXCEPT ![q] = None], !.at = None]
           e == Merged(to_sync[q], x.pending[q])
<1>1. /\ x # None /\ x.change = None /\ x \in Txn /\ Committed(t)
      /\ overtaken \subseteq overtaken' /\ UNCHANGED <<local, writes>>
  BY DEF UpdateDict, Committed, IInv, TypeOK
<1>2. /\ y # None /\ y.change = None /\ y.number = x.number /\ y.pending[q] = None
      /\ \A p \in Rows : p # q => y.pending[p] = x.pending[p]
  <2>1. y \in Txn
    BY <1>1 DEF Txn
  <2> QED
    BY <1>1, <2>1, NoneAssumption DEF Txn
<1>3. txn'[t] = y /\ OthersStay(t)
  BY DEF UpdateDict, IInv, TypeOK, OthersStay
<1>4. to_sync'[q] = e /\ \A p \in Rows : p # q => to_sync'[p] = to_sync[p]
  BY DEF UpdateDict, IInv, TypeOK
<1>5. /\ x.pending[q] # None /\ to_sync[q] # None
      /\ \A f \in Fields : e.value[f] =
           IF x.pending[q].value[f] # None THEN x.pending[q].value[f] ELSE to_sync[q].value[f]
  BY <1>1, NoneAssumption DEF UpdateDict, IInv, MergesOK, InPlace, Merged
<1> HIDE DEF y, e
<1>6. InOrder'
  BY <1>1, <1>2, <1>3, OrderKept DEF CurrentInv, OthersStay
<1>7. \A r \in Rows, f \in Fields : CurrentOK(r, f)'
  <2> SUFFICES ASSUME NEW r \in Rows, NEW f \in Fields PROVE CurrentOK(r, f)'
    OBVIOUS
  <2>1. CurrentOK(r, f)
    BY DEF CurrentInv
  <2>2. \A o \in Threads : o # t => /\ Merging(o, r, f)' <=> Merging(o, r, f)
                                    /\ txn'[o] = txn[o]
    BY <1>3 DEF Merging, Committed, OthersStay
  <2>3. CASE q # r \/ x.pending[q].value[f] = None
    <3>1. /\ Merging(t, r, f)' <=> Merging(t, r, f)
          /\ Merging(t, r, f) => txn'[t].pending[r] = x.pending[r]
      BY <1>1, <1>2, <1>3, <2>3 DEF Merging, Committed
    <3>2. to_sync'[r] # None => to_sync[r] # None /\ to_sync'[r].value[f] = to_sync[r].value[f]
      BY <1>4, <1>5, <2>3
    <3> QED
      BY <1>1, <1>2, <1>3, <2>1, <2>2, <3>1, <3>2, FieldKept
  <2>4. CASE q = r /\ x.pending[q].value[f] # None
    <3> SUFFICES ASSUME <<r, f>> \notin overtaken'
                 PROVE  /\ \A u \in Threads : Latest(u, r, f)' =>
                             txn'[u].pending[r].value[f] = local[r].data[f]
                        /\ (\A u \in Threads : ~Merging(u, r, f)') =>
                             to_sync'[r].value[f] = local[r].data[f]
      BY <1>1 DEF CurrentOK
    <3>1. Merging(t, r, f) /\ ~Merging(t, r, f)'
      BY <1>1, <1>2, <1>3, <1>5, <2>4 DEF Merging
    <3>2. ~Overtakes(t, r, f)
      BY <2>4 DEF UpdateDict
    <3>3. \A u \in Threads : u # t /\ Merging(u, r, f) =>
            txn[u].number \in Nat /\ txn[t].number \in Nat /\ txn[t].number <= txn[u].number
      BY <1>1, <3>2 DEF Overtakes, Merging, Committed, IInv, TypeOK, Txn
    <3>4. ASSUME NEW u \in Threads, Latest(u, r, f)' PROVE Latest(u, r, f) /\ u # t
      BY <2>2, <3>1, <3>3, <3>4 DEF Latest
    <3>5. ASSUME \A u \in Threads : ~Merging(u, r, f)' PROVE to_sync'[r].value[f] = local[r].data[f]
      <4>1. Latest(t, r, f)
        BY <1>1, <2>2, <3>1, <3>5 DEF Latest, Txn
      <4>2. x.pending[r].value[f] = local[r].data[f]
        BY <1>1, <2>1, <4>1 DEF CurrentOK
      <4> QED
        BY <1>4, <1>5, <2>4, <4>2
    <3> QED
      BY <1>1, <2>1, <2>2, <3>4, <3>5 DEF CurrentOK
  <2> QED
    BY <2>3, <2>4
<1> QED
  BY <1>6, <1>7 DEF CurrentInv

LEMMA CurrentKept ==
  ASSUME IInv, CurrentInv, [Next]_vars
  PROVE  CurrentInv'
<1>1. CASE Restart
  <2>1. \A r \in Rows : to_sync'[r] = None
    BY <1>1 DEF Restart
  <2>2. \A t \in Threads : txn'[t] = None
    BY <1>1 DEF Restart
  <2> QED
    BY <2>1, <2>2 DEF CurrentInv, InOrder, CurrentOK, Latest, Merging, Committed
<1>2. CASE \/ SyncStart \/ (\E q \in Rows : SyncStep(q))
           \/ SyncCommit \/ SyncRaises \/ RemoteFails \/ UNCHANGED vars
  <2>1. UNCHANGED <<local, to_sync, txn, overtaken, writes>>
    BY <1>2 DEF SyncStart, SyncStep, SyncCommit, SyncRaises, RemoteFails, vars
  <2> QED
    BY <2>1 DEF CurrentInv, InOrder, CurrentOK, Latest, Merging, Committed, Flushed
<1> QED
  BY <1>1, <1>2, FlushCurrent, CommitCurrent, EndCurrent, SetDefaultCurrent, UpdateDictCurrent
  DEF Next, AfterCommit

\* OnlyOvertakenStale: with any number of threads, only after_commit of two
\* commits run in the other order leaves an older value in to_sync (_commit_sync).
THEOREM QueueCurrent == Spec => []OnlyOvertakenStale
<1>1. Init => CurrentInv
  BY DEF Init, CurrentInv, InOrder, CurrentOK, Latest, Merging, Committed
<1>2. IInv /\ CurrentInv /\ [Next]_vars => CurrentInv'
  BY CurrentKept
<1>3. CurrentInv => OnlyOvertakenStale
  BY DEF CurrentInv, CurrentOK, OnlyOvertakenStale, Merging, Recorded
<1> QED
  BY <1>1, <1>2, <1>3, Invariance, PTL DEF Spec
=============================================================================
