------------------------------ MODULE DualSync ------------------------------
(***************************************************************************)
(* SyncedDualDatabases: a local SQLite database and a remote MariaDB.       *)
(* Listeners on the local sessions collect in to_sync, in memory, what      *)
(* transactions change; sync_remote applies it to the remote database.      *)
(*                                                                         *)
(* A local transaction has these steps: the flush, which takes SQLite's     *)
(* write lock and collects pending_sync; the commit; and, after it, for     *)
(* each row of pending_sync, one that makes sure to_sync has a dict for it  *)
(* and one that updates that dict.  sync_remote visits one entry of to_sync *)
(* per step.  Threads of the process run between them.                      *)
(***************************************************************************)
EXTENDS Naturals, Sequences, FiniteSets

CONSTANTS
  Threads,     \* threads that use the local database
  Rows,        \* ids of rows of a supported model
  Seeded,      \* rows that both databases hold at the start
  Tracked,     \* the model's field list, such as vault_entry_fields
  Values,
  Old,         \* the value of every field at the start
  None,
  RowsOf,      \* bound: the rows that the transactions of each thread change
  MaxWrites,   \* bound: local transactions
  MaxFaults    \* bound: failures of the remote database and restarts together

Fields == {Tracked[i] : i \in 1 .. Len(Tracked)}

\* deleted_at is in no field list; live is "deleted_at IS NULL".
Row == [data : [Fields -> Values], live : BOOLEAN]

\* What a transaction does to one row: the fields it sets, and whether it
\* stamps deleted_at.
Change == [set : [Fields -> Values \cup {None}], delete : BOOLEAN]

\* A dict {field: value}, with its first key: a dict keeps insertion order.
Entry == [value : [Fields -> Values \cup {None}], first : Fields \cup {None}]

EmptyDict == [value |-> [f \in Fields |-> None], first |-> None]

\* A local transaction: the changes it will commit, None once it has;
\* session.info["pending_sync"]; the row whose dict in to_sync it is about to
\* update; and, for the properties, its place in the order of commits.
Txn == [change : [Rows -> Change] \cup {None},
        pending : [Rows -> Entry \cup {None}],
        at : Rows \cup {None},
        number : Nat]

\* A call of sync_remote: the entries still to visit, len(to_sync) when the
\* iteration began, what it has set in remote objects, and what failed.
Sync == [todo : SUBSET Rows, size : 0 .. Cardinality(Rows),
         staged : [Rows -> (Fields \X Values) \cup {None}],
         failed : SUBSET Rows]

ASSUME StartAssumption ==
  /\ Tracked \in Seq(Fields) /\ Len(Tracked) > 0
  /\ Seeded \subseteq Rows /\ IsFiniteSet(Rows)
  /\ Old \in Values
ASSUME NoneAssumption ==
  /\ None \notin Values \cup Rows \cup Fields \cup Row \cup Entry
  /\ None \notin Txn \cup [Rows -> Change]
  /\ None \notin Sync
  /\ None \notin Fields \X Values
ASSUME BoundAssumption ==
  RowsOf \in [Threads -> SUBSET Rows] /\ MaxWrites \in Nat /\ MaxFaults \in Nat

VARIABLES
  local,    \* the SQLite database
  remote,   \* the MariaDB database
  to_sync,  \* the entry of each row, or None
  txn,      \* the local transaction of each thread
  sync,     \* the call of sync_remote under way
  writes,   \* how many local transactions there have been
  failures, \* how often the remote database has failed
  restarts, \* how often the process has started again
  history,  \* every value that each field of a row has had locally
  overtaken \* the fields of rows for which after_commit of a later commit ran
            \* before that of an earlier one

vars == <<local, remote, to_sync, txn, sync, writes, failures, restarts, history,
          overtaken>>

TypeOK ==
  /\ local \in [Rows -> Row \cup {None}]
  /\ remote \in [Rows -> Row \cup {None}]
  /\ to_sync \in [Rows -> Entry \cup {None}]
  /\ txn \in [Threads -> Txn \cup {None}]
  /\ sync \in Sync \cup {None}
  /\ writes \in 0 .. MaxWrites
  /\ failures \in 0 .. MaxFaults
  /\ restarts \in 0 .. MaxFaults
  /\ history \in [Rows -> SUBSET (Fields \X Values)]
  /\ overtaken \subseteq Rows \X Fields

Init ==
  /\ local = [r \in Rows |-> IF r \in Seeded
                THEN [data |-> [f \in Fields |-> Old], live |-> TRUE] ELSE None]
  /\ history = [r \in Rows |-> IF r \in Seeded THEN Fields \X {Old} ELSE {}]
  /\ remote = local
  /\ to_sync = [r \in Rows |-> None]
  /\ txn = [t \in Threads |-> None]
  /\ sync = None
  /\ writes = 0
  /\ failures = 0
  /\ restarts = 0
  /\ overtaken = {}

----------------------------------------------------------------------------
(* Collecting.  An operator named after another with an underscore is a     *)
(* slip a programmer could make in it; no definition of the model uses one. *)

Set(change) == {f \in Fields : change.set[f] # None}

\* _add_to_sync goes through a changed row's fields in the order of Tracked.
First(fields) ==
  LET places == {i \in 1 .. Len(Tracked) : Tracked[i] \in fields}
  IN  Tracked[CHOOSE i \in places : \A j \in places : i <= j]

\* The pending_sync entry of a changed row.
Collected(change) ==
  IF Set(change) = {} THEN None
                      ELSE [value |-> change.set, first |-> First(Set(change))]

\* Every change that a transaction can make to a row: an insert sets every
\* field, an update those whose value differs from the one it loaded, which
\* need not be the latest.  A row that was live then may be a tombstone by now.
Possible(r) ==
  {ch \in Change :
     \/ Set(ch) = {} /\ ~ch.delete
     \/ local[r] = None /\ Set(ch) = Fields /\ ~ch.delete
     \/ /\ local[r] # None
        /\ ch.delete => Set(ch) = {}
        /\ \A f \in Set(ch) : \E v \in Values : <<f, v>> \in history[r] /\ v # ch.set[f]}

Changes(ch) == Set(ch) # {} \/ ch.delete

Flushed(t)   == txn[t] # None /\ txn[t].change # None
Committed(t) == txn[t] # None /\ txn[t].change = None

\* The commit's flush: save_passwords changes several rows, delete_user all
\* of them.  A transaction that flushed holds SQLite's write lock.
Flush(t, change) ==
  /\ txn[t] = None
  /\ \A o \in Threads : ~Flushed(o)
  /\ writes < MaxWrites
  /\ \A r \in Rows : change[r] \in Possible(r)
  /\ \E r \in Rows : Changes(change[r])
  /\ \A r \in Rows \ RowsOf[t] : ~Changes(change[r])
  /\ writes' = writes + 1
  /\ txn' = [txn EXCEPT ![t] =
               [change |-> change,
                pending |-> [r \in Rows |-> Collected(change[r])],
                at |-> None, number |-> writes']]
  /\ UNCHANGED <<local, remote, to_sync, sync, failures, restarts, history, overtaken>>

StillLive(row, ch) == ~ch.delete /\ (row = None \/ row.live)

Applied_NullsRest(row, ch) ==
  IF ~Changes(ch) THEN row ELSE [data |-> ch.set, live |-> StillLive(row, ch)]

Applied(row, ch) ==
  IF ~Changes(ch) THEN row
  ELSE [data |-> [f \in Fields |-> IF ch.set[f] # None THEN ch.set[f] ELSE row.data[f]],
        live |-> StillLive(row, ch)]

DbCommit(t) ==
  /\ Flushed(t)
  /\ local' = [r \in Rows |-> Applied(local[r], txn[t].change[r])]
  /\ history' = [r \in Rows |-> history[r] \cup
                   {<<f, local'[r].data[f]>> : f \in Set(txn[t].change[r])}]
  /\ txn' = [txn EXCEPT ![t].change = None]
  /\ UNCHANGED <<remote, to_sync, sync, writes, failures, restarts, overtaken>>

\* pending_sync goes with the session, which db.session() removes.
Rollback_StillMerges(t) ==
  /\ Flushed(t)
  /\ txn' = [txn EXCEPT ![t].change = None]
  /\ UNCHANGED <<local, remote, to_sync, sync, writes, failures, restarts, history, overtaken>>

Rollback(t) ==
  /\ Flushed(t)
  /\ txn' = [txn EXCEPT ![t] = None]
  /\ UNCHANGED <<local, remote, to_sync, sync, writes, failures, restarts, history, overtaken>>

Merged_Replaced(entry, new) == new

Merged_FirstWins(entry, new) ==
  [first |-> IF entry.first = None THEN new.first ELSE entry.first,
   value |-> [f \in Fields |-> IF entry.value[f] # None THEN entry.value[f]
                                                        ELSE new.value[f]]]

\* entry.update(new): the first key stays the first.
Merged(entry, new) ==
  [first |-> IF entry.first = None THEN new.first ELSE entry.first,
   value |-> [f \in Fields |-> IF new.value[f] # None THEN new.value[f]
                                                      ELSE entry.value[f]]]

\* The commits before t's whose value for the same field has yet to be merged.
Overtakes(t, r, f) ==
  \E u \in Threads \ {t} :
    /\ Committed(u) /\ txn[u].number < txn[t].number
    /\ txn[u].pending[r] # None /\ txn[u].pending[r].value[f] # None

\* _commit_sync goes to the next row, to_sync.setdefault(row, {}), ...
SetDefault(t, r) ==
  /\ Committed(t) /\ txn[t].at = None
  /\ txn[t].pending[r] # None
  /\ to_sync' = [to_sync EXCEPT ![r] = IF @ = None THEN EmptyDict ELSE @]
  /\ txn' = [txn EXCEPT ![t].at = r]
  /\ UNCHANGED <<local, remote, sync, writes, failures, restarts, history, overtaken>>

\* ... and then .update(fields) of that dict, ...
UpdateDict(t, r) ==
  /\ Committed(t) /\ txn[t].at = r /\ r \in Rows
  /\ to_sync' = [to_sync EXCEPT ![r] = Merged(@, txn[t].pending[r])]
  /\ txn' = [txn EXCEPT ![t].pending[r] = None, ![t].at = None]
  /\ overtaken' = overtaken \cup
       {<<r, f>> : f \in {g \in Fields : /\ txn[t].pending[r].value[g] # None
                                         /\ Overtakes(t, r, g)}}
  /\ UNCHANGED <<local, remote, sync, writes, failures, restarts, history>>

\* ... until it returns.
MergeEnds(t) ==
  /\ Committed(t) /\ \A r \in Rows : txn[t].pending[r] = None
  /\ txn' = [txn EXCEPT ![t] = None]
  /\ UNCHANGED <<local, remote, to_sync, sync, writes, failures, restarts, history, overtaken>>

AfterCommit(t) == (\E r \in Rows : SetDefault(t, r) \/ UpdateDict(t, r)) \/ MergeEnds(t)

----------------------------------------------------------------------------
(* sync_remote *)

Recorded == {r \in Rows : to_sync[r] # None}

SyncStart ==
  /\ sync = None
  /\ sync' = [todo |-> Recorded, size |-> Cardinality(Recorded),
              staged |-> [r \in Rows |-> None], failed |-> {}]
  /\ UNCHANGED <<local, remote, to_sync, txn, writes, failures, restarts, history, overtaken>>

\* A dict that grew raises when the iteration goes on, or would end.
Intact == sync.size = Cardinality(Recorded)

\* next(iter(...)) of a dict that _commit_sync has yet to fill raises
\* StopIteration, but not for a row that the remote database does not have.
FindsEmpty(r) == remote[r] # None /\ to_sync[r].first = None

Sent_Last(entry) ==
  Tracked[CHOOSE i \in 1 .. Len(Tracked) :
            /\ entry.value[Tracked[i]] # None
            /\ \A j \in i + 1 .. Len(Tracked) : entry.value[Tracked[j]] = None]

\* The one field of an entry that next(iter(...)) yields.
Sent(entry) == entry.first

\* The next entry: a row that the remote database does not have fails.
SyncStep(r) ==
  /\ sync # None /\ r \in sync.todo /\ Intact /\ ~FindsEmpty(r)
  /\ LET f == Sent(to_sync[r])
     IN  sync' = [sync EXCEPT
           !.todo = @ \ {r},
           !.staged[r] = IF remote[r] = None THEN None ELSE <<f, to_sync[r].value[f]>>,
           !.failed = IF remote[r] = None THEN @ \cup {r} ELSE @]
  /\ UNCHANGED <<local, remote, to_sync, txn, writes, failures, restarts, history, overtaken>>

\* The remote transaction commits.  Success is reported when nothing failed;
\* to_sync is left as it is.
SyncCommit ==
  /\ sync # None /\ sync.todo = {} /\ Intact
  /\ remote' = [r \in Rows |->
       IF sync.staged[r] = None THEN remote[r]
       ELSE [remote[r] EXCEPT !.data[sync.staged[r][1]] = sync.staged[r][2]]]
  /\ sync' = None
  /\ UNCHANGED <<local, to_sync, txn, writes, failures, restarts, history, overtaken>>

\* The iteration or the next entry raised, and the remote transaction rolls back.
SyncRaises ==
  /\ sync # None
  /\ ~Intact \/ \E r \in sync.todo : FindsEmpty(r)
  /\ sync' = None
  /\ UNCHANGED <<local, remote, to_sync, txn, writes, failures, restarts, history, overtaken>>

\* So it does when the remote database raises.
RemoteFails ==
  /\ sync # None
  /\ failures + restarts < MaxFaults
  /\ failures' = failures + 1
  /\ sync' = None
  /\ UNCHANGED <<local, remote, to_sync, txn, writes, restarts, history, overtaken>>

\* The process ends at any point and a new one starts.
Restart ==
  /\ failures + restarts < MaxFaults
  /\ restarts' = restarts + 1
  /\ to_sync' = [r \in Rows |-> None]
  /\ txn' = [t \in Threads |-> None]
  /\ sync' = None
  /\ overtaken' = {}
  /\ UNCHANGED <<local, remote, writes, failures, history>>

----------------------------------------------------------------------------

Next ==
  \/ \E t \in Threads :
       \/ \E change \in [Rows -> Change] : Flush(t, change)
       \/ DbCommit(t)
       \/ Rollback(t)
       \/ AfterCommit(t)
  \/ SyncStart
  \/ \E r \in Rows : SyncStep(r)
  \/ SyncCommit
  \/ SyncRaises
  \/ RemoteFails
  \/ Restart

Spec == Init /\ [][Next]_vars

\* No thread stops half way, and the application calls sync_remote again and
\* again; MaxFaults says that the remote database does not fail for ever.
Fairness ==
  /\ \A t \in Threads : WF_vars(DbCommit(t)) /\ WF_vars(AfterCommit(t))
  /\ WF_vars(SyncStart) /\ WF_vars(SyncRaises) /\ WF_vars(SyncCommit)
  /\ \A r \in Rows : WF_vars(SyncStep(r))

FairSpec == Spec /\ Fairness

----------------------------------------------------------------------------
(* Properties *)

\* The value that waits for the remote database, or None: pending_sync of a
\* committed transaction will be merged over to_sync.
Waiting(r, f) ==
  {txn[t].pending[r].value[f] :
     t \in {u \in Threads : Committed(u) /\ txn[u].pending[r] # None}}
  \cup (IF to_sync[r] = None THEN {} ELSE {to_sync[r].value[f]})

\* No committed change of a tracked field is forgotten while the process
\* lives, whatever later commits touch: where the remote row differs from the
\* local one, a value waits (_add_to_sync, _commit_sync).
NothingForgotten ==
  restarts = 0 =>
  \A r \in Rows, f \in Fields :
    /\ local[r] # None /\ remote[r] # None
    /\ local[r].data[f] # remote[r].data[f]
    => Waiting(r, f) \ {None} # {}

\* A field's value in to_sync is the local row's once no thread has one to merge,
\* whatever else their transactions do meanwhile: only after_commit of two commits
\* of the very field, run in the other order than the commits, leaves an older
\* value there for good (_commit_sync).
OnlyOvertakenStale ==
  \A r \in Recorded, f \in Fields :
    /\ <<r, f>> \notin overtaken
    /\ \A t \in Threads :
         Committed(t) /\ txn[t].pending[r] # None => txn[t].pending[r].value[f] = None
    => to_sync[r].value[f] \in {None, local[r].data[f]}

\* Nothing reaches the remote database that the local one has not committed,
\* whatever rolls back or crashes, and a sync never makes up a row
\* (sync_remote, _commit_sync).
RemoteWasLocal ==
  \A r \in Rows : remote[r] # None =>
    \A f \in Fields : <<f, remote[r].data[f]>> \in history[r]

Heads(r, f, v) ==
  to_sync[r] # None /\ to_sync[r].first = f /\ to_sync[r].value[f] = v

\* What to_sync records first of a row that the remote database has gets
\* there in the end, unless a later commit supersedes it, even while commits
\* make calls of sync_remote fail (sync_remote).
FirstFieldArrives ==
  \A r \in Seeded, f \in Fields, v \in Values :
    Heads(r, f, v) ~> remote[r].data[f] = v \/ ~Heads(r, f, v)

\* When sync_remote answers "All entries were synched!", every value that
\* to_sync held has arrived.
SuccessMeansSynced ==
  [][SyncCommit /\ sync.failed = {} =>
       \A r \in Recorded, f \in Fields :
         to_sync[r].value[f] # None => remote'[r].data[f] = to_sync[r].value[f]]_vars
=============================================================================
