------------------------------ MODULE DbManager ------------------------------
(***************************************************************************)
(* DatabaseManager: the engine, the session factory made for it, the blocks *)
(* of session(), and the listeners that SyncedDualDatabases attaches to the *)
(* factory.                                                                *)
(*                                                                         *)
(* init_sqlite, init_mariadb and dispose assign _engine and                *)
(* _session_factory in different statements, and a block reads              *)
(* _session_factory to test it, to call it, and again when it ends.  There  *)
(* is no lock: every such read or write is a step of its own thread.        *)
(***************************************************************************)
EXTENDS Naturals

CONSTANTS
  Threads,
  Managers,   \* threads that initialise or dispose the manager
  Urls,       \* databases; an engine is named by its database
  None,
  MaxInits    \* bound: session factories that are made

\* What a MariaDB connection can be configured by, if not by a full URL.
Components == {"username", "password", "host", "port", "database"}

\* A factory: the engine that it was bound to, and a number that tells it from
\* the others.
Factory == [bind : Urls \cup {None}, number : 1 .. MaxInits]

\* A call of init_*, dispose or SyncedDualDatabases(): its database (None for a
\* configuration that is refused), the engine that _setup_factory has read, and
\* the next statement.
Call == [kind : {"init", "dispose", "sync"}, url : Urls \cup {None},
         bind : Urls \cup {None},
         next : {"drop engine", "drop factory", "engine", "bind", "factory",
                 "tables", "listen"}]

\* A session() block: the factory that it called, once it has, and, for the
\* properties, whether the manager has been disposed since it began.
Block == [on : Factory \cup {None}, dropped : BOOLEAN,
          state : {"checked", "open", "committed", "failed"}]

Outcome == [raised : BOOLEAN, committed : BOOLEAN, dropped : BOOLEAN]

ASSUME ThreadsAssumption == Managers \subseteq Threads
ASSUME NoneAssumption ==
  None \notin Urls \cup Factory \cup Call \cup Block \cup Outcome \cup (1 .. MaxInits)
ASSUME BoundAssumption == MaxInits \in Nat

VARIABLES
  engine,    \* _engine
  factory,   \* _session_factory
  tables,    \* databases whose tables exist
  failed,    \* databases on which create_tables failed last time
  call,      \* what each manager has under way
  block,     \* the block each thread is in
  outcome,   \* how each thread's last block ended
  listening, \* the number of the factory that the listeners are attached to
  left,      \* for the properties: the manager was disposed since they were
  inits      \* how many factories have been made

vars == <<engine, factory, tables, failed, call, block, outcome, listening, left, inits>>

TypeOK ==
  /\ engine \in Urls \cup {None}
  /\ factory \in Factory \cup {None}
  /\ tables \subseteq Urls /\ failed \subseteq Urls
  /\ call \in [Managers -> Call \cup {None}]
  /\ block \in [Threads -> Block \cup {None}]
  /\ outcome \in [Threads -> Outcome \cup {None}]
  /\ listening \in 1 .. MaxInits \cup {None}
  /\ left \in BOOLEAN
  /\ inits \in 0 .. MaxInits

Init ==
  /\ engine = None /\ factory = None
  /\ tables = {} /\ failed = {}
  /\ call = [m \in Managers |-> None]
  /\ block = [t \in Threads |-> None]
  /\ outcome = [t \in Threads |-> None]
  /\ listening = None /\ left = FALSE
  /\ inits = 0

----------------------------------------------------------------------------
(* Initialising.  An operator named after another with an underscore is a   *)
(* slip a programmer could make in it; no definition of the model uses one. *)

\* DBConnection needs every component, but for a full URL.
Complete(full, given) == full \/ given = Components

MariadbUrl_Unchecked(full, given, u) == IF Complete(full, given) THEN u ELSE given

\* The database of a configuration, or None when an error is raised.
MariadbUrl(full, given, u) == IF Complete(full, given) THEN u ELSE None

ReinitCheck_AlwaysTrue(force) == IF engine = None \/ ~force THEN "engine" ELSE "drop engine"

\* _reinit_check: an init creates an engine, disposes the present one first, or
\* is skipped, which only lets SyncedDualDatabases() go on.
ReinitCheck(force) ==
  IF engine = None THEN "engine" ELSE IF force THEN "drop engine" ELSE "listen"

At(m, next) == call[m] # None /\ call[m].next = next
Go(m, next) == call' = [call EXCEPT ![m].next = next]
Return(m)   == call' = [call EXCEPT ![m] = None]

Is(t, state) == block[t] # None /\ block[t].state = state

\* A thread makes a call outside its blocks or in the body of one.
Begin(m, kind, u, next) ==
  /\ call[m] = None
  /\ block[m] = None \/ Is(m, "open")
  /\ kind # "dispose" => inits < MaxInits
  /\ call' = [call EXCEPT ![m] = [kind |-> kind, url |-> u, bind |-> None, next |-> next]]
  /\ UNCHANGED <<engine, factory, tables, failed, block, outcome, listening, left, inits>>

\* A skipped init does nothing, so only one that goes on is a step.
InitSqlite(m, u, force) ==
  ReinitCheck(force) # "listen" /\ Begin(m, "init", u, ReinitCheck(force))

\* The configuration is read only after _reinit_check.
InitMariadb(m, u, full, given, force) ==
  ReinitCheck(force) # "listen" /\ Begin(m, "init", MariadbUrl(full, given, u), ReinitCheck(force))

\* SyncedDualDatabases() begins with init_sqlite.
InitSynced(m, u) == Begin(m, "sync", u, ReinitCheck(FALSE))

Dispose(m) == Begin(m, "dispose", None, "drop engine")

DropEngine(m) ==
  /\ At(m, "drop engine")
  /\ engine' = None
  /\ Go(m, "drop factory")
  /\ UNCHANGED <<factory, tables, failed, block, outcome, listening, left, inits>>

Dropped(b) == IF b = None THEN None ELSE [b EXCEPT !.dropped = TRUE]

DropFactory_Keeps(m) ==
  /\ At(m, "drop factory")
  /\ block' = [t \in Threads |-> Dropped(block[t])]
  /\ left' = TRUE
  /\ IF call[m].kind = "dispose" THEN Return(m) ELSE Go(m, "engine")
  /\ UNCHANGED <<engine, factory, tables, failed, outcome, listening, inits>>

\* The listeners stay with the factory that is dropped.
DropFactory(m) ==
  /\ At(m, "drop factory")
  /\ factory' = None
  /\ block' = [t \in Threads |-> Dropped(block[t])]
  /\ left' = TRUE
  /\ IF call[m].kind = "dispose" THEN Return(m) ELSE Go(m, "engine")
  /\ UNCHANGED <<engine, tables, failed, outcome, listening, inits>>

\* create_engine, or the ValueError of a refused configuration.
CreateEngine(m) ==
  /\ At(m, "engine")
  /\ IF call[m].url = None THEN Return(m) /\ UNCHANGED engine
                           ELSE Go(m, "bind") /\ engine' = call[m].url
  /\ UNCHANGED <<factory, tables, failed, block, outcome, listening, left, inits>>

\* _setup_factory reads _engine, and then assigns the factory.
ReadBind(m) ==
  /\ At(m, "bind")
  /\ call' = [call EXCEPT ![m].bind = engine, ![m].next = "factory"]
  /\ UNCHANGED <<engine, factory, tables, failed, block, outcome, listening, left, inits>>

SetFactory_NoTables(m) ==
  /\ At(m, "factory") /\ inits < MaxInits
  /\ factory' = [bind |-> call[m].bind, number |-> inits + 1]
  /\ inits' = inits + 1
  /\ Return(m)
  /\ UNCHANGED <<engine, tables, failed, block, outcome, listening, left>>

SetFactory(m) ==
  /\ At(m, "factory") /\ inits < MaxInits
  /\ factory' = [bind |-> call[m].bind, number |-> inits + 1]
  /\ inits' = inits + 1
  /\ Go(m, "tables")
  /\ UNCHANGED <<engine, tables, failed, block, outcome, listening, left>>

\* create_tables raises when there is no engine, or when the database fails.
CreateTables(m) ==
  /\ At(m, "tables")
  /\ \/ /\ engine # None
        /\ tables' = tables \cup {engine} /\ failed' = failed \ {engine}
        /\ IF call[m].kind = "sync" THEN Go(m, "listen") ELSE Return(m)
     \/ /\ failed' = failed \cup ({engine} \ {None})
        /\ Return(m)
        /\ UNCHANGED tables
  /\ UNCHANGED <<engine, factory, block, outcome, listening, left, inits>>

\* SyncedDualDatabases() initialises its other manager, which may raise, and
\* attaches the listeners; event.listen raises when there is no factory.
Listen(m) ==
  /\ At(m, "listen")
  /\ \/ factory # None /\ listening' = factory.number /\ left' = FALSE
     \/ UNCHANGED <<listening, left>>
  /\ Return(m)
  /\ UNCHANGED <<engine, factory, tables, failed, block, outcome, inits>>

----------------------------------------------------------------------------
(* session().  A thread that finds no factory gets a RuntimeError: no step. *)

Free(t) == t \in Managers => call[t] = None

Check(t) ==
  /\ factory # None /\ block[t] = None /\ Free(t)
  /\ block' = [block EXCEPT ![t] = [on |-> None, state |-> "checked", dropped |-> FALSE]]
  /\ UNCHANGED <<engine, factory, tables, failed, call, outcome, listening, left, inits>>

\* The block of a thread ends.
Ends(t, raises) ==
  /\ outcome' = [outcome EXCEPT ![t] =
       [raised |-> raises, committed |-> block[t].state = "committed",
        dropped |-> block[t].dropped]]
  /\ block' = [block EXCEPT ![t] = None]
  /\ UNCHANGED <<engine, factory, tables, failed, call, listening, left, inits>>

\* _session_factory is read again, to be called.
Enter(t) ==
  /\ Is(t, "checked") /\ factory # None
  /\ block' = [block EXCEPT ![t].on = factory, ![t].state = "open"]
  /\ UNCHANGED <<engine, factory, tables, failed, call, outcome, listening, left, inits>>

\* None cannot be called.
EnterRaises(t) == Is(t, "checked") /\ factory = None /\ Ends(t, TRUE)

\* The body has ended, and the session commits on the engine it began with.
Commit(t) ==
  /\ Is(t, "open") /\ Free(t)
  /\ block[t].on.bind \in tables
  /\ block' = [block EXCEPT ![t].state = "committed"]
  /\ UNCHANGED <<engine, factory, tables, failed, call, outcome, listening, left, inits>>

\* The body or the commit raises, and the session rolls back.
Fails(t) ==
  /\ Is(t, "open") /\ Free(t)
  /\ block' = [block EXCEPT ![t].state = "failed"]
  /\ UNCHANGED <<engine, factory, tables, failed, call, outcome, listening, left, inits>>

Leave_Swallows(t) ==
  (Is(t, "committed") \/ Is(t, "failed")) /\ Ends(t, factory = None)

\* The finally clause reads _session_factory again: None has no remove().
Leave(t) ==
  (Is(t, "committed") \/ Is(t, "failed")) /\ Ends(t, Is(t, "failed") \/ factory = None)

----------------------------------------------------------------------------

Next ==
  \/ \E m \in Managers :
       \/ \E u \in Urls, force \in BOOLEAN : InitSqlite(m, u, force)
       \/ \E u \in Urls \cup {None}, full, force \in BOOLEAN, given \in SUBSET Components :
            InitMariadb(m, u, full, given, force)
       \/ \E u \in Urls : InitSynced(m, u)
       \/ Dispose(m)
       \/ DropEngine(m) \/ DropFactory(m)
       \/ CreateEngine(m) \/ ReadBind(m) \/ SetFactory(m) \/ CreateTables(m)
       \/ Listen(m)
  \/ \E t \in Threads :
       Check(t) \/ Enter(t) \/ EnterRaises(t) \/ Commit(t) \/ Fails(t) \/ Leave(t)

Spec == Init /\ [][Next]_vars

----------------------------------------------------------------------------
(* Properties *)

Quiet == \A m \in Managers : call[m] = None

\* Between the calls of its managers, the manager is either uninitialised or
\* has a factory bound to its engine, also after a forced init whose
\* configuration was refused (init_mariadb, dispose).
Settled ==
  Quiet => IF engine = None THEN factory = None
                            ELSE factory # None /\ factory.bind = engine

\* Blocks that begin between the managers' calls find their tables, unless
\* create_tables failed the last time it ran on this database; a forced init
\* repairs that (init_sqlite, create_tables).
TablesReady ==
  Quiet /\ engine # None /\ engine \notin failed => engine \in tables

\* A block that returns has committed, and only one in which the manager was
\* disposed raises although it has (session: "Automatically commits changes or
\* rolls back transactions on failure").
OnlyDisposedMislead ==
  \A t \in Threads : outcome[t] # None =>
    /\ ~outcome[t].raised => outcome[t].committed
    /\ outcome[t].raised /\ outcome[t].committed => outcome[t].dropped

\* A block works on the factory, and so on the database, that is the manager's
\* at that moment, whatever is initialised again without force; only one in
\* which the manager was disposed may go on with an earlier one (session,
\* _reinit_check).
BlocksCurrent ==
  \A t \in Threads :
    block[t] # None /\ block[t].on # None /\ ~block[t].dropped => block[t].on = factory

\* Once attached, the listeners hear the sessions that blocks get until the
\* manager is disposed, whatever is initialised again without force, and none
\* from then on, whatever is initialised (_reinit_check, SyncedDualDatabases).
ListenersCurrent ==
  listening # None => (left <=> factory = None \/ factory.number # listening)
=============================================================================
