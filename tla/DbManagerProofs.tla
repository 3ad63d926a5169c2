--------------------------- MODULE DbManagerProofs ---------------------------
(***************************************************************************)
(* DbManager's properties, proved for any threads, databases and number of  *)
(* inits.  What concerns the blocks holds for any managers; what relates    *)
(* the engine, the factory, the tables and the listeners needs that one     *)
(* thread at a time manages, for init_* and dispose take no lock.           *)
(***************************************************************************)
EXTENDS DbManager, TLAPS

\* The manager's own steps, grouped by what they assign.
Opening(m) ==
  \/ \E u \in Urls, force \in BOOLEAN : InitSqlite(m, u, force)
  \/ \E u \in Urls \cup {None}, full, force \in BOOLEAN, given \in SUBSET Components :
       InitMariadb(m, u, full, given, force)
  \/ \E u \in Urls : InitSynced(m, u)
  \/ Dispose(m)

\* What the beginning of any call amounts to: the next statement follows from
\* the engine, and a refused configuration is told by its url.
Opened(m, c) ==
  /\ call[m] = None
  /\ c \in Call
  /\ c.next \in {"drop engine", "engine", "listen"}
  /\ c.next = "engine" => engine = None
  /\ c.next = "listen" => engine # None
  /\ call' = [call EXCEPT ![m] = c]
  /\ UNCHANGED <<engine, factory, tables, failed, block, outcome, listening, left, inits>>

\* Every entry point of the manager begins a call in this way (_reinit_check).
LEMMA OpeningOpens ==
  ASSUME NEW m \in Managers, Opening(m)
  PROVE  \E c \in Call : Opened(m, c)
<1> DEFINE Started(kind, u, next) ==
             [kind |-> kind, url |-> u, bind |-> None, next |-> next]
<1>1. ASSUME NEW kind \in {"init", "sync", "dispose"}, NEW u \in Urls \cup {None},
             NEW next \in {"drop engine", "engine", "listen"},
             next = "engine" => engine = None,
             next = "listen" => engine # None,
             Begin(m, kind, u, next)
      PROVE  \E c \in Call : Opened(m, c)
  <2>1. Started(kind, u, next) \in Call
    BY DEF Call
  <2>2. Opened(m, Started(kind, u, next))
    BY <1>1, <2>1 DEF Begin, Opened
  <2> QED
    BY <2>1, <2>2
<1>2. \A force \in BOOLEAN :
        /\ ReinitCheck(force) \in {"drop engine", "engine", "listen"}
        /\ ReinitCheck(force) = "engine" => engine = None
        /\ ReinitCheck(force) = "listen" => engine # None
  BY DEF ReinitCheck
<1>3. CASE \E u \in Urls, force \in BOOLEAN : InitSqlite(m, u, force)
  BY <1>1, <1>2, <1>3 DEF InitSqlite
<1>4. CASE \E u \in Urls \cup {None}, full, force \in BOOLEAN, given \in SUBSET Components :
             InitMariadb(m, u, full, given, force)
  <2>1. PICK u \in Urls \cup {None}, full \in BOOLEAN, force \in BOOLEAN,
             given \in SUBSET Components : InitMariadb(m, u, full, given, force)
    BY <1>4
  <2>2. MariadbUrl(full, given, u) \in Urls \cup {None}
    BY DEF MariadbUrl
  <2> QED
    BY <1>1, <1>2, <2>1, <2>2 DEF InitMariadb
<1>5. CASE \E u \in Urls : InitSynced(m, u)
  BY <1>1, <1>2, <1>5 DEF InitSynced
<1>6. CASE Dispose(m)
  BY <1>1, <1>6 DEF Dispose
<1> QED
  BY <1>3, <1>4, <1>5, <1>6 DEF Opening

----------------------------------------------------------------------------
(* Calls *)

Calls == [Managers -> Call \cup {None}]

\* A call goes on with another statement, reads the engine, or returns.
LEMMA CallGoes ==
  ASSUME call \in Calls, NEW m \in Managers, call[m] # None,
         NEW next \in {"drop factory", "engine", "bind", "factory", "tables", "listen"},
         Go(m, next)
  PROVE  /\ call' \in Calls
         /\ call' = [call EXCEPT ![m] = [call[m] EXCEPT !.next = next]]
         /\ [call[m] EXCEPT !.next = next] \in Call
<1>1. call[m] \in Call
  BY DEF Calls
<1>2. [call[m] EXCEPT !.next = next] \in Call
  BY <1>1 DEF Call
<1>3. call' = [call EXCEPT ![m] = [call[m] EXCEPT !.next = next]]
  BY DEF Go
<1> QED
  BY <1>2, <1>3 DEF Calls

LEMMA CallReads ==
  ASSUME call \in Calls, NEW m \in Managers, call[m] # None, engine \in Urls \cup {None},
         ReadBind(m)
  PROVE  LET c == [call[m] EXCEPT !.bind = engine, !.next = "factory"]
         IN  call' \in Calls /\ call' = [call EXCEPT ![m] = c] /\ c \in Call
<1> DEFINE c == [call[m] EXCEPT !.bind = engine, !.next = "factory"]
<1>1. call[m] \in Call
  BY DEF Calls
<1>2. c \in Call
  BY <1>1 DEF Call
<1>3. call' = [call EXCEPT ![m] = c]
  BY DEF ReadBind
<1> QED
  BY <1>2, <1>3 DEF Calls

LEMMA CallReturns ==
  ASSUME call \in Calls, NEW m \in Managers, Return(m)
  PROVE  call' \in Calls /\ call' = [call EXCEPT ![m] = None]
BY DEF Calls, Return

----------------------------------------------------------------------------
(* Types *)

\* A dispose marks the blocks under way and leaves them as they are.
LEMMA DroppedTyped ==
  ASSUME NEW b \in Block \cup {None}
  PROVE  /\ Dropped(b) \in Block \cup {None}
         /\ Dropped(b) = None <=> b = None
         /\ b # None => Dropped(b).dropped /\ Dropped(b).on = b.on /\ Dropped(b).state = b.state
<1>1. CASE b = None
  BY <1>1 DEF Dropped
<1>2. CASE b # None
  <2>1. b \in Block /\ Dropped(b) = [b EXCEPT !.dropped = TRUE]
    BY <1>2 DEF Dropped
  <2>2. Dropped(b) \in Block
    BY <2>1 DEF Block
  <2> QED
    BY <1>2, <2>1, <2>2, NoneAssumption DEF Block
<1> QED
  BY <1>1, <1>2

\* The types are inductive as they stand: a factory's number is one that
\* SetFactory's bound allows.
THEOREM Typing == Spec => []TypeOK
<1>1. Init => TypeOK
  <2>1. Init => left \in BOOLEAN
    BY DEF Init
  <2>2. Init => inits \in 0 .. MaxInits
    BY BoundAssumption DEF Init
  <2> QED
    BY <2>1, <2>2 DEF Init, TypeOK
<1>2. TypeOK /\ [Next]_vars => TypeOK'
  <2> SUFFICES ASSUME TypeOK, [Next]_vars PROVE TypeOK'
    OBVIOUS
  <2> USE ThreadsAssumption, BoundAssumption
  <2>0. call \in Calls
    BY DEF TypeOK, Calls
  <2>1. ASSUME NEW m \in Managers, Opening(m) PROVE TypeOK'
    <3>1. PICK c \in Call : Opened(m, c)
      BY <2>1, OpeningOpens
    <3> QED
      BY <3>1 DEF Opened, TypeOK
  <2>3. ASSUME NEW m \in Managers, DropEngine(m) PROVE TypeOK'
    <3>1. call' \in Calls
      BY <2>0, <2>3, CallGoes DEF DropEngine, At
    <3> QED
      BY <2>3, <3>1 DEF DropEngine, TypeOK, Calls
  <2>4. ASSUME NEW m \in Managers, DropFactory(m) PROVE TypeOK'
    <3>1. call' \in Calls
      BY <2>0, <2>4, CallGoes, CallReturns DEF DropFactory, At
    <3>2. block' \in [Threads -> Block \cup {None}]
      BY <2>4, DroppedTyped DEF DropFactory, TypeOK
    <3> QED
      BY <2>4, <3>1, <3>2 DEF DropFactory, TypeOK, Calls
  <2>5. ASSUME NEW m \in Managers, CreateEngine(m) PROVE TypeOK'
    <3>1. call[m].url \in Urls \cup {None}
      BY <2>0, <2>5 DEF CreateEngine, At, Call, Calls
    <3>2. call' \in Calls
      BY <2>0, <2>5, CallGoes, CallReturns DEF CreateEngine, At
    <3>3. engine' \in Urls \cup {None}
      BY <2>5, <3>1 DEF CreateEngine, TypeOK
    <3> QED
      BY <2>5, <3>2, <3>3 DEF CreateEngine, TypeOK, Calls
  <2>6. ASSUME NEW m \in Managers, ReadBind(m) PROVE TypeOK'
    <3>1. call' \in Calls
      BY <2>0, <2>6, CallReads DEF ReadBind, At, TypeOK
    <3> QED
      BY <2>6, <3>1 DEF ReadBind, TypeOK, Calls
  <2>7. ASSUME NEW m \in Managers, SetFactory(m) PROVE TypeOK'
    <3>1. call[m].bind \in Urls \cup {None}
      BY <2>0, <2>7 DEF SetFactory, At, Call, Calls
    <3>2. inits + 1 \in 1 .. MaxInits
      BY <2>7 DEF SetFactory, TypeOK
    <3>3. call' \in Calls
      BY <2>0, <2>7, CallGoes DEF SetFactory, At
    <3>4. factory' \in Factory
      BY <2>7, <3>1, <3>2 DEF SetFactory, Factory
    <3> QED
      BY <2>7, <3>2, <3>3, <3>4 DEF SetFactory, TypeOK, Calls
  <2>8. ASSUME NEW m \in Managers, CreateTables(m) PROVE TypeOK'
    <3>1. call' \in Calls
      BY <2>0, <2>8, CallGoes, CallReturns DEF CreateTables, At
    <3>2. tables' \subseteq Urls /\ failed' \subseteq Urls
      BY <2>8 DEF CreateTables, TypeOK
    <3> QED
      BY <2>8, <3>1, <3>2 DEF CreateTables, TypeOK, Calls
  <2>9. ASSUME NEW m \in Managers, Listen(m) PROVE TypeOK'
    <3>1. factory # None => factory.number \in 1 .. MaxInits
      BY DEF TypeOK, Factory
    <3>2. call' \in Calls
      BY <2>0, <2>9, CallReturns DEF Listen
    <3> QED
      BY <2>9, <3>1, <3>2 DEF Listen, TypeOK, Calls
  <2>10. ASSUME NEW t \in Threads, Check(t) \/ Enter(t) PROVE TypeOK'
    <3>1. CASE Check(t)
      BY <3>1 DEF Check, TypeOK, Block
    <3>2. CASE Enter(t)
      <4> DEFINE b == [block[t] EXCEPT !.on = factory, !.state = "open"]
      <4>1. b \in Block
        BY <3>2 DEF Enter, Is, TypeOK, Block
      <4>2. block' = [block EXCEPT ![t] = b]
        BY <3>2 DEF Enter
      <4> HIDE DEF b
      <4> QED
        BY <3>2, <4>1, <4>2 DEF Enter, TypeOK
    <3> QED
      BY <2>10, <3>1, <3>2
  <2>11. ASSUME NEW t \in Threads, Commit(t) \/ Fails(t) PROVE TypeOK'
    BY <2>11 DEF Commit, Fails, Is, TypeOK, Block
  <2>12. ASSUME NEW t \in Threads, EnterRaises(t) \/ Leave(t) PROVE TypeOK'
    <3>1. PICK raises \in BOOLEAN : block[t] # None /\ Ends(t, raises)
      BY <2>12 DEF EnterRaises, Leave, Is
    <3>2. block[t] \in Block /\ block[t].dropped \in BOOLEAN
      BY <3>1 DEF TypeOK, Block
    <3> QED
      BY <3>1, <3>2 DEF Ends, TypeOK, Outcome
  <2>13. CASE UNCHANGED vars
    BY <2>13 DEF vars, TypeOK
  <2> QED
    BY <2>1, <2>3, <2>4, <2>5, <2>6, <2>7, <2>8, <2>9, <2>10, <2>11, <2>12, <2>13
    DEF Next, Opening
<1> QED
  BY <1>1, <1>2, PTL DEF Spec

----------------------------------------------------------------------------
(* Blocks *)

\* What a block reports, as far as it goes.
Truthful(o) == /\ ~o.raised => o.committed
               /\ o.raised /\ o.committed => o.dropped

\* As long as nobody disposes the manager in a block there is a factory, so the
\* finally clause does not hide what became of the transaction.
BlocksTold ==
  \A t \in Threads :
    /\ block[t] # None /\ ~block[t].dropped => factory # None
    /\ outcome[t] # None => Truthful(outcome[t])

\* One manager or many: BlocksTold needs no order between their statements.
THEOREM BlocksInvariance == Spec => []BlocksTold
<1>1. Init => BlocksTold
  BY DEF Init, BlocksTold
<1>2. TypeOK /\ BlocksTold /\ [Next]_vars => BlocksTold'
  <2> SUFFICES ASSUME TypeOK, BlocksTold, [Next]_vars PROVE BlocksTold'
    OBVIOUS
  <2>0. call \in Calls
    BY DEF TypeOK, Calls
  <2>1. ASSUME UNCHANGED <<block, outcome>>, factory # None => factory' # None
        PROVE  BlocksTold'
    BY <2>1 DEF BlocksTold
  <2>2. ASSUME NEW m \in Managers,
               \/ Opening(m) \/ DropEngine(m) \/ CreateEngine(m) \/ ReadBind(m)
               \/ SetFactory(m) \/ CreateTables(m) \/ Listen(m)
        PROVE  BlocksTold'
    <3>1. ASSUME SetFactory(m) PROVE factory' # None
      <4>1. call[m].bind \in Urls \cup {None}
        BY <2>0, <3>1 DEF SetFactory, At, Call, Calls
      <4>2. factory' \in Factory
        BY <3>1, <4>1, BoundAssumption DEF SetFactory, TypeOK, Factory
      <4> QED
        BY <4>2, NoneAssumption
    <3>2. CASE Opening(m)
      BY <2>1, <3>2, OpeningOpens DEF Opened
    <3> QED
      BY <2>1, <2>2, <3>1, <3>2
      DEF DropEngine, CreateEngine, ReadBind, SetFactory, CreateTables, Listen
  <2>3. ASSUME NEW m \in Managers, DropFactory(m) PROVE BlocksTold'
    <3>1. outcome' = outcome /\ \A t \in Threads : block'[t] = Dropped(block[t])
      BY <2>3 DEF DropFactory
    <3>2. \A t \in Threads : block'[t] # None => block'[t].dropped
      BY <3>1, DroppedTyped DEF TypeOK
    <3> QED
      BY <3>1, <3>2 DEF BlocksTold
  <2>4. ASSUME NEW t \in Threads, Check(t) \/ Enter(t) \/ Commit(t) \/ Fails(t)
        PROVE  BlocksTold'
    <3>1. UNCHANGED <<factory, outcome>>
      BY <2>4 DEF Check, Enter, Commit, Fails
    <3>2. \A o \in Threads : o # t => block'[o] = block[o]
      BY <2>4 DEF Check, Enter, Commit, Fails, TypeOK
    <3>3. CASE Check(t)
      BY <3>1, <3>2, <3>3 DEF Check, BlocksTold
    <3>4. CASE Enter(t) \/ Commit(t) \/ Fails(t)
      <4>1. block[t] \in Block
        BY <3>4 DEF Enter, Commit, Fails, Is, TypeOK
      <4>2. block'[t].dropped = block[t].dropped /\ block[t] # None
        BY <3>4, <4>1 DEF Enter, Commit, Fails, Is, TypeOK, Block
      <4> QED
        BY <3>1, <3>2, <4>2 DEF BlocksTold
    <3> QED
      BY <2>4, <3>3, <3>4
  <2>5. ASSUME NEW t \in Threads, EnterRaises(t) \/ Leave(t) PROVE BlocksTold'
    <3>1. PICK raises \in BOOLEAN :
            /\ Ends(t, raises) /\ block[t] # None
            /\ ~raises => block[t].state = "committed"
            /\ raises /\ block[t].state = "committed" => factory = None
      BY <2>5 DEF EnterRaises, Leave, Is
    <3> DEFINE o == [raised |-> raises, committed |-> block[t].state = "committed",
                     dropped |-> block[t].dropped]
    <3>2. /\ outcome'[t] = o /\ block'[t] = None /\ factory' = factory
          /\ \A u \in Threads : u # t => outcome'[u] = outcome[u] /\ block'[u] = block[u]
      BY <3>1 DEF Ends, TypeOK
    <3>3. block[t].dropped \in BOOLEAN
      BY <3>1 DEF TypeOK, Block
    <3>4. Truthful(o)
      BY <3>1, <3>3 DEF Truthful, BlocksTold
    <3> HIDE DEF o
    <3> QED
      BY <3>2, <3>4 DEF BlocksTold
  <2>6. CASE UNCHANGED vars
    BY <2>6 DEF vars, BlocksTold
  <2> QED
    BY <2>2, <2>3, <2>4, <2>5, <2>6 DEF Next, Opening
<1> QED
  BY <1>1, <1>2, Typing, PTL DEF Spec

\* OnlyDisposedMislead: a block that returns has committed, and one that raises
\* has rolled back unless the manager was disposed during it, however many
\* managers race (session, dispose).
THEOREM BlocksTellTheTruth == Spec => []OnlyDisposedMislead
<1>1. BlocksTold => OnlyDisposedMislead
  BY DEF BlocksTold, Truthful, OnlyDisposedMislead
<1> QED
  BY <1>1, BlocksInvariance, PTL

----------------------------------------------------------------------------
(* One manager *)

SingleManager == \A m, o \in Managers : m = o

\* The engine and the factory agree whenever no statement between their
\* assignments is next; so do the tables, once create_tables has had its turn.
Consistent == IF engine = None THEN factory = None
                               ELSE factory # None /\ factory.bind = engine

StageOK(c) ==
  /\ c.next \in {"drop engine", "listen", "tables"} => Consistent
  /\ c.next \in {"drop engine", "listen"} /\ engine # None /\ engine \notin failed
       => engine \in tables
  /\ c.next \in {"listen", "tables", "bind", "factory"} => engine # None
  /\ c.next \in {"drop factory", "engine"} => engine = None
  /\ c.next \in {"engine", "bind", "factory"} => factory = None
  /\ c.next = "factory" => c.bind = engine

\* Factories are numbered as they are made, so one made after a dispose is
\* never the one that the listeners are attached to.
Attached ==
  /\ factory # None => factory.number <= inits
  /\ listening # None =>
       /\ listening <= inits
       /\ ~left => factory # None /\ factory.number = listening
       /\ left => factory = None \/ factory.number > listening

ManagerInv ==
  /\ \A m \in Managers : call[m] # None => StageOK(call[m])
  /\ Settled /\ TablesReady
  /\ Attached /\ BlocksCurrent

\* When one thread at a time manages, ManagerInv holds: between its calls,
\* engine, factory, tables, blocks and listeners belong together, and every call
\* under way completes that (_reinit_check, init_sqlite, init_mariadb, dispose).
THEOREM OneManager == ASSUME SingleManager PROVE Spec => []ManagerInv
<1>1. Init => ManagerInv
  BY DEF Init, ManagerInv, Settled, TablesReady, Attached, BlocksCurrent
<1>2. TypeOK /\ BlocksTold /\ ManagerInv /\ [Next]_vars => ManagerInv'
  <2> SUFFICES ASSUME TypeOK, BlocksTold, ManagerInv, [Next]_vars PROVE ManagerInv'
    OBVIOUS
  <2>0. call \in Calls
    BY DEF TypeOK, Calls
  <2>1. ASSUME NEW m \in Managers, Opening(m) PROVE ManagerInv'
    <3>1. PICK c \in Call : Opened(m, c)
      BY <2>1, OpeningOpens
    <3>2. Quiet
      BY <3>1, SingleManager DEF Opened, Quiet, SingleManager
    <3>3. call'[m] = c /\ \A o \in Managers : o = m
      BY <2>0, <3>1, SingleManager DEF Opened, Calls, SingleManager
    <3>4. StageOK(c)'
      BY <3>1, <3>2 DEF Opened, StageOK, Consistent, ManagerInv, Settled, TablesReady
    <3>5. ~Quiet'
      BY <3>1, <3>3, NoneAssumption DEF Quiet
    <3> QED
      BY <3>1, <3>3, <3>4, <3>5
      DEF Opened, ManagerInv, Settled, TablesReady, Attached, BlocksCurrent
  <2>2. ASSUME NEW m \in Managers, call[m] # None
        PROVE  /\ StageOK(call[m]) /\ call[m] \in Call
               /\ \A o \in Managers : o = m
    BY <2>0, <2>2, SingleManager DEF ManagerInv, SingleManager, Calls
  <2>3. ASSUME NEW m \in Managers, call[m] # None,
               NEW next \in {"drop factory", "engine", "bind", "factory", "tables", "listen"},
               Go(m, next)
        PROVE  /\ ~Quiet'
               /\ \A o \in Managers : call'[o].next = next /\ call'[o].bind = call[m].bind
    <3> DEFINE c == [call[m] EXCEPT !.next = next]
    <3>1. call[m] \in Call
      BY <2>2, <2>3
    <3>2. c.next = next /\ c.bind = call[m].bind
      BY <3>1 DEF Call
    <3>3. c \in Call /\ call' = [call EXCEPT ![m] = c]
      BY <2>0, <2>3, CallGoes
    <3>4. \A o \in Managers : call'[o] = c
      <4> HIDE DEF c
      <4> QED
        BY <2>0, <2>2, <2>3, <3>3 DEF Calls
    <3>5. c # None
      BY <3>3, NoneAssumption
    <3>6. ~Quiet'
      BY <3>4, <3>5 DEF Quiet
    <3> QED
      BY <3>2, <3>4, <3>6
  <2>4. ASSUME NEW m \in Managers, call[m] # None, Return(m)
        PROVE  \A o \in Managers : call'[o] = None
    BY <2>0, <2>2, <2>4 DEF Return, Calls
  <2>5. ASSUME NEW m \in Managers, DropEngine(m) PROVE ManagerInv'
    <3>1. call[m] # None /\ Go(m, "drop factory")
      BY <2>5 DEF DropEngine, At
    <3>2. engine' = None /\ UNCHANGED <<factory, block, listening, left, inits>>
      BY <2>5 DEF DropEngine
    <3>3. \A o \in Managers : StageOK(call[o])'
      BY <2>3, <3>1, <3>2 DEF StageOK
    <3> QED
      BY <2>3, <3>1, <3>2, <3>3
      DEF ManagerInv, Settled, TablesReady, Attached, BlocksCurrent
  <2>6. ASSUME NEW m \in Managers, DropFactory(m) PROVE ManagerInv'
    <3>1. call[m] # None /\ engine' = None /\ factory' = None
      BY <2>2, <2>6 DEF DropFactory, At, StageOK
    <3>4. Attached' /\ BlocksCurrent'
      <4>1. \A t \in Threads : block'[t] = Dropped(block[t])
        BY <2>6 DEF DropFactory
      <4>2. \A t \in Threads : block'[t] # None => block'[t].dropped
        BY <4>1, DroppedTyped DEF TypeOK
      <4>3. left' = TRUE /\ UNCHANGED <<listening, inits>>
        BY <2>6 DEF DropFactory
      <4>4. Attached'
        BY <3>1, <4>3 DEF Attached, ManagerInv
      <4> QED
        BY <4>2, <4>4 DEF BlocksCurrent
    <3>2. CASE Return(m)
      BY <2>4, <3>4, <3>1, <3>2 DEF ManagerInv, Settled, TablesReady
    <3>3. CASE Go(m, "engine")
      BY <2>3, <3>4, <3>1, <3>3 DEF ManagerInv, StageOK, Settled, TablesReady
    <3> QED
      BY <2>6, <3>2, <3>3 DEF DropFactory
  <2>7. ASSUME NEW m \in Managers, CreateEngine(m) PROVE ManagerInv'
    <3>1. call[m] # None /\ engine = None /\ factory = None
      BY <2>2, <2>7 DEF CreateEngine, At, StageOK
    <3>2. UNCHANGED <<factory, block, listening, left, inits>>
      BY <2>7 DEF CreateEngine
    <3>3. CASE Return(m) /\ UNCHANGED engine
      BY <2>4, <3>1, <3>2, <3>3
      DEF ManagerInv, Settled, TablesReady, Attached, BlocksCurrent
    <3>4. CASE Go(m, "bind") /\ engine' = call[m].url /\ call[m].url # None
      BY <2>3, <3>1, <3>2, <3>4
      DEF ManagerInv, StageOK, Settled, TablesReady, Attached, BlocksCurrent
    <3> QED
      BY <2>7, <3>3, <3>4 DEF CreateEngine
  <2>8. ASSUME NEW m \in Managers, ReadBind(m) PROVE ManagerInv'
    <3>1. call[m] # None /\ engine # None /\ factory = None
      BY <2>2, <2>8 DEF ReadBind, At, StageOK
    <3> DEFINE c == [call[m] EXCEPT !.bind = engine, !.next = "factory"]
    <3>2. c \in Call /\ call' = [call EXCEPT ![m] = c]
      BY <2>0, <2>8, <3>1, CallReads DEF TypeOK
    <3>3. c.next = "factory" /\ c.bind = engine
      BY <2>2, <3>1 DEF Call
    <3>4. ~Quiet' /\ \A o \in Managers : call'[o].next = "factory" /\ call'[o].bind = engine
      <4>1. \A o \in Managers : call'[o] = c
        <5> HIDE DEF c
        <5> QED
          BY <2>0, <2>2, <3>1, <3>2 DEF Calls
      <4>2. c # None
        BY <3>2, NoneAssumption
      <4>3. ~Quiet'
        BY <4>1, <4>2 DEF Quiet
      <4> QED
        BY <3>3, <4>1, <4>3
    <3>5. UNCHANGED <<engine, factory, block, listening, left, inits>>
      BY <2>8 DEF ReadBind
    <3>6. \A o \in Managers : StageOK(call[o])'
      BY <3>1, <3>4, <3>5 DEF StageOK
    <3> QED
      BY <3>4, <3>5, <3>6 DEF ManagerInv, Settled, TablesReady, Attached, BlocksCurrent
  <2>9. ASSUME NEW m \in Managers, SetFactory(m) PROVE ManagerInv'
    <3>1. /\ call[m] # None /\ call[m] \in Call /\ Go(m, "tables")
          /\ engine # None /\ call[m].bind = engine /\ factory = None
      BY <2>2, <2>9 DEF SetFactory, At, StageOK
    <3>2. factory' \in Factory /\ factory'.bind = engine /\ factory'.number = inits + 1
      BY <2>9, <3>1, BoundAssumption DEF SetFactory, TypeOK, Factory
    <3>3. factory' # None /\ UNCHANGED <<engine, block, listening, left>> /\ inits' = inits + 1
      BY <2>9, <3>2, NoneAssumption DEF SetFactory
    <3>4. \A o \in Managers : StageOK(call[o])'
      BY <2>3, <3>1, <3>2, <3>3 DEF StageOK, Consistent
    <3>5. Attached'
      <4>1. listening # None => left /\ listening \in Nat /\ inits \in Nat /\ listening <= inits
        BY <3>1 DEF ManagerInv, Attached, TypeOK
      <4> QED
        BY <3>2, <3>3, <4>1 DEF Attached, TypeOK
    <3>6. BlocksCurrent'
      BY <3>1, <3>3 DEF BlocksTold, BlocksCurrent
    <3> QED
      BY <2>3, <3>1, <3>3, <3>4, <3>5, <3>6 DEF ManagerInv, Settled, TablesReady
  <2>10. ASSUME NEW m \in Managers, CreateTables(m) PROVE ManagerInv'
    <3>1. call[m] # None /\ engine # None /\ Consistent
      BY <2>2, <2>10 DEF CreateTables, At, StageOK
    <3>2. /\ Consistent' /\ UNCHANGED <<engine, factory, block, listening, left, inits>>
          /\ engine' \notin failed' => engine' \in tables'
      BY <2>10, <3>1 DEF CreateTables, Consistent
    <3>3. CASE Return(m)
      BY <2>4, <3>1, <3>2, <3>3
      DEF ManagerInv, Settled, TablesReady, Attached, BlocksCurrent, Consistent
    <3>4. CASE Go(m, "listen")
      BY <2>3, <3>1, <3>2, <3>4
      DEF ManagerInv, StageOK, Settled, TablesReady, Attached, BlocksCurrent
    <3> QED
      BY <2>10, <3>3, <3>4 DEF CreateTables
  <2>11. ASSUME NEW m \in Managers, Listen(m) PROVE ManagerInv'
    <3>1. call[m] # None /\ engine # None /\ Consistent /\ Return(m)
      BY <2>2, <2>11 DEF Listen, At, StageOK
    <3>2. engine \notin failed => engine \in tables
      BY <2>2, <2>11 DEF Listen, At, StageOK
    <3>3. UNCHANGED <<engine, factory, tables, failed, block, inits>>
      BY <2>11 DEF Listen
    <3>4. Attached'
      BY <2>11, <3>3 DEF Listen, ManagerInv, Attached
    <3> QED
      BY <2>4, <3>1, <3>2, <3>3, <3>4
      DEF ManagerInv, Settled, TablesReady, BlocksCurrent, Consistent
  <2>12. ASSUME NEW t \in Threads,
                Check(t) \/ Enter(t) \/ EnterRaises(t) \/ Commit(t) \/ Fails(t) \/ Leave(t)
         PROVE  ManagerInv'
    <3>1. UNCHANGED <<engine, factory, tables, failed, call, listening, left, inits>>
      BY <2>12 DEF Check, Enter, EnterRaises, Commit, Fails, Leave, Ends
    <3>2. \A o \in Threads : o # t => block'[o] = block[o]
      BY <2>12 DEF Check, Enter, EnterRaises, Commit, Fails, Leave, Ends, TypeOK
    <3>4. block'[t] # None /\ block'[t].on # None /\ ~block'[t].dropped => block'[t].on = factory
      <4>1. CASE Check(t)
        BY <4>1 DEF Check, TypeOK
      <4>2. CASE EnterRaises(t) \/ Leave(t)
        BY <4>2 DEF EnterRaises, Leave, Ends, TypeOK
      <4>3. CASE Enter(t)
        BY <4>3 DEF Enter, Is, TypeOK, Block
      <4>4. CASE Commit(t) \/ Fails(t)
        <5>1. block[t] \in Block
          BY <4>4 DEF Commit, Fails, Is, TypeOK
        <5>2. block'[t].on = block[t].on /\ block'[t].dropped = block[t].dropped
          BY <4>4, <5>1 DEF Commit, Fails, TypeOK, Block
        <5> QED
          BY <4>4, <5>2 DEF Commit, Fails, Is, ManagerInv, BlocksCurrent
      <4> QED
        BY <2>12, <4>1, <4>2, <4>3, <4>4
    <3>5. BlocksCurrent'
      BY <3>1, <3>2, <3>4 DEF ManagerInv, BlocksCurrent
    <3> QED
      BY <3>1, <3>5 DEF ManagerInv, StageOK, Consistent, Settled, TablesReady, Attached, Quiet
  <2>13. CASE UNCHANGED vars
    BY <2>13
    DEF vars, ManagerInv, StageOK, Consistent, Settled, TablesReady, Attached, BlocksCurrent, Quiet
  <2> QED
    BY <2>1, <2>5, <2>6, <2>7, <2>8, <2>9, <2>10, <2>11, <2>12, <2>13 DEF Next, Opening
<1> QED
  BY <1>1, <1>2, Typing, BlocksInvariance, PTL DEF Spec

\* Settled: one managing thread leaves the manager uninitialised or with a
\* factory for its engine, also after a refused configuration (init_mariadb).
THEOREM ManagerSettles == ASSUME SingleManager PROVE Spec => []Settled
<1>1. ManagerInv => Settled
  BY DEF ManagerInv
<1> QED
  BY <1>1, OneManager, PTL

\* TablesReady: its blocks find their tables, unless creating them failed
\* (create_tables).
THEOREM TablesExist == ASSUME SingleManager PROVE Spec => []TablesReady
<1>1. ManagerInv => TablesReady
  BY DEF ManagerInv
<1> QED
  BY <1>1, OneManager, PTL

\* BlocksCurrent: a block works on the manager's present factory unless the
\* manager was disposed in it (session, _reinit_check).
THEOREM BlocksUpToDate == ASSUME SingleManager PROVE Spec => []BlocksCurrent
<1>1. ManagerInv => BlocksCurrent
  BY DEF ManagerInv
<1> QED
  BY <1>1, OneManager, PTL

\* ListenersCurrent: the listeners hear the factory that blocks are given until
\* the manager is disposed, and never one that is made after that
\* (_reinit_check, SyncedDualDatabases).
THEOREM ListenersHear == ASSUME SingleManager PROVE Spec => []ListenersCurrent
<1>1. TypeOK /\ ManagerInv => ListenersCurrent
  BY DEF ManagerInv, Attached, ListenersCurrent, TypeOK, Factory
<1> QED
  BY <1>1, OneManager, Typing, PTL
=============================================================================
