# Verification of passlair-core

TLA+ models of `passlair` (`src/src/passlair`), a library that keeps encrypted
passwords in SQLite or MariaDB, the TLC runs that check them on small
instances, and theorems about them that TLAPS checks for every value of the
constants. Paths below are relative to `src/src/passlair`.

## The system

| Component | State | Operations | Modelled in |
|---|---|---|---|
| `core/auth/user_manager.py` `UserManager` | `user_id`, `dek` of one process | `login`, `login_by_dek`, `logout`, `get_session_key` | SharedSession (threads), Vault, Accounts (one thread) |
| `core/writers/password_writer.py` `PasswordWriter` | the table `vault_entries` | `save_password`, `save_passwords`, `delete_password` | Vault |
| `core/readers/password_reader.py` `PasswordReader`, `base/abstract/base_repository.py` | none | `get_pass_for`, `get_all_services`, `get_all_decrypted` | Vault (operators) |
| `core/interface/password_manager.py` `PasswordManager` | none | five operations, and the exceptions each catches | SharedSession; CredentialStore (what it promises) |
| `core/writers/user_writer.py` `UserWriter`, `core/auth/credentials.py`, `mnemonic.py` | the table `standard_users` | `prepare_new_user`, `save_user`, `change_password`, `reset_password`, `delete_user` | Accounts; the vault half of `delete_user` in Vault |
| `core/interface/identity.py` `Identity` | none | `register_user`, `login`, `logout`, `restore_session`, `change_user_password`, `reset_user_password` | Accounts, AccountRegistry |
| `core/interface/synced_dual_databases.py` `SyncedDualDatabases` | `to_sync`, `pending_sync` of a session, a remote database | listeners `_add_to_sync` and `_commit_sync`, `sync_remote` | DualSync; attaching the listeners in DbManager |
| `core/database/database_manager.py` `DatabaseManager`, `dataclasses/db_connection.py` | engine, scoped session factory | `init_sqlite`, `init_mariadb`, `dispose`, `create_tables`, `session()` | DbManager; `session()` also in Vault, Accounts and DualSync |
| `share/` `Exporter`, `Importer`, formats | files, clipboard | `serialize`, `export_to_file`, `import_text` | ShareFormats |
| `core/database/integrity.py` | none | tells a duplicate from other integrity errors | the duplicate username in Accounts |
| other data classes, `base/singleton.py` | none | validators | not modelled: no behaviour over time |

How they interact: the facades call readers and writers, those open
`db.session()` blocks and ask the `UserManager` of their process for its
session key. Processes share nothing but the database; threads of one process
share the manager, `to_sync` and, if the application hands it on, the
`UserManager`. There are no locks and no version columns: an operation reads in
one step and commits in another, most of them even in two database sessions, and
the ORM writes only the columns that differ from what it read.

What is hard, then, is the time between a read and what relies on it: another
process may have inserted, updated or deleted meanwhile, another thread may have
logged out or disposed the manager, the commit may fail, or the process may end.
Beyond that, operations of several steps (`register_user`,
`change_user_password`, a forced `init_mariadb`) may fail half way, sessions
outlive changes of the account they belong to, and the queue to the remote
database is filled by callbacks and read by a loop at the same time.
`PROJECT.json` lists every such hazard at its line, with the properties about it
and, where these need an assumption, what happens without it.

## Modules

**CredentialStore** is the abstract specification of the vault: `store` gives the
credential of each account and service, `pending` what each client has asked for.
A request takes effect in one step (`Perform`) or not at all (`Abandon`).

**Vault** models the table `vault_entries` (`entries`), the sessions, and the
writers. `txn[c]` is the operation of client `c` between its reading step and
its commit: `SavePassword`, `SavePasswords` and `DeletePassword` run the query,
prepare the changed objects with the columns that are dirty, and put them
there; `Commit` writes exactly the dirty columns, `Rollback` and `Crash` drop
them. `delete_user` is two steps, the check of the account (`FindUser`) and the
bulk UPDATE with its commit (`DeleteUser`); `erasing` holds the clients between
them. A uuid and a nonce are drawn per call and service and named by the pair
of both. Encryption is symbolic. Readers are operators: the *set* of answers a
reader may give, because a query has no order. `ImplementsStore` says that
Vault refines CredentialStore under `View`, what the account's own key reads.

**AccountRegistry** is the abstract specification of the accounts: `account` gives
the password and phrase of each live one, `gone` the names that were deleted,
`who` the session and `doing` the operation of each client. There are no hashes,
salts, keys or columns, and no DEK: a right password is an equal one. What callers
may rely on is in its guards. A session, or new credentials, are for who shows the
password or phrase the account has at that moment (`Login`, `Grant`,
`GrantReset`); `Change` replaces both at once and leaves a deleted account alone;
`Issue` never gives out a phrase twice. It does not promise that an account is
still as it was when `Change` comes: of two changes that overlap the last one
wins, in the code as here.

**Accounts** models `standard_users`, sessions, and `op[c]`, an operation of
client `c` between two of its database sessions: a registration before its
login, a change after `compare_passwords`, new credentials before their commit,
committed ones before their phrase is returned. Salt, backup KEK and DEK drawn
by one call share the number of the draw; a phrase is the backup KEK it encodes.
`told` and `kept` are what callers were given: the phrases, and the `[user, dek]`
pairs they can pass to `restore_session`. Changes and resets of one account
overlap as the code lets them, each with the row it has read. `ImplementsRegistry` says that Accounts
refines AccountRegistry: the password of an account is the one its hash was made
of, its phrase the one of its backup KEK.

**SharedSession** goes where Vault and Accounts take one step for a session: every
assignment to `__user_id` and `__dek` is a step, and so is every read of them
with the query that uses it, by threads that share one `UserManager`:
`_prepare_data` reads `user_id` twice, once for its assertion (`AssertUid`) and
once for `PasswordCreation` (`ReadUid`), whose ValidationError is a ValueError
that the facade catches. A deletion finds its entry in one step and commits in
another. `call[t]`
is the operation of thread `t` with what it has read so far; a row keeps only
whose DEK its password is sealed with. `answer` is what `PasswordManager`
returned or raised last, and whether one session lasted for all of the
operation. The two history variables are `steady` and `overtaken`.

**DbManager** has a step for every assignment to `_engine` and `_session_factory`
in `init_sqlite`, `init_mariadb` and `dispose`, a block per thread in
`session()`, which reads `_session_factory` to test it (`Check`), to call it
(`Enter`, `EnterRaises`) and when it ends (`Leave`), and the factory that the
listeners of `SyncedDualDatabases` are attached to, which no dispose detaches.
A call may begin at any moment of the others' blocks and in the body of one's
own. Factories are numbered; an engine is named by its database. `dropped` of a
block and `left` are history: whether the manager was disposed since the block
began, or since the listeners were attached.

**DualSync** models the local and the remote database, the local transaction of
each thread (`Flush`, `DbCommit` or `Rollback`, then `AfterCommit` twice per
pending row, once for `setdefault` and once for `update`), `to_sync`, and a call of `sync_remote` entry by entry. A dict entry
is its values with its first key, since `next(iter(...))` sends that one. A dict
that grew makes the iteration raise, and so does one that is still empty between
those two steps (`SyncRaises`). `overtaken`, a history variable, has the fields
of which an earlier commit is merged after a later one. `Restart` drops all that is in
memory. Only rows in `Seeded` exist remotely at the start; nothing in the code
inserts another there.

**ShareFormats** writes a vault as txt, csv or json, may cut the document short,
and imports it. A value is a sequence of tokens, as coarse as the formats can tell
apart: the two txt separators, line feed, the other characters `splitlines()`
breaks at, comma, quote, and plain text (`Tokens`). `TxtMatch` is what the regular
expression picks, `CsvRead` the state machine of `csv.reader`, and `Collect` the
dict that `_parse_txt` and `_parse_csv` fill. `Import` parses and opens the transaction of `save_passwords`, which prepares one
entry per step (`PrepareEntry`), may find one to refuse behind others that were
good (`RefuseEntry`), may end with the process (`Crash`), and writes what it has
in `batch.pending` only at its commit (`CommitBatch`). A json document is the entries
themselves; what `json.dumps` and `loads` do to them is the standard library's.
Lines and rows are described by where they begin in the document, and the reader
is a recursive function, so that there is something to prove about them.

**VaultProofs**, **StoreProofs** (which extends it), **AccountsProofs**,
**SharedSessionProofs**, **DbManagerProofs**, **DualSyncProofs** and
**ShareProofs** hold the theorems; **MCVault**, **MCAccounts**, **MCDbManager**, **MCDualSync** and **MCShareFormats** the
values for TLC. An operator named after another with an underscore
(`Matching_DeletedToo`) is a slip one could make in that code; no specification
uses it, and each property is known to fail with one.

## Runs

| Run | Checks | Bounds | Distinct states |
|---|---|---|---|
| VaultExclusive | OneLivePerService, ReadersAgree, ImplementsStore while no two clients have one account | 2 clients, 2 accounts, 2 services, 2 drawing calls | 56,350 |
| VaultShared | TypeOK, Readable, TombstonesStay while both share one account | 2 clients, 1 account, 4 drawing calls | 204,327 |
| Accounts | TypeOK, Coherent, SessionsHoldDek, RecoveryPossible, AccountsStay, ToldStopsWorking, ImplementsRegistry | 2 clients, 2 accounts, 4 drawing calls | 321,672 |
| SharedSession | TypeOK, NeverStuck, SteadyAnswers | 2 threads, 1 account, 1 service, 2 rows | 621,509 |
| DbManager | TypeOK, Settled, TablesReady, OnlyDisposedMislead, BlocksCurrent, ListenersCurrent | 1 managing thread and 1 other, 2 databases, 3 factories | 870,099 |
| Sync | TypeOK, OnlyOvertakenStale, NothingForgotten, RemoteWasLocal, FirstFieldArrives | 2 writing threads, 2 rows, 2 fields, 2 transactions, 1 failure or restart | 416,061 |
| Share | TypeOK, ReadsBackUnlessAmbiguous, NothingSkipped, CutHarmsOneEntry, ImportAllOrNothing | vaults of up to 2 entries, every cut, every crash of the import | 36,257 |

Two clients and two or more calls each are enough for every read to be
overtaken by another client's commit, and three or four calls for an insertion,
an update of it and two that race. Two threads suffice for a logout and a login
between any two reads of an operation, and two rows for one that was stored while
that happened beside one that was not. Three factories are a first one, one of a
forced init and one after a dispose. In DualSync the second row is the one the
remote database lacks and the one whose recording makes `to_sync` grow; both
threads change the first row, so their `after_commit` may run in either order,
and one of them also the second (`RowsOf`). The
vaults of ShareFormats have separators at the beginning, inside and at the end of
values, in the place where they mislead and where they do not. Clients, accounts
and non-empty passwords are symmetric in Vault and Accounts, the databases in
DbManager, where only safety is checked. `MaxDraws`, `MaxRows`, `MaxInits`,
`MaxWrites`, `MaxFaults` and `RowsOf` are the only bounds.

Some properties say of a hazard exactly how far it goes, with a history variable
that the guards never read:

* `OnlyOvertakenStale`: an old value stays in `to_sync` for the fields whose
  commits were merged in the other order, and for no others.
* `OnlyDisposedMislead`: a `session()` block that raises has been rolled back,
  unless the manager was disposed in it. `BlocksCurrent`: a block works on the
  manager's present database, unless again it was disposed.
* `ListenersCurrent`: the listeners hear every block until a dispose or forced
  init, and none after it.
* `ToldStopsWorking`: of two resets with one phrase both take effect (see
  AccountsPhraseTwice below), yet the commit of each voids every phrase that any
  caller has by then.
* `ReadsBackUnlessAmbiguous`: a txt export loses its ambiguous entries (a service
  with " / login=" or a login with " / password=" in it), all of them, and no
  others. The docstring of `serialize` promises an unchanged round trip.

The constants that name a mode say under which discipline of the callers a
property holds; the code enforces none of them:

* Vault: `SharedAccounts` (two clients have sessions of one account),
  `RestoreAny` (a session is restored with a foreign DEK; no run sets it, the
  theorems cover it).
* Accounts: the accounts that are registered inside a session
  (`RegisterLoggedIn`), and whose operations may raise or crash after a commit
  (`MayFail`). One run has an account with and one without, and properties name
  the accounts they are about.
* DbManager: `Managers`, the threads that initialise and dispose.

Outside them, one changed line of a `.cfg` or property makes TLC show: two
sessions of one account insert a service twice; a crash between commit and answer
loses the phrase; a restart loses what `to_sync` held; two managing threads leave
a factory bound to no engine or to another one; a manager whose `create_tables`
failed stays without tables; a process that uses two accounts stores a row under
the wrong key, and a later, undisturbed read raises. NeverStuck excludes one case
by `overtaken`: `login_by_dek` assigns in the other order than `login`, and a
logout between its assignments leaves a session that neither `login` nor `logout`
accepts. The hazards of `PROJECT.json` that only such states show name no property,
and say why.

Five further runs show where the code does not do what it, or its documentation,
says:

| Run | Property | What TLC finds |
|---|---|---|
| VaultSharedMixed | NoMixedCredential | two overlapping updates leave one's login beside the other's password |
| AccountsPhraseLost | PhraseShown | `register_user` inside a session saves the account and drops its phrase |
| AccountsPhraseTwice | OneTimePhrase | two overlapping resets both take effect with the same "one-time" phrase |
| SyncSuccess | SuccessMeansSynced | "All entries were synched!" after one field of each |
| SharedSessionKeys | OwnKeyOnly | a row fetched for one account is opened with another's session key |

**Fairness.** Only DualSync has liveness. `Fairness` says that a thread that has
flushed goes on, that the application calls `sync_remote` again and again (the
library leaves that to it), and that a call takes its steps; `MaxFaults` says that
the remote database does not fail, and the process does not restart, for ever.
Nothing forces a transaction to begin, and nothing keeps a commit from making a
call of `sync_remote` raise: only the bound on transactions ends that.

Deadlock is checked except in Share, where every behaviour ends with the import
or with an export that is refused.

## Proofs

For any number of clients or threads, accounts, services, rows and draws, and for
vaults of any length with values of any length and content:

| Module | Theorems | Assuming |
|---|---|---|
| VaultProofs | `Typing`, `TombstonesStayDead` | |
| | `LiveRowsReadable` | sessions are restored with their account's DEK |
| | `ExclusiveOneLive` | no two clients have sessions of one account |
| StoreProofs | `ReadersInAgreement`, `VaultImplementsStore` | both |
| AccountsProofs | `Typing`, `CredentialsCoherent`, `SessionsKeepDek`, `AccountsEndure`, `ToldPhrasesStopWorking`, `AccountsImplementRegistry` | |
| | `AccountsRecoverable` | about accounts outside `RegisterLoggedIn` and `MayFail` |
| SharedSessionProofs | `Typing`, `SessionNeverStuck` | |
| | `SteadySession` | the process uses one account |
| DbManagerProofs | `Typing`, `BlocksTellTheTruth` | |
| | `ManagerSettles`, `TablesExist`, `BlocksUpToDate`, `ListenersHear` | one thread at a time manages |
| DualSyncProofs | `Typing`, `ChangesKept`, `RemoteHonest`, `QueueCurrent` | |
| ShareProofs | `Typing`, `ImportIsAtomic` | |
| | `WholeExportIsRead`, `WholeExportReadsBack`, `CutExportHarmsOneEntry` | |

**Vault.** `Readable` is not inductive: a commit writes what was prepared many
steps ago, on a row that has changed since. The invariant `IInv` therefore says
of every changed object in `txn` what stays true whatever others commit: it is
sealed under its own nonce and its account's key, it is an insertion of an id
that no row and no other client has, an update that carries both `password` and
`nonce` (a nonce just drawn differs from any stored one, so neither column can be
left out of the UPDATE) and never `live`, or a deletion that touches `live` alone.
From that a row is sealed after any commit and a tombstone never revived.
`ExclusiveInv` adds, for exclusive accounts, that what an operation found is still
what is there.

**The refinement.** `StoreInv` adds to `ExclusiveInv` that what is prepared is
what was asked: `Due` says of each service of an operation that has not raised
that its changed object is an insertion holding the credential, an update whose
dirty columns, written over the present row, yield it, a deletion, or nothing
because the row already holds it. Under it a query has one answer (`OneAnswer`),
so the CHOOSE in `View` is no choice (`ViewNow`), a step that begins an operation
is a `Request`, `Commit` is `Perform` for all services at once, `DeleteUser` is
`Erase`, and everything else abandons a request or stutters.

**Accounts.** `IInv` says of credentials about to be committed that they are
coherent and wrap the DEK of the row they belong to, which never changes.
`RecoveryInv` adds that prepared credentials come with their own phrase and that
a client that is about to log in after a registration has no session; `UntoldInv`,
that a phrase under way is known to its client alone and is no caller's yet, so
that no commit can install one that somebody has. For the refinement `RegistryInv` has the first of
these beside `IInv`: a password verifies exactly when it is the one the hash was
made of, because hash and salt come from one operation (`AccountFacts`), and the
phrase a client is about to be told is the one its commit installs. Each action
is then one of AccountRegistry; a step that raises, rolls back or crashes is
`Abandon`. Nothing is assumed of the callers.

**SharedSession.** `IInv` says that a user_id without a DEK is always about to be
repaired, by a login's second assignment or a logout's; `SteadyInv` follows every
operation of a steady session and says that it has read the one account and its
key, and that every row is sealed with it.

**DbManager.** `ManagerInv` says at every statement of a call what is assigned
already and what is left to do, and that a factory's number tells whether it was
made after the listeners were attached. `BlocksTold` needs no such thing: it holds
for any managers, since a factory, once there, only goes away with a dispose.

**DualSync.** `IInv` says that whatever is collected, recorded or staged for the
remote database was a local value, that an entry has its first field, and that a
field that differs waits in a committed transaction or in `to_sync`. `First` is a
CHOOSE of the least place in a field list, which exists by the well-foundedness
of strict inclusion on finite sets. `CurrentInv` is
about any threads: SQLite's write lock puts the commits in an order (`InOrder`),
and a field that nobody has overtaken is, in `to_sync` or in what the latest
transaction has still to merge, the local row's.

**ShareFormats.** `BatchOK` says of an open transaction that the account is as it
was, that what is neither to do nor pending was in it already (`Prepared`), and
that what is pending has no empty value: from that a commit writes all of the
text or nothing was written. What the properties need beyond that is that the text
is what the vault serializes to or the beginning of it and that txt did not refuse
the vault (`TextOfVault` in `IInv`). The rest is about the operators:

* A text is a concatenation of blocks, and each block lies behind the ones before
  it (`FlattenLayout`, `LayoutOrdered`, `LayoutPlace`). The lines of a txt text
  cut at place p begin where its blocks begin, and the last is a `Piece` of a
  block (`TxtLines`).
* The places of a line that can separate it are known (`OwnSplit`,
  `SplitsBehind`). A `Piece` of an unambiguous line matches exactly when it reaches
  into the password, and then as its entry with the password cut
  (`MatchOfUnambiguous`); whatever a line matches as is unambiguous
  (`MatchUnambiguous`), which is why an ambiguous entry is never read back.
* The csv reader is followed through a field, plain or quoted, through a row and
  through the text: where a row begins it holds the rows before and nothing else
  (`PlainFieldRead`, `QuotedFieldRead`, `RowInside`, `RowsRead`). Inside a row
  it would end it with two fields at most, or with a password cut short. The
  shortest such password is empty, and that import is refused.
* The services of a vault are distinct, so that `Collect` is the same function
  wherever in the text its entries are found (`CollectPlaced`).

The induction is one over places, stated for a set of numbers (`Induction`): a
set that lacks a number lacks a least one (`Least`), since strict inclusion of
finite sets is well founded. Restating the parsers for these proofs showed that an
earlier form of ReadsBackUnlessAmbiguous was false when the importing account
already held the very entry that txt loses; the Share run has such an account now.

The assumptions are those stated in the modules (`CredsAssumption`,
`NoneAssumption`, ...): `None` and `Deleted` are no credentials, rows and so on,
and the bounds are naturals. TLC evaluates them in every run.

Only model-checked: FirstFieldArrives, for liveness is outside the prover's
reach. Every other property of a passing run is a theorem.

## Not modelled

The cipher, the KDF and the word list (packages of their own), logging and
messages, and the clipboard, which delivers the same text as a file. A wrong DEK
is modelled as one that decrypts nothing it did not encrypt. MariaDB's own
locking between two transactions that update one row is not modelled: a lock only
removes interleavings. Nor are connection pools, which hand out connections of
the one engine, and two `SyncedDualDatabases` on one session factory: the second
never sees a `pending_sync`, which the first has popped. `integrity.py`
tells the texts and codes of two database drivers apart, a function without state
that its unit tests cover; data classes and the unused singleton metaclass have no
behaviour over time. A DEK restored empty, which leaves a session that can neither
log in nor log out, takes one call and no interleaving, and is left to reading.

Some consequences of the code are certain without exploring anything, and are
only listed as hazards: a deletion never reaches the remote database, because
`deleted_at` is in no field list; a row that the remote database lacks is never
inserted; another process's commits are never recorded; a session outlives
`delete_user` and may save a live entry for the deleted account.

Accounts and Vault are not composed. What Vault assumes of `Login` and
`RestoreSession`, that a session has its account's DEK, is `SessionsHoldDek` of
Accounts, and both halves of `delete_user` are one commit in the code, which is
one step in each model; a product of the two would add states and no interaction.

## Plan

Done, in this order: Vault and CredentialStore with their runs; Accounts;
DualSync; DbManager; ShareFormats; SharedSession; AccountRegistry; and the
theorems above, last those of ShareFormats and the refinement of AccountRegistry. What is left: DbManager and DualSync composed, for a
dispose or a forced init between `Flush` and `AfterCommit`, when the listeners
belong to a factory that is gone.
