# A verification development for DF Local Foundation

TLA+ models of the parts of this repository that are hard to get right and hard
to test, the TLC runs that check them, and theorems about them that the TLAPS
proof system has checked. Paths are relative to the repository (`src/`).

`PROJECT.json` lists the components, the runs, the lines each definition
translates, one mutation of the code per checked property, the hazards the
properties are aimed at, the disagreements found between code and docs, and the
theorems.

## 1. The system

DF Local Foundation is a local control plane around one PostgreSQL database:
a Python package that tells whether the database is ready for the apps that use
it, an HTTP API and four command-line tools on top of it, and SQL migrations.

| Component | State | Operations | What makes it correct |
|---|---|---|---|
| Migration advisory lock (`core/lifecycle/migration_lock.py`) | a session-level advisory lock on the server; a connection of the caller's pool | `async with migration_lock(pool)`: acquire a connection, poll `pg_try_advisory_lock` until 5 s have passed, run the body, unlock, give the connection back | one caller in force at a time; never left behind; connections given back; every call ends |
| Lifecycle manager (`core/lifecycle/manager.py`) | the pool; when it started | `start`, `status`, `stop`; a check of `core_schema_versions` under the lock; a row in `core_health_events` | READY only if the expected version was recorded; a stop in the middle of calls ends and leaves no lock; fails closed |
| Bundled migrations (`sql/`) | `core_schema_versions`, the core and AuthorForge tables | each file one transaction, idempotent, re-applied on every boot by a bootstrap outside the repository, or by AuthorForge | versions converge; no update is lost |
| API process (`app/main.py`) | the manager, a reporter, readers | `lifespan`, `/live`, `/health` and read-only routes | boots and answers with the database down |
| Health reporter (`core/health/reporter.py`) | none | `LifecycleState` to JSON, checked against `contracts/` | only contract fields |
| Backup manager (`core/backup/manager.py`) with `tools/db-backup` and `tools/db-restore` | backup files, their sidecars, `core_backup_log` | `pg_dump`, hash, sign, write the sidecar, log; validate and `pg_restore` | a restore applies only what was backed up and signed; all operations are logged |
| Envelope signing (`core/backup/signing.py`) | `signing.key` | load or create the key, sign, verify | one key per installation |
| Export manager (`core/export/manager.py`) with `tools/db-export` | export files, sidecars, `core_export_log` | as a backup, of one namespace | its envelope matches its file |
| Maintenance (`core/lifecycle/maintenance.py`) | the two logs | delete rows older than a window of at least 7 days | nothing recent is deleted |
| Registration compatibility (`core/lifecycle/compatibility.py`) | the stored registration | compare required versions and modes | no silent raise of the required version |
| NIL log (`sql/apps/authorforge/0003`) | `nil_transactions`, `nil_canon_current`, `nil_queue_items` | append, `nil_rebuild_canon_current()` | the canon is what replaying the log gives |
| Readers (`app/*_services.py`, `app/api/`): the proving-slice queue, lineage, healing proposals, context packs, public applications | a connection per fetch, for the time of the fetch | one to three SELECTs per request, no transaction around them | a failure is never an empty answer; an answer of several SELECTs is explained by what happened during the request |
| Analytics (`app/analytics_services.py`) | as the readers | three SELECTs; ages, postures, buckets and flags computed from them | what is overdue is flagged; every entry is counted once |
| `tools/db-status` | none | `status()` on a manager that was not started | reports what is so |
| Settings, packaging, scripts | none | validation, documentation | - |

How they interact: every process (API, tool) has one manager with one pool of up
to five connections. `start()` and every `/health` request run the same locked
check, so processes meet in the advisory lock and in `core_schema_versions`.
Migrations write that table without the lock. Backups and restores read and
replace the tables under everybody. The readers open their own connections, and
read tables that other systems write: the promotion worker, services that report
their state, the lineage recorder. Apps register in `core_app_registry` without a
lock, and AuthorForge's attach file overwrites its row there on every boot.

Where the difficulty lies: coroutines and processes interleave around one lock
that belongs to a database session and not to the caller; a caller needs two
connections of one bounded pool; sessions are lost and processes die at any
step; migrations are re-applied from the first file on each boot, so the
recorded version goes back before it goes forward; and the error paths go
through `logger.error(msg, error=...)`, which a standard-library logger answers
with `TypeError`, so the exception that leaves is not the one the code was
about to raise.  (`logger.info` and `logger.debug` with such keywords return
before they look at them, as no module enables those levels.)

## 2. The modules

```
MigrationGate  <--refines--  MigrationLock
      |                          (MigrationLockProofs)
      |   SchemaVersions  (SchemaVersionsProofs)
      |        |
      +--> Lifecycle <---+        (LifecycleProofs)
BundledMigrations: data for MCSchemaVersions and MCLifecycle

SigningKey <--extends-- Backups               (BackupsProofs)

ForeignTables <-- Selects <-- ProvingSlice, Analytics, Lineage, Documents
                                  \________________________________/
                                                 |
                                              Readers   (ReadersProofs, AnswersProofs)

Compatibility <-- CoreTables                  (CoreTablesProofs)
NilCanon                                      (NilCanonProofs)
```

A module in parentheses holds the theorems about the module to its left. `MC...`
modules give the constants of a run; **MCTables** puts CoreTables and NilCanon
side by side.

**MigrationGate** is what `async with migration_lock(pool)` promises: a gate
with at most one `owner`, and for each caller a `phase`. A caller may be refused
only while another owns the gate. Ownership can disappear under the owner,
because it belongs to a session.

**MigrationLock** is the code. `pc` is the line a caller waits at: `acquire`
(`pool.acquire()`, `migration_lock.py:83`), `try` and `sleep` (the loop at
115-132), `bodyAcquire` and `query` (the body, `manager.py:276`, on a second
connection of the pool), `unlock` (the `finally`), `giveBack` (leaving
`pool.acquire()`). Between two of these the event loop, the server and the other
processes can do anything, and the model takes one action per stretch. `lock` is
the session that holds the lock on the server, `broken` the borrowed sessions
that are lost. The deadline is a flag that may go up at any time while a caller
polls; the code reads the clock only after a try that failed, and so does
`LockIsTaken`. A lock query may raise for any reason, on a lost session or a live
one, and then even after the server has granted the lock (`TriedInVain`): the
gate's `Fail` allows that too, and `GiveBack` frees it. asyncpg's reset on release (`pg_advisory_unlock_all`) or
termination of the connection is part of `GiveBack`.

**SchemaVersions** models the runners of migrations by the sequence of files
each applies. A file is what it records (`target`, `version`), how (upsert or a
bare UPDATE, which does nothing without a row) and whether it creates the core
tables. A commit is atomic, an abort leaves nothing and ends the run; the next
boot starts from the first file. The files themselves are in
**BundledMigrations**.

**Lifecycle** composes the two: processes with a `start()` and `/health`
requests (the callers of the gate), the database going down and up, and runners
that migrate without the lock. It is built on MigrationGate's actions, each
conjoined with what the manager does at that point, so what MigrationLock
implements is what Lifecycle relies on. `Stop` is `manager.stop()`, which asks
nothing of the calls inside: `pool.close()` waits, without a timeout, until the
connections that are lent have come back (`PoolCloses`). Meanwhile a query that
has its connection goes on, and a call that asks the closing pool for another, the
version query's included, gets an exception (`StatusWhileStopping`, `CannotAsk`,
`ReadVersionFails`); a call that had none yet finds the pool gone. `verdict` is the answer of a caller's
last call, `app` the life of a process. `seen` is a history variable, written by
`Observe` and read by properties only: which facts held at some state of the
call in progress, kept as long as its answer speaks of them.

**SigningKey** is `load_or_create_signing_key` in several tools at once: look
for the file, check its mode and length, or generate a key, open the file (it is
empty then), write it, `chmod` it. A tool may die anywhere, and takes its key
with it. `contested` is history: two tools found no file at the same time.

**Backups** is `db-backup`, `db-export` and `db-restore` on one file system and
one database. The content of a file is a number that changes with each write, so
it is also its hash; `whole` says which contents are complete archives. A tool's
`job` is where it is in `backup()`, `export()` or `restore()`: one step for each
thing another tool can see or undo (pg_dump opens its file, ends it; the hash;
the signature; the sidecar is opened, then written; the log row; in a restore the
sidecar, the hash, the mac, and `pg_restore`, which begins to drop and ends or
fails). An operator may bring a file with a foreign or unsigned sidecar, or damage
one. `torn` is the tool whose restore is under way or was cut short. A `pg_dump` or
`pg_restore` is a child process and may outlive a tool that is killed: `Dies` after
the child's end stands for that, as until then the tool would only have waited. `touched`,
`settled` and `signed` are history and read by properties only.

What a tool checks before `backup()` or `restore()` (`start()`, registered
namespaces) changes nothing here and is part of its beginning; the verdict of
`start()` is Lifecycle's matter. Of an envelope the model has what a check tells
apart: kind, app, hash and mac. A mac is the key it was made with, and since it
covers the other fields, an envelope is the one that was signed or is not signed.

**ForeignTables** is the tables the API reads and no file of the repository
writes, with their writers: external, and only as far as the SELECTs and the
computations take something for granted (a worker that records an attempt before
it counts it; a JSON column that holds an object, or a value encoded twice, or
something else). **Selects** is what the readers share: the clamp of a limit,
`ORDER BY ... DESC LIMIT` with ties in any order, the decoding of a JSON column,
the five kinds of answer. **ProvingSlice**, **Analytics**, **Lineage** and
**Documents** (healing proposals, context packs, public applications) each have,
per route, the SELECTs in their order, what each may return now, and the answer
computed from what was read.

**Readers** runs them. A request goes `connect`, `select`, `close`, and again for
the next fetch, until it is `done`: one action per SELECT, so that the writers act
between any two. `session` is the connection it holds. A connection fails for any
reason, as the `except Exception` of each reader has it (the server is down or full,
the password is wrong, a table is missing), and so does a SELECT, on a session that
is lost or on a live one; each such failure is the route's 503. The two SELECTs of
`downstream` and the three of the overview are on connections of their own, the
three of the queue's detail on one. Analytics fix `now` before the first SELECT and
the queue takes it after the last, and so does the model. `seen` is history, written
by `Observe` and read by properties only.

**Compatibility** is the two checks of `compatibility.py` as functions of what
they are given. A version is compared as the tuple `_parse_version` makes of it;
one that does not parse has another length. **CoreTables** composes them with
those who write: a registrar reads the stored row, asks, and writes, while others
do the same, the attach file overwrites its row, and another version of the
foundation is installed. Nothing in `src/` calls the checks, and that a caller
goes through these three steps is what their parameters ask for. The other half of
CoreTables is maintenance: each prune computes a cutoff by a clock that is off by
up to `MaxSkew` days, and deletes some time later, or dies.

**NilCanon** is AuthorForge's transaction log and `nil_rebuild_canon_current()`. A
transaction appends a batch of rows, which become visible at once when it commits
and have the time at which it began: `CommitAppend` takes any time up to now for that, as
nobody sees the transaction before. The foreign key of `supersedes_id` (0003:72) is
checked at the end of a statement, so a row may supersede a committed row, another
row of its batch, or itself, and two rows each other (`Batches`). A call of the
function is `Call`, `Delete`, `Insert`, `Commit` or `RollBack`: under READ COMMITTED
its two statements have snapshots of their own, a DELETE waits for rows another call
has deleted, an INSERT for keys another call holds (both external: PostgreSQL's
locks). `contested` and `current` are history.

## 3. The runs

| Run | Instance | Shows |
|---|---|---|
| `migration_lock` | process p: two callers, a pool of two; process q: one caller, a pool of two; one call each; any number of failing queries and lost sessions, crashes while a call is under way | `ConnsMatchStep`, `OneInForce`, `NoStrayLock`, `NoPoolDeadlock`, the refinement `ImplementsGate`, and under fairness `EveryCallReturns` |
| `lost_session` (violation) | the same | `OneInside`: the literal reading of `migration_lock.py:3-4` |
| `schema_versions` | two bootstraps with all six files and AuthorForge with its own four, booting any number of times | `Converged`, `OldVersionIsPending`, `AppliedTargetHasRow` |
| `lifecycle` | p with `start()` and one request at a time, q with `start()`, one bootstrap with the core files; unbounded restarts, stops, outages and boots | `VerdictIsWitnessed`, `LockHasALiveOwner`, and under fairness `StopEnds` |
| `down_database`, `migrator`, `health` (violations) | the same | `DownDatabaseDoesNotStopBoot`, `ReadyExcludesMigrator`, `HealthAlwaysAnswers` |
| `backups` | two tools, one run each at a time and two in all, on `a.dump` and `a.sql`, which share a sidecar; two keys to generate; one file put or damaged | `OneKeyUnlessContested`, `SignedEnvelopesVerify`, `SettledBackupVerifies`, `OnlyCheckedEnvelopesPass`, `RestoreAppliesWhatItChecked` |
| `blocked_restore`, `partial_backup` (violations) | the same, no operator | `BlockedRestoreChangesNothing`, `CompletedIsWhole` |
| `readers` | every route; two queue entries, services and nodes, one document; one writing system per behaviour; the server going down, up and full at any time | safety: `ConnectionsAreReleased`, `FailureIsNotAnEmptyAnswer`, `AuditIsNotOlderThanState`, `DownstreamIsExplained`, `OverdueServicesAreFlagged`, `CountsMatchList`, `ListedEntriesOpen`, `RequestsAdvance`; under fairness `EveryRequestIsAnswered` |
| `tables` | the registry: two registrars, one app, three foundation versions; the logs: two prunes, three days; the canon: three rows of the log, at most two of one transaction, two nodes, two callers of the function | `RequiredIsMet`, `RaisesAreIntended`; `PruneKeepsRecent`; `CanonIsReplay`, `CanonIsAccepted`, `NodesGoForCause` |

Why the bounds are enough. A pool of two with two callers is the smallest one in
which a caller that holds the lock can find every other connection taken by a
poller, which is the situation `EveryCallReturns` is about; with a second
process the lock is also contended across pools. One call per caller
(`MaxCalls = 1`) still lets every caller meet every stage of every other; what a
second call could inherit is a stray lock or a connection, which `NoStrayLock`
and the invariant `LockInv` behind it exclude. The run stops when all calls are used, hence
`CHECK_DEADLOCK FALSE` there, and in `backups`, where `MaxRuns` bounds the tools
started. In `schema_versions` two identical
runners and a shorter one give each pair of files of one target in both orders.
In `lifecycle`, counters are absent: nothing is bounded but the number of
processes, callers and runners. In `backups` (`MaxRuns = 2`, `MaxChanges = 1`)
each hazard needs two parties: a backup and a second writer of its path, its
sidecar or the key; a restore and a writer between its two readings of the file;
two restores. The operator's change is the second party of a run that needs two
tools before it (a backup, its restore, and a file that changes between), and
dying tools leave their files to the one that comes after. Tools and keys are
symmetric.

In `readers` a request shares with other requests only what the server accepts,
which changes freely, so one client shows what many would; it may ask again, any
number of times, and `MayAsk` has it ask the routes that read what the behaviour's
writer writes (the other tables stay as they were, and no route reads the tables of
two writers). `MaxWrites` is 3 (2 for services, whose reports carry times): a row
staged, an attempt recorded, the attempt counted is what the longest route needs
between its SELECTs; a node, a second node and an edge for `downstream`.
`MaxTime` is 1, and 2 for services, where fresh, aging and stale differ by one each.
`MaxRows = 2` and `MaxProposals = 1` stand for 1000 and 200, with the limits -1
and 3 on either side of what is allowed. `Advanced` and `Reported` have one status of each
bucket that ends differently (leased, deferred, none) and one state that raises a
flag. In `tables` the parts share no row, and each runs in behaviours of its own
(the attach file, which writes to two of them, is in both); 1.1.0, 1.9.0 and 1.10.0
are ordered otherwise as texts, and one registration has a version that does not
parse; the windows -1 to 3 lie around a minimum of 2 that stands for 7 days, with
a skew of 1 and 3 days to go; three rows of the log make a chain of two supersessions
or two superseders of one row, batches of two (`MaxBatch`) can supersede each other,
and with two times rows tie; three calls let one
follow two that overlapped. There the bounds stop the system, hence
`CHECK_DEADLOCK FALSE`.

Fairness (Lifecycle): a call that was asked takes its next step (`WF` of
`Proceed`), and `close()` of the pool returns once no connection is lent (`WF` of
`PoolCloses`). The first is what `EveryCallReturns` shows of MigrationLock, with its
exception: after a lost lock session callers of one pool may wait for each other for
ever, and then so does `stop()`. Nothing is assumed about the database, the runners,
or when anybody starts, asks, stops or dies; in particular not that `LoseSession`,
`Kill` or an outage come to the help of a stop.

Fairness (Readers): each request's own steps (`WF` of `Proceed`), because asyncpg's
connect, a SELECT and a close each end or raise; nothing about the writers and the
server.

Fairness (MigrationLock): each coroutine that can take its next step does
(`WF` of `Proceed`), because the event loop runs every ready task and asyncpg
queues waiters, and clocks advance (`WF` of `DeadlinePasses`). Weak fairness of
a coroutine as a whole is all that is assumed: not who gets a free connection,
not who wins the lock, and nothing about callers, lost sessions and crashes.

What the violations say:

* `lost_session`: the caller inside is not told that its lock session is gone,
  and the query it runs is on another connection. `OneInForce` is what does hold.
* `down_database`: `logger.error(..., error=...)` at `manager.py:137` raises
  `TypeError` before `LifecycleStartError`; `lifespan` catches only the latter. The
  health event at the end of `start()` breaks the same claim: its failing insert
  raises at `manager.py:311`, also on a database without the core tables, though
  `manager.py:293-294` calls it best-effort.
* `migrator`: no migration takes the lock, so a check can run between two files,
  and read READY from the version of the previous boot.
* `health`: the handler at `manager.py:228` raises instead of returning
  UNAVAILABLE.

* `blocked_restore`: `pg_restore --clean` runs statement by statement; when one
  fails, `RestoreBlockedError` says that nothing was applied, and tables are gone.
* `partial_backup`: two tools on one path. The first to end hashes, signs and logs
  as completed what the second has only begun to write. `SettledBackupVerifies`
  is what does hold.

`SettledBackupVerifies`, `SignedEnvelopesVerify` and `OneKeyUnlessContested` except two tools that create
the key at once, and the exception is real: the second write replaces the key
that the first tool goes on signing with, and its backup never verifies again.

`EveryCallReturns` excepts lost sessions, and the exception is real: after one, a
second caller of the same pool enters while the first still waits for a
connection, and callers that hold every lock connection and wait for a second
one have no deadline. For the same reason `NoPoolDeadlock` speaks of states in
which no borrowed session is lost.

## 4. What is proved

For every value of the constants that satisfies the named assumptions:

* `MigrationLockProofs`: `LockInv` is inductive. It adds to the three safety
  properties that a caller's step determines which connections it has
  (`ConnsMatchStep`, a theorem of its own: `ConnectionsAreReturned`), that a lost session holds no lock, and that a caller past
  the try holds the lock unless its session is lost (`PastTheTryHoldsLock`):
  without the last one an unlock could free somebody else's lock.
  `OneInForce` follows, since two holders would share a connection. The
  refinement `Spec => Gate!GateSpec` is proved step by step: `ownerOf` is the
  caller whose connection holds the lock, unique by `NoSharedConn`.
  `NoPoolDeadlock` is the safety half of `EveryCallReturns`: of the callers of a
  pool that wait for a connection one can go on, or another caller of that pool can.
  A caller waits for its second connection only when it is past the try, and by
  `PastTheTryHoldsLock` and `OneInForce` there is one such caller; if every
  connection is lent, one of the two or more of its pool is lent to a caller that
  polls, or that unlocks, and that waits for nothing. That a pool has two
  connections (`PoolOfTwo`, from `max_size=5`) is needed: a pool of one would
  stand still at once. `CanGoOn` is the guard of `Proceed`, with the waits for
  connections spelled out.
* `SchemaVersionsProofs`: `SchemaInv` is inductive from the assumptions that a
  plan ends with the last file of each target it touches and inserts a row
  before it updates it (`PlanIsComplete`, `PlanInsertsFirst`), which TLC
  evaluates on the repository's files. `Converged` follows: an old version needs
  a runner that is midway.
* `LifecycleProofs`: `LifecycleInv` is inductive on top of `SchemaInv`; a call in
  progress belongs to a process in the matching stage of its life, with its pool
  open, unless `stop()` has overtaken it before it had a connection
  (`CallsMatchProcess`): `PoolCloses` waits for every call that has one, and a call
  that owns the lock has one. `LockHasALiveOwner` follows. `VerdictIsWitnessed` is proved from it: the verdict and the fact that
  justifies it are written in the same step, or the fact is in force. The two
  modules it is built on are also what it implements: hiding the processes, every
  step is one of SchemaVersions or leaves the version tables alone
  (`LifecycleImplementsSchemaVersions`), so `Converged` holds among crashes and
  outages too (`LifecycleMigrationsConverge`); and every step is one of
  MigrationGate or leaves the gate alone (`LifecycleImplementsGate`), which is the
  abstraction that MigrationLock implements.
* `SchemaVersionsProofs` proves the type invariant and `AppliedTargetHasRow` from
  the same `SchemaInv`.
* `BackupsProofs`, in two layers. `KeyInv` says which tools are past which line of
  the key's creation, and gives `OneKeyUnlessContested` and `KeyIsNeverReplaced`;
  the tools of Backups are shown to do nothing to the key that SigningKey does not
  do (`BackupsImplementSigningKey`). On top of it `BackupsInv` says that a mac made
  with a key of this installation is on an envelope a tool signed, wherever that
  envelope is (`OriginInv`), that a restore past its check holds the sidecar it
  checked (`MacInv`), that a file nobody touched since a tool looked is what the
  tool saw (`FileInv`), and what a settled backup consists of. The three
  properties of restores and `SettledBackupVerifies` follow. `SignedInv` adds what
  a tool signs with: a key it holds is the key on disk, with the mode the reader
  asks for, unless the creation was contested; no step takes that from the file
  again, so what was ever signed can be verified (`SignedEnvelopesVerify`), by any
  number of tools and over any number of crashes. Keys are never guessed:
  that is the assumption that `ForeignKey` is none of `Keys`.
* `ReadersProofs`: `ReadersInv` ties a request's phase to its connection and
  records each failure; what was read is carried as data of an unknown set, since
  the argument does not look at it. `ReadInv` adds what the tables guarantee (no
  entry has counted more attempts than it has; edges joined nodes when they were
  made) and what a request under way remembers of it, and gives
  `AuditIsNotOlderThanState` and `DownstreamIsExplained` for any writes.
  `ReadersTypeOK` needs one fact more, `ForeignInv`: no entry has more attempts than
  there were writes. `TodoInv` (what is left to read is a sequence of the SELECTs of
  the route) makes `StepsLeft` a number, and `RequestsAdvance` says that every step
  of a request lowers it and nobody else's step raises it. These rest on
  `ReportedAssumption` (the states reported are those the repository knows) and
  `TableBoundsAssumption` (the bounds are numbers).
* `AnswersProofs`, on top of `ReadInv`: every status but `accepted` has one bucket,
  and buckets are disjoint, so the counts of the analytics are those of the list
  and of the entries without an artifact (`CountsMatchList`); the rows of a list
  are rows of the staging table, and what the list decodes twice the detail decodes
  once (`ListedEntriesOpen`); a service that is overdue when an overview begins and
  does nothing since is among the rows of the last SELECT, whatever happens between
  the three (`OverviewInv`, which gives `OverdueServicesAreFlagged`).
  `RequestsCanGoOn` says that a request under way is never stuck: by `TodoInv` its
  next SELECT is one of its route, and every SELECT has a result. For those with a
  limit that is the lemma `LatestExists`: of finitely many rows, any number of
  latest ones can be chosen, in any order of their times and with any ties, if the
  number is not negative; `Clamp` makes it positive for every integer a client
  sends (`LimitsAssumption`, `MaxProposalsAssumption`). With `RequestsAdvance`
  these are the two halves of `EveryRequestIsAnswered`, whose third, that a step
  which can be taken is taken, is the fairness. The properties of this module rest on
  `EntriesAreFinite` and `KeysAreFinite`, `AdvancedAssumption` (the statuses written are those the
  repository knows), `ThresholdsAssumption` (the thresholds are integers), and on
  `None` being no number and no bucket (`NoneIsNoNumber`, `NoneIsNoBucket`).
* `CoreTablesProofs`: `RegistryInv` (a checked registration is still one the
  running foundation meets, unless an older one was installed) gives
  `RequiredIsMet`, the two action properties of the registry and, with
  `PruneInv`, `PruneKeepsRecent` for any window, skew and delay. They rest on
  `RegistryAssumption` (the foundation's own versions parse, `app_mode` is NOT
  NULL) and `PruneAssumption` (the bounds are numbers).
* `NilCanonProofs`: `NilInv` adds to the types that every row of the canon, or of a
  call about to commit, comes from an accepted row of its node (`AcceptedInv`), and
  that a lone call has deleted the whole canon and holds, once it has inserted, the
  replay of the log as long as nothing is appended (`ReplayInv`). A call that overlaps no other leaves exactly the replay of the log
  (`CanonIsReplay`), and none ever leaves a row that is not accepted
  (`CanonIsAccepted`). That a node with live rows has a newest one is an induction
  over times, cited from the library's well-founded orders. `NodesGoForCause` is two
  more invariants on top: `NumberedInv`, no two calls under way have the same number,
  so a row of the canon tells which call wrote it, and `CauseInv`, a call that
  has deleted a row it will not put back found no live row for its node, as long as
  nothing was appended since (`NodesLeaveForCause`). `NilAssumption` says
  that the bounds are numbers and `Null` is no transaction.

Only model-checked: the liveness properties, `EveryCallReturns`, `StopEnds` and
`EveryRequestIsAnswered`, since fairness and ENABLED are out of the prover's reach;
what is proved of the first and the last is that nobody gets stuck (`NoPoolDeadlock`,
`RequestsCanGoOn`) and, of requests, that they advance. The guards that these two
spell out, `CanGoOn` in both modules, are the ENABLED of `Proceed`: TLC finds no
state of the two runs in which they differ. The violations are TLC's.

Proved, and not listed in a run because it is typing alone: `TypeOK` of
MigrationLock and `NilTypeOK`. Proved, and not listed in a run because a listed
property or an invariant behind it says more on the instance: `NoSharedConn` (part
of `LockInv`), `KeyIsNeverReplaced` (`SignedEnvelopesVerify`), `RequestsCanGoOn` (a
request that is stuck would never be answered). The refinements of SchemaVersions
and MigrationGate by Lifecycle and of SigningKey by Backups are in no run either,
and proved only.

## 5. Not modelled, and the plan

Left out for good:

* settings, which validate environment variables into a record and keep no state;
* the health reporter, a stateless formatting of what Lifecycle gives it;
* packaging and the documentation scripts;
* the averages and the field names of the analytics responses;
* format versions, and what `pg_dump --schema core` selects (no file of the
  repository creates a schema of that name: the core tables are in the default one);
* failed rows of the backup log;
* the CHECK constraints on single rows of the NIL tables and `nil_queue_items`,
  which nothing in the repository reads;
* debug logging: `logger.debug` with keywords would raise like the others, and is
  taken as off.

What the code does against its comments and tests, where the models follow the code
and no property is stated, since one would hold for the wrong reason:

* Degraded serving. `main.py:44-54` and `manager.py:126` and `219-237` intend an API
  process that serves `unavailable` when its start failed, and
  `tests/api/test_health_api.py:96` builds one by hand. `start()` never raises the
  `LifecycleStartError` that `lifespan` waits for, nor returns UNAVAILABLE, because
  the loggers on the way raise `TypeError` first: in Lifecycle a start that fails is a
  process that has crashed, and `unavailable` is only what `status()` answers without
  a pool.
* Mode changes. `compatibility.py:149` says they "are allowed but logged", and
  `tests/registration/test_compatibility_semantics.py:9` expects it. The
  `logger.warning` that logs one raises `TypeError`, so a registration that changes the
  mode is not written (`"raised"` in `CheckReregistration`).
* Superseders of any status. A queued or rejected row, or the row itself, takes an
  accepted one out of the rebuilt canon (0003:191-193), though 0003:129 says that a
  queued item "is not accepted state". `Live` is the SQL.
* Ties. `DISTINCT ON ... ORDER BY created_at DESC` leaves open which of two rows of one
  transaction a node gets, so two rebuilds of one log can differ, though 0003:156-158
  says "exactly" and "idempotent". `CanonIsReplay` accepts any of the newest.

Planned, in this order:

1. A restore composed with Lifecycle and SchemaVersions: a health check that runs
   between a DROP and the CREATE after it (`manager.py:336`), which no property
   covers yet, and the log row that a failed `pg_dump` does not write
   (`manager.py:132`).
2. An abstract store of sealed backups that Backups implements while nobody
   interferes.
3. A variant for `EveryCallReturns`, as `StepsLeft` is for the requests.
