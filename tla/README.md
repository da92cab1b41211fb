# Verification of Twill DB

TLA+ models of Twill DB, from the storage backends up to the wire protocol: the
commit pipeline, the object-store log and page tree, the file backend and its
branches, the versioned row store, the catalog and its recovery, the SQL front
end and the executor with row-level security, the vector index, the
scale-to-zero controller and the wire-protocol session. TLC checks each model on
small instances; TLAPS proves, for every value of the constants, the safety
properties of the commit pipeline, the object-store log, the page tree, the file
backend, the row store, the controller and the wire session.

Paths below are relative to `src/crates/`.

## 1. The system

| Component | State it keeps | Operations | What makes it correct | Module |
|---|---|---|---|---|
| Write lane (`engine/src/db.rs`) | `locked`, condvar | acquire, release | one writer between DML and enqueue | GroupCommit |
| Group commit (`engine/src/group_commit.rs`) | queue, members, `leader_active`, condvar | commit (enqueue, lead, follow), flush, resolve, quiesce | one leader, no commit left behind, acknowledged only when durable, LSNs in submission order | GroupCommit |
| DDL path (`engine/src/conn.rs`) | none of its own | lane, quiesce, append, apply | runs against a quiesced pipeline; recovery rebuilds what it did | GroupCommit, Catalog |
| WAL codec (`engine/src/wal.rs`) | none | encode, decode | decode undoes encode, for records of older versions too | Catalog |
| Row store (`engine/src/store.rs`) | versions with create/delete stamps and owner, schemas, counters, `committed_lsn` | finalize, rollback, rollback to savepoint, column changes, replay | snapshots never change; memory equals what recovery rebuilds | MvccStore, Catalog |
| DML (`engine/src/exec.rs`) | none of its own | INSERT and its conflict actions, UPDATE, DELETE | unique keys, first committer wins, constraints and policies | MvccStore, SqlExec |
| Transactions (`engine/src/conn.rs`) | snapshot, owner, WAL ops, savepoints | begin, commit, rollback, savepoint, release, rollback to | pending versions = ops to be logged | MvccStore |
| Recovery (`engine/src/db.rs` `replay`) | rebuilds the store | open | a commit is all there or not at all | MvccStore, Catalog, VectorIndex |
| Object log and fence (`storage/src/object/mod.rs`) | lease object, `log/<seq>` objects; per handle `next_seq`, `next_lsn` | append, acquire, renew, release, recover | one token per epoch, contiguous log, a fenced writer is out | ObjectLog |
| Page tree (`storage/src/object/mod.rs`) | memtable, delta and image layers, layer cache, retention floor | put/get page, flush, compact, gc, recover | the version at or before an LSN, at any time | PageStore, StorageContract |
| File backend (`storage/src/local.rs`) | one framed file and its index in memory | append, pages, branch records, recovery | a torn tail is dropped, nothing else | LocalFile |
| Branches (`storage/src/branch.rs`) | parent, overlay, fork LSN | reads through, writes to the overlay | a private copy of the parent at the fork | Branch |
| Registry (`engine/src/db.rs` `Database::open`) | weak reference per URL | open, share, drop | one live database per URL, holding the fence | Controller |
| Controller (`controller/src/lib.rs`) | phase, handle, lease count per URL; permits | start, drop of a lease, stop, reaper | exact counts, one warm per cold URL, every start returns | Controller |
| SQL front end (`engine/src/sql.rs`, `lex.rs`) | a position in the tokens | parse, capture | reads every sentence of its grammar, in one way | SqlGrammar, SqlParser |
| Query executor (`engine/src/exec.rs`, `value.rs`) | none | SELECT on two paths, expressions | the paths agree, SQL's algebraic laws | QueryEval, Query |
| Row-level security (`engine/src/exec.rs`) | policies, the session's principal | read filter, write check | hidden rows never count, forbidden ones are never written | QueryEval, SqlExec |
| Vector index (`engine/src/vector.rs`) | graph of nodes with version ids, page checkpoint | insert, remove, mark dead, compact, search, checkpoint, adopt | agrees with the rows at a snapshot | VectorIndex |
| Wire session (`server/src/session.rs`) | statements, portals, error state | simple and extended protocol | exactly-once execution, skip until Sync, transaction status | WireSession |
| C ABI, clients, CLI, benchmarks, introspection | | | see section 5 | |

How they interact: a session parses a statement and runs it on its connection.
The connection takes the write lane for its first DML statement, leaves pending
versions in the store, and at COMMIT hands its WAL records to the coordinator and
the lane to the next writer. A leader appends a prefix of the queue through the
`Storage` trait (file or object store), stamps the versions under the store lock,
which also marks deleted nodes of the vector indexes, and wakes the followers.
DDL waits for an idle pipeline and appends by itself. The controller opens and
drops databases through the registry; opening acquires the fence, which makes the
append of every older token fail, and replays the log into a new store.

What is hard here: the lane is given up before durability, so transactions
pipeline on each other's unpublished rows; append, publish and resolve are three
critical sections; DDL bypasses the coordinator; every object-store operation is
several requests, any of which may fail before or after it is applied; page reads
and garbage collection go on after the lock is dropped; the controller drops its
lock while a database opens; the catalog is rebuilt by replaying statements; the
parser has no reserved words and the executor has two pipelines; the session's
two protocols share one error state. `PROJECT.json` lists these as hazards, at
their lines, with the properties that watch them.

## 2. The modules

`MC*.tla` extend a module with the values or the symmetry of its constants;
`*Proofs.tla` extend it with the theorems of section 4. A
definition commented "Mutant" or "A bug" is not part of a specification: it is a
plausible bug of the definition below it, used to see that a property would
notice.

### GroupCommit

`pc[c]` is what a connection does next; every label is one critical section, or
one append, of `commit`, `lead`, `flush_batch`, `resolve`, `quiesce`, `exec_ddl`
and `do_ddl`. `laneWait` and `cvWait` are the waiters of the two condition
variables, with `notify_one`, `notify_all` and spurious wakeups. A member is
named by its connection, since `commit` blocks. Records are counted, not
represented: a log entry is `[owner, sub, first, last]`, its LSN range with the
position of its submission. `upto` in a queue entry is a prefix sum of record
counts, so that the size of a batch is a difference and needs no recursion.

The log is that of the file backend. An append that fails may have written its
frame whole (`tail`); the next append starts at the same offset and overwrites
it, a crash before that recovers it. So a commit reported as failed may come
back after a crash, which the code allows ("durability unconfirmed"); the
converse may not happen, and that is `AckedDurable`.

CREATE INDEX ends by writing the new graph to the log as page images, one `put_page`
and one LSN each, still under the lane (`ddlPages`). A page image belongs to no
transaction and moves neither `commit_lsn` nor the readers' mark, so the log goes on
past `committed` while nothing is in flight, and `pages` holds the LSNs that are no
transaction's. The put of a page may fail with its frame whole, like an append.

### ObjectLog

A handle is an `ObjectStorage` with its token; several are open on one bucket.
Each request (get lease, swap lease, put slot, list log) is a step.
`RequestFails`, `PutAnswerLost` and `CasAnswerLost` are the two modes of
`object/fault.rs`. The store itself is assumed to be what `object/store.rs`
states: atomic, strongly consistent, with conditional writes. A segment is its
number of items. `stale`, `skipped` and `acked` are history variables; `acked` has
the slot and the LSN each append that returned was told.

### StorageContract and PageStore

StorageContract is what the trait `Storage` promises of pages: a history of
durable items, one LSN each, a floor that only rises, and reads that return the
greatest version at or before their LSN, or an error. PageStore is the
object-store implementation: memtable, delta layers, one image layer, the layer
cache, flush, compaction, collection and recovery from the bucket's listing.
What runs under the handle's lock is a step; `get_page` loads layers and `gc`
deletes objects one at a time after dropping it. `ImplementsContract` is the
refinement, with the durable log as the contract's history. It has content
because the version a read must return is fixed when the read starts, while its
layers are flushed, folded and collected under it. It rests on the order of
`list`: `gc` deletes deltas before images and older ones first, so a read that
loses a layer fails instead of finding an older version; the trait `ObjectStore`
does not ask for a sorted listing, every binding has one. The contract's floor is the
handle's: when the answer to the put of the floor object is lost the durable floor is
ahead of it (`floorObj`), which a reopen turns into a move of the floor.

### LocalFile and Branch

The file is a sequence of frames, a frame its tag with what recovery takes from
it, and bytes that do not parse are one `Torn` entry. An append is several
steps; its write may be cut short, its sync may fail with the frame whole, and
the next append overwrites what is past `end`. `opener` is the second handle that
`open_branch` opens on the parent's file, whose recovery truncates what it takes
for a torn tail. `Recover` folds the frames into the state in memory.

Branch adds `BranchStorage` as operators: for every branch record of the parent,
now or after it has moved on, and for any overlay file of up to `MaxOverlay`
frames, what the branch answers. `BranchIsPrivateCopy` compares it with one file
that holds the parent's frames up to the fork and the overlay's behind them.

### MvccStore

Versions as in `RowVersion`; `visible_to_reader`, `visible_to_writer` and the
checks keep the source's names or its structure. A statement is one step (it
runs under the store's write lock). The pipeline is reduced to what GroupCommit
shows of it: a FIFO of commits, a durable append of a prefix, and a publish or
discard. One LSN stands for the records of a transaction. `Replay` is recovery's
view of the log and the reference against which the store is checked.
`OnConflicts` chooses which INSERTs a run has, `Unique` which tables have a UNIQUE
column. A statement may raise after it has changed rows: an INSERT at a later row, and
any of the three when RETURNING is evaluated, since that comes last. Then nobody puts
the rows back, the ops are lost, and an explicit transaction goes on (`exec_dml`).
`Midway` chooses what such a statement may leave behind: new versions (`"insert"`), or
superseded ones as well (`"supersede"`), by DELETE, UPDATE, REPLACE or DO UPDATE.

### Catalog

The store's catalog half and the log it is rebuilt from. Every DDL statement is
two steps, its append and its application, with a crash possible between them;
`Encode` and `Decode` write and read a record as a sequence of fields with the
counts, flags and optional sections of `wal.rs`, and a record written before a
section existed ends early. Rows take part as far as schema changes reshape them
and counters number them. A view is the relations its body reads, with the CTEs
that shadow them. `clock` stands for the time a volatile default reads.

### QueryEval, Query and SqlExec

QueryEval has values with their storage class, comparison, three-valued logic,
arithmetic at a small width, expressions and the policies' decision. Query has the
two SELECT pipelines of `run_select` (single table and relational), with joins,
grouping, set operations, CTEs, views, derived tables and correlated subqueries,
which the code evaluates by substituting outer values (`bind_select`,
`fold_corr`). The paths are two programs: a sort key is evaluated over a row on one and
over a group on the other, and only one of them looks at the qualifier of a star;
`ReadAlike` names the queries that mean the same on both. SqlExec is a session running
INSERT, UPDATE and DELETE: a statement is a function of the database and the session,
rejected or replacing the rows of its table. Its states are the databases against which
the properties evaluate probe queries and predicates.

### SqlGrammar and SqlParser

Each function of the recursive-descent parser is a production. The same data is
read in two ways: a derivation machine writes sentences, and `Parse` reads tokens
the way the code does, committing to a branch by its lookahead. A syntax tree is
abstracted to the role, name or keyword, each token is read in. `Lex` and
`RenderTokens` are the lexer's longest match and the text a DEFAULT, CHECK or
policy expression is stored as.

### VectorIndex

The graph with its levels and links, its search and its upkeep by the row store
while commits are queued, flushed, stamped or discarded; the checkpoint page by
page, with a page whose put fails; the cold open that adopts the pages or rebuilds
from the rows; and `KnnSelect` beside the scan. Vectors are points on a line, and
the level drawn for the n-th insertion is a constant. `MaxLag` is how
many commits a writer's snapshot may be behind. The cap on a node's links is `M`, twice
that at level 0, with `M` at least 2 as the parser has it (`sql.rs:1458`). With up to
2M + 1 nodes no link of level 0 is ever cut, and the index is exact; `VectorPrune.cfg`
has the sixth node, whose insertion prunes.

### Controller

Callers inside `start`, leases, `stop`, and the reaper's pass as three steps
(look, renew without the lock, act). `Database::open` is lookup, acquire,
register. A database is named by the epoch it acquired and is alive while an
instance, a lease, an open in progress or the reaper's clone refers to it, which
is what `Weak::upgrade` sees. Time is abstracted: an idle instance may have
reached its timeout whenever the reaper looks. The phase `Stopping` does not
appear, as it is entered and left within one critical section.

### WireSession

A message is a step. A statement is its kind (what the engine, `introspect.rs` or
the PostgREST templates of `datapath.rs` make of it), a write counts as one row,
and the engine's answer to a statement is any outcome the connection may have,
a failed commit included. `tally`, `dirty` and `mute` are history: how often a
portal has run and its completion was told, whether a statement of the open
transaction has failed, whether an extended message has failed since Sync.
`Eager` lets the client send a simple Query before it has synced.

## 3. What TLC checks

| Run | Bounds | Shows |
|---|---|---|
| `group_commit` | 3 connections, 2 transactions of 1 op, cap of 4 records, DDL while the log is shorter than 2, 1 page image, 1 crash, weak fairness | durability before acknowledgement, readers see exactly the log, stable snapshots, every LSN a transaction's or a page's, the inductive invariant; every queued commit returns and DDL reaches its quiescent point |
| `object_log` | 2 handles, 3 appends of 1-2 items, 3 lease writes, 1 fault, 1 retry | distinct tokens, a contiguous log with every acknowledged append in its slot and nothing twice, at most one segment of a fenced writer, exact LSNs until a slot is lost |
| `mvcc_store` | 2 connections, 3 transactions of up to 2 ops, 2 keys, 3 versions, 2 nested savepoints, 1 crash, no statement raises after changing rows | no lost update, pending versions = ops to be logged, store = log |
| `mvcc_upserts` | 2 connections, 3 transactions, REPLACE, DO UPDATE, INSERTs that raise after adding rows, 1 crash | unique keys at every snapshot |
| `controller` | 3 callers, 1 database, 2 permits, 3 starts, 2 stops, 1 takeover, 1 failure, weak fairness | exact lease and permit counts, phases with their handle or warmer, one warm, every start returns |
| `page_store` | 2 pages, 3 LSNs, flush threshold 2, 1 reader, 1 collection, 1 failed put (of a layer or the floor), 1 crash | refinement of StorageContract; a crash loses no version at or above the floor |
| `local_file` | 1 page, 5 frames of up to 2 records, 1 failed append, 1 opener, 1 crash, overlays of 2 frames | acknowledged frames survive, memory = replay, a branch is a private copy |
| `sql_parser` | statements and expressions with 2 optional choices taken | parsed back with every word in its role; captured text lexes back |
| `sql_exec` | 2 tables, 3 principals, 2 rows a table, 3 statements, integers -4..3 | constraints, policies on writes, hidden rows do not count, the two paths agree on what both read alike, relational laws |
| `catalog` | 2 tables, 3 view definitions, 1 index, 2 policies, 8 log records, 2 rows, logs of two older formats | recovery rebuilds the catalog, rows fit their schema, counters stay ahead, views are acyclic |
| `vector_index` | 1 table, 2 vectors, 3 versions, 2 writers, 4 LSNs, 2 nodes a page, 1 crash | whatever checkpoint is adopted holds the rows, kNN = scan |
| `wire_session` | 1 statement and 1 portal name, 10 kinds of statement, bodies of 2 rows, 4 writes, 2 executions a portal | a portal runs once per completion, the status hides no failure, nothing runs until Sync |

Why the bounds are enough for the cases that matter. With a cap of 4 records a
batch holds one or two members, another commit or a DDL statement arrives behind
it, and a crash falls between any two steps; the invariants that need more
transactions are the ones proved. Two handles with three appends include a
takeover during a put, a lost answer followed by a retry, and a loser that
rescans. Two connections with pipelined commits give every order of conflicting
DML, queueing, publishing and discarding. Two stops and three starts give three
racing warms for two permits. Three LSNs with a threshold of two give a layer
below, across and above the floor, and an image over it. Five frames hold a fork,
commits and a floor on both sides of it and a torn write before a good one. A
budget of two choices derives every clause next to every clause that can follow
it, which is what the parser's lookahead decides on. Two rows and three statements
give duplicates, NULLs, empty groups and rows hidden from one principal. Two
vectors and three versions give a deleted, a rolled-back and a live node in one
graph.

Symmetry is used only in runs of safety properties (and of the refinement, whose
mapping does not tell model values apart). Deadlock is checked except for
Controller, Catalog and VectorIndex, which rest when their actors have nothing to
do within the bounds; a SQL session can always switch its principal and a wire
session always sync; in the other modules the step `Rest` (or `Done`) marks the
states in which nothing is left to do, so any other stop is reported.

Fairness. `GroupCommit!FairSpec` has weak fairness of every step a thread takes
by itself inside the pipeline (the operating system schedules every runnable
thread); nothing is assumed of clients, of spurious wakeups, or of who gets the
lane. `Controller!FairSpec` has weak fairness of each caller inside `start` and
of the reaper thread; nothing of leases being dropped, stops or takeovers. The
other modules state safety only: the file, the page tree, the catalog and a
session make progress exactly when they are called.

### Where the code and its documentation disagree

The runs above pass; their constants stay clear of the following, each of which
has a configuration that ends in a counterexample.

| Configuration (module) | Property | What the code does | What it says |
|---|---|---|---|
| `ObjectLogStale.cfg` (MCObjectLog) | `StaleWriterFenced` | `append_segment` checks the lease and then puts the slot; the put carries no epoch, so a writer fenced in between still lands one segment | `storage/src/object/mod.rs:13-17`: "A successful CAS *is* the commit point and *is* the fence" |
| `ObjectLogStale.cfg` with `LsnExact` for its invariant (MCObjectLog) | `LsnExact` | after a lost slot `next_seq` is refreshed and `next_lsn` is not | `storage/src/types.rs:17`: "Strictly monotonic, gap-free per database, never reused" |
| `PageStoreGcRace.cfg` (MCPageStore) | `NoReadLosesItsLayer` | `gc` deletes a layer a read has already chosen, and the read fails | `storage/src/object/mod.rs:450`: "Safe by construction" |
| `LocalFileOpen.cfg` (LocalFile) | `AckedSurvives` | a branch opened while an append runs truncates the parent's file under it | `storage/src/local.rs:17`: "an acked mutation always survives a crash" |
| `MvccMidway.cfg` (MCMvccStore) | `PrimaryKeyUnique`; `StoreMatchesLog` and `PendingMatchesOps` in its place | a statement that raises at a later row or in RETURNING, in an explicit transaction, leaves its changes pending but unlogged, and COMMIT publishes them; a row superseded that way is back after a crash, beside one inserted with its key | `engine/src/conn.rs:712`: "The statement is atomic (store untouched on failure)" |
| `MvccReplaceRace.cfg` (MCMvccStore) | `NoLostUpdate` | REPLACE and DO UPDATE supersede a row without `check_no_conflict` | `engine/src/store.rs:36-37`: "A row can carry at most one pending stamp at a time" |
| `ControllerFenced.cfg` (MCController) | `WarmIsCurrent` | while an old lease keeps a fenced database alive, the next warm shares it | `controller/src/lib.rs:10-11`: "opening one acquires the writer fence and replays the WAL" |
| `SqlCapture.cfg` (SqlParser) | `CaptureRereads` | a quoted name is rendered without quotes and `1.0` as `1` | `engine/src/sql.rs:1267`: "(re-parseable on replay)" |
| `CatalogViews.cfg` (MCCatalog) | `ViewExpansionTerminates` | a view whose CTE has the view's own name and reads it is accepted | `engine/src/conn.rs:165-167`: "Every stored view is acyclic by this check" |
| `CatalogDefault.cfg` (MCCatalog) | `RecoveryRebuildsCatalog` | `ADD COLUMN ... DEFAULT now()` is evaluated again at replay | `engine/src/db.rs:521-523`: "(evaluated as a constant)" |
| `VectorTorn.cfg` (MCVectorIndex) | `TornIsRefused` | pages left by an earlier index of that name, over another table, complete a partial checkpoint | `engine/src/vector.rs:661-663`: "a corrupt or partial checkpoint falls back to rebuild-from-rows" |
| `VectorPrune.cfg` (MCVectorIndex) | `KnnSurfacesLive` | a node over its cap keeps its nearest links (`vector.rs:376`), a far row loses its last inbound one, and a query returns fewer rows than it was asked for and there are | `engine/src/exec.rs:1355-1358`: "to still surface `k` *live* results" |
| `SqlPaths.cfg` (MCSqlExec) | `PathsAlwaysAgree` | a sort key is evaluated over a group (`exec.rs:4149`) on the relational path and over a row (`exec.rs:1181`) on the other, so one answers an aggregate in ORDER BY that the other refuses; they also differ on the qualifier of a star | `engine/src/exec.rs:3428-3430`: "runs the same filter / group / project / order pipeline the single-table path does" |
| `WireFailed.cfg` (WireSession) | `FailedMeansFailed` | `failed_txn` outlives its transaction when that ends in an error and is reported of the next one | `server/src/session.rs:84`: "Whether an explicit transaction has entered the failed state" |
| `WireEager.cfg` (WireSession) | `DiscardsUntilSync` | a simple Query between an error and Sync is executed | `server/src/session.rs:81-82`: "discard until Sync" |

Further limits show when a constant of a configuration is changed:

* `Mvcc*.cfg`: `OnConflicts` with `"rekey"` (`PrimaryKeyUnique`): DO UPDATE may
  assign the primary key unchecked (`exec.rs:2945`). `Tables = {t1, t2}` with a
  savepoint (`PendingMatchesOps`): a savepoint merges the version ids of all tables
  (`store.rs:573`). `Unique = {t1}` (`ValueUnique`): UNIQUE values are compared with
  committed rows and the writer's own, not with queued ones (`exec.rs:2128`).
* `Controller.cfg`: `OneWarm` (a stop during a warm lets a second one start,
  `lib.rs:414`) and `SharedDbHoldsFence` (of two racing opens both return the
  database whose token the second one fenced, `db.rs:219`).
* `PageStore.cfg`: `FloorSlack = 1`, a floor above the durable LSN
  (`CrashLosesNothing`, `mod.rs:960`); `ImageFaults = TRUE` and `MaxGc = 2`, an image
  whose put was applied but reported as failed.
* `LocalFile.cfg`: `OverlayFloors = TRUE` (`BranchIsPrivateCopy`): an overlay that
  refuses an LSN below its own floor is taken for one without a version
  (`branch.rs:64`).
* `VectorIndex.cfg`: `Tables = {"t", "u"}` (`KnnMatchesScan`): a rollback removes its
  version ids from the indexes of other tables (`store.rs:661`).
* `WireSession.cfg`: `RefusedWritesNothing` (a POST that fails at a row keeps the
  rows before it, `session.rs:786`) and `RunsWhatWasBound` with
  `StmtNames = {"s", "t"}` (a portal looks its statement up by name when it runs).
  `DiscardsUntilSync` is about what is prepared, bound or run: Close and Flush are
  answered while the server skips to Sync (`session.rs:558`).

Reading the code for the models also showed what no property here is about:
DO UPDATE skips CHECK, UNIQUE and the UPDATE policies; a SELECT without FROM
ignores WHERE, ORDER BY and LIMIT; a set operation nested in an arm of another
loses its own arms; CTEs are not visible in other CTEs and in derived tables; group
and DISTINCT keys tell the integer 1 from the real 1.0; `SUM` and
`i64::MIN / -1` leave the integer range; RENAME TABLE onto an existing name
replaces that table; indexes and foreign keys keep the old name of a renamed
table; ADD COLUMN does not validate NOT NULL or UNIQUE against its fill; a failed
transaction still runs statements, and COMMIT commits them.

## 4. What is proved

Eight modules hold theorems: one per component, named after it, and
`InductionLemmas`. They are about every value of the constants; the assumptions
are the ones named in the modules (bounds are natural numbers, sets of
connections, handles or callers are finite where something counts them) and, for
some theorems, hypotheses written in their `ASSUME` and given below. No property
of the table is inductive as it stands; the third column is the invariant that
is.

| Module | Theorem (property) | From |
|---|---|---|
| GroupCommitProofs | `SnapshotsMatchLog` (`ReadersSeeLog`), `AckedCommitsAreDurable` (`AckedDurable`), `SnapshotsAreStable` (`SnapshotStable`), `LaneIsExclusive`, `LeaderIsUnique` | `IInv` |
| | `LsnsAreTiled` (`LsnsTileLog`) | `IInv` and `TileInv` |
| ObjectLogProofs | `EpochsAreDistinct` (`TokensDistinct`), `EpochsOnlyGrow`, `LogIsExact` (`LogExact`), `FencingLetsOneThrough` (`StaleLandsOnce`), `LsnsAreRecoverys` (`LsnExactUntilSlotLost`) | `LogInv` |
| PageStoreProofs | `NoPageIsLost` (`CrashLosesNothing`), `PageTreeImplementsContract` (`ImplementsContract`) | `PageInv` |
| LocalFileProofs | `MemoryReplays` (`MemoryIsReplay`) | `LocalInv` |
| | `AcknowledgedSurvives` (`AckedSurvives`), `AcknowledgedAccumulates` | `LocalInv` and `Held` |
| | `BranchesArePrivate` (`BranchIsPrivateCopy`) | `ForkInv` |
| MvccStoreProofs | `NoUpdateIsLost` (`NoLostUpdate`), `PendingIsLogged` (`PendingMatchesOps`), `MemoryMatchesLog` (`StoreMatchesLog`), `SnapshotsAreRepeatable` (`SnapshotRepeatable`, which no run checks) | `StoreInv` |
| | `PrimaryKeysAreUnique` (`PrimaryKeyUnique`) | `KeyInv` and `ReplayInv` |
| ControllerProofs | `PhaseTellsTheTruth` (`PhaseSound`), `NothingLeaks` (`Counted`), `OneCallerWarms` (`OneWarmUnlessStopped`) | `ControllerInv` |
| WireSessionProofs | `PortalsRunExactlyOnce` (`ExactlyOnce`), `StatusHidesNoFailure` (`NoHiddenFailure`), `NothingRunsUntilSync` (`DiscardsUntilSync`) | `SessionInv` |

Every proof has a lemma per action (or per group of actions that change the same
variables), split into the conjuncts the action can disturb, and a theorem that
puts them together.

**GroupCommit.** That an acknowledged commit is durable needs that the result a
leader wrote is that of a published entry (`ResultInv`), hence that between its
append and its resolve the batch still names the entries the log has (`MarkInv`,
`BatchInv`), hence that nobody appended or published in between: there is one
leader (`OneLeader`), and DDL holds a quiesced pipeline (`DdlInv`) under the lane
(`LaneExclusive`). `QueueInv` carries the members from the queue to a batch;
`LogInv` says which durable entries are still to be published; `TailInv` keeps
what a crash may recover above every mark already given to a reader. `IInv` is
their conjunction. `LsnsTileLog` is about positions in the log, so it needs more:
the prefix sums in the queue grow with its members, submissions are numbered in
queue order, and the entries of the log and of a frame that a crash may recover, with
the page images between them, are laid end to end (`TileInv`). `MarkInv` says no more
than that the readers' mark is behind the log by at least what is being published: the
pages written since the last commit are behind it for good.

**ObjectLog.** `LogInv` is `TypeOK` with: what a handle read of the lease is no
newer than the lease, and equal etags mean equal epochs (`LeaseInv`, from which a
successful compare-and-swap gives a new epoch); the slots are `1..k` and no
handle's next slot is beyond `k + 1` (`Contiguous`); an op is in at most one slot
and one handle's hands (`OpsInv`); a handle that landed a segment after its
takeover has left `append_segment` with an epoch below the lease's, so its next
check fails (`StaleInv`); an append that returned is in the slot it was told, and
returned once (`AckInv`); a handle's next LSN is at most
recovery's, and equal as long as it lost no slot (`LsnInv`). `ReplayLsn` is a
running sum over the slots; its step is a lemma.

**PageStore.** Hypotheses: floors are not above the durable LSN (`FloorSlack =
0`) and the answer to an image put arrives (`ImageFaults = FALSE`); without
either the property fails (section 3). The answers to the puts of deltas and of the
floor may be lost. `PageInv` says what each layer holds
(`ContentInv`, `ImageInv`: a delta has every version of its LSN range, an image
the newest of each page up to its LSN), how the deltas lie (`OrderInv`), that
every flushed version is in a delta, or in the image with no delta holding an
older one (`CoverInv`), that deleting layers one by one in listing order never
uncovers a version (`GcInv`), and that what a read has yet to load holds the
version it owes and nothing that would hide it (`ReadInv`). The refinement
maps each step to a step of `StorageContract` or a stutter; a read's answer is
fixed when it starts, and `ReadInv` is the argument that layers changing under it
do not change the answer.

**LocalFile.** `LocalInv` says that memory is the replay of the acknowledged
frames, of which there are `end`, and that the frame an append is writing is one
of the operations on that memory. For
`AckedSurvives` the hypothesis is `~OpenWhileWriting`: nobody opens the file
while another handle appends (`LocalFileOpen.cfg` shows what happens otherwise).
`Held` then keeps the acknowledged frames below every place where the file may be
cut. Recovery folds the frames; that one more frame is one more step of the fold is
a lemma, by the induction of `InductionLemmas`.

`BranchIsPrivateCopy` compares two folds: what a branch recovers from its base and
its overlay file, and what one file with the parent's records up to the fork followed
by the overlay would give. A fold over the overlay, started from what the parent had
at the fork, is the parent's own fold with every LSN of the overlay shifted: an
induction over the two logs, with a lemma for a scan of the file and one for a
`get_page`. It needs that the base of every frame a branch reads is a `commit_lsn`
that some prefix of the acknowledged log ends at (`Forked`), and that what lies in the
file past the acknowledged frames is at most one whole frame and torn bytes
(`Leftover`); with `LocalInv` these are `ForkInv`. The hypothesis is
`~OverlayFloors`: when a retention floor moves in an overlay, a read between the fork
and that floor falls through to the parent, while the single file answers NotFound.

**MvccStore.** `StoreInv` says that pending stamps and the ops of the open
transactions are the same thing (`PendInv`), that a savepoint is a prefix of the
ops with the pending stamps of that time (`SaveInv`), that committed stamps and
log records are the same thing (`LogInv`, `WalInv`) up to the batch that is
appended and not yet published (`TailInv`), and that LSNs, owners and version ids
are below their counters (`TxnInv`, `QueueInv`, `LsnInv`, `RowsInv`). A rollback
keeps a prefix of the ops and undoes the stamps of the rest; recovery is `Replay`
of the log, which is where `StoreMatchesLog` comes from. Hypotheses: statements
check for conflicts and do not raise once they have changed rows (`Checked`: no
REPLACE or DO UPDATE, and an empty `Midway`), and savepoints are over one table
(`OneTable`). REPLACE deletes rows without a conflict check, a statement that raises in
its middle or in RETURNING leaves stamps without ops, and both really break these
properties (`MvccReplaceRace.cfg`,
`MvccMidway.cfg`). That a snapshot can be read again and gives the same rows
(`SnapshotsAreRepeatable`) follows step by step: either the log up to the mark or
the rows stay, and by `StoreMatchesLog` either tells what a snapshot sees.
`pending_snapshot` collects the version ids of all tables in one set although each
table numbers its own, so with two tables a savepoint is not a prefix of the ops.

`PrimaryKeyUnique` has an invariant of its own, `KeyInv`, because it also holds of
REPLACE, of DO UPDATE that leaves the key alone and of statements that raise after
changing rows, where `StoreInv` does not. Two versions of a key are `Apart`: one is superseded at
an LSN not above the other's creation, or by the transaction that creates the
other, so that no later publish or rollback can bring them together. Rolling back
can revive a version, so this must also hold of what every savepoint would go back
to (`SavesOk`), which needs that a savepoint names only versions that are still its
transaction's (`Names`) and that savepoints are nested (`Nested`). While one
transaction writes, no other that could still roll back to a savepoint owns rows,
since only the lane's holder adds them (`WroteOk`, `OwnerInv`). `rollback_owner`, a
discarded batch and `rollback_to_savepoint` are instances of one operator,
`Reverted`, with lemmas that two of them commute when they are of different
transactions and collapse when they are nested. With `"rekey"`, a DO UPDATE that
assigns the primary key, the property is false (section 3), so its absence is a
hypothesis, with `OneTable`. The third is that no crash follows a statement that raised
after superseding rows (`MaxCrashes = 0` or `"supersede" \notin Midway`): the log does
not have that deletion, so recovery brings the row back, next to one that was inserted
with its key meanwhile (`MvccMidway.cfg`).

Recovery is where memory and log may disagree without `Checked`: a version whose
INSERT raised afterwards is in memory and not in the log, and REPLACE may have two queued
transactions delete the same version. `ReplayInv` says what is left: every insert in
the log, or among a writer's ops, has its version in memory (`InsOk`); a published
deletion is the last one that the log has for that version, and a pending one is that
of the last transaction, in the order of the log, the batch, the queue and the lane, to
delete it (`DelOk`, `Behind`); a savepoint keeps the ids of the inserts before it and
no deletion after it (`MarksOk`); and the log above the mark is the batch (`OpsInv`).
Then every version that recovery restores was in memory with the same key, its stamps
are those it had or those its transaction has in the batch (`Rebuilds`), and what was
`Apart` before the crash is so after it.

**Controller.** `ControllerInv` is `TypeOK`, `PhaseSound` and `Counted` (permits and
leases are the cardinalities of sets of callers), with `WarmerAlone`: as long as
nobody stopped the controller there is one warmer, its phase is Warming, and
nothing is open under a Cold or Warming phase.

**WireSession.** `SessionInv` is `TypeOK` and `ExactlyOnce` (for each portal what
ran, what the client was told, and what a Describe ran ahead), with: a transaction
one of whose statements failed is marked as failed, and after an error the session
is skipping. Most of the proof is what each kind of statement does to the
connection. `DiscardsUntilSync` has the hypothesis `~Eager`: the
client sends no simple query before its Sync, since the server then answers it
(`WireEager.cfg`).

**InductionLemmas.** The prover cannot instantiate the library's induction theorems
with an operator parameter, so induction is stated with sets (a set of naturals
that contains 0 and is closed under successor is `Nat`), and with it: least and
greatest members, `Max` and `Min` of bounded sets, and the unfolding of functions
defined by iteration.

Only model-checked, and why:

* liveness (`PipelineProgress`, `StartReturns`): fairness is beyond
  the prover;
* Catalog: its folds take LAMBDAs, through the record codec and replay; the prover
  cannot unfold what such a fold computes;
* VectorIndex, SqlExec, SqlParser: they are built on RECURSIVE operators over graphs,
  expressions and sentences, and their properties say what those compute; the prover
  has no induction over such data.

## 5. What is not modelled

* The ObjectStore bindings (memory, file system, cloud): their contract is
  assumed, with the order of `list`. The clock in a lease is advisory in the code
  and is left out.
* Branch objects of the object store: `delete_branch` removes the pointer and then
  the overlay, and ids are recomputed as the greatest pointer plus one at open, so
  a crash in between leaves an overlay that a later branch adopts
  (`mod.rs:934`); a second handle's stale `next_branch_id` makes its `create_branch`
  fail until it is opened again.
* Dates, JSON, most scalar functions, string escapes and comments: functions over
  text without a smaller reference definition.
* In VectorIndex: NULL vectors (the index path omits them, the scan sorts them),
  recall and over-fetch beyond the instance, ROLLBACK TO.
* Byte framing of the wire protocol, introspection answers, capabilities and
  metrics: stateless formatting. `rewrite_placeholders` and `split_statements` work
  on text and are left out.
* The C ABI, the clients (thin wrappers), the CLI (file and process I/O), the
  benchmarks (not part of the system).
* Statistics counters; a panic inside a critical section (poisoned locks).

## 6. Plan

The refinement by which MvccStore's pipeline stands for GroupCommit's: one append and
one publication per batch for the leader's four steps, and a crash that also recovers
what a failed append left.

## 7. Running it

    tlc -config GroupCommit.cfg MCGroupCommit
    tlapm GroupCommitProofs.tla

and likewise for the other proof modules (`InductionLemmas`, `ObjectLogProofs`,
`PageStoreProofs`, `LocalFileProofs`, `MvccStoreProofs`, `ControllerProofs`,
`WireSessionProofs`) and the other configurations: `Mvcc*.cfg` with `MCMvccStore`,
`ObjectLog*.cfg` with `MCObjectLog`, `Controller.cfg` and `ControllerFenced.cfg` with
`MCController`, `PageStore*.cfg` with `MCPageStore`, `LocalFile.cfg` with `Branch`,
`LocalFileOpen.cfg` with `LocalFile`, `Sql{Parser,Capture}.cfg` with `SqlParser`,
`SqlExec.cfg` and `SqlPaths.cfg` with `MCSqlExec`, `Catalog*.cfg` with `MCCatalog`, `Vector*.cfg` with
`MCVectorIndex`, `Wire*.cfg` with `WireSession`.
