# A TLA+ verification of adbcbridge

adbcbridge is an ADBC driver in C that runs on top of any ODBC driver, with a
second driver for QuestDB beside it. This directory holds TLA+ models of both,
the TLC configurations that check them on small instances, and TLAPS proofs of
what matters most for every instance. `PROJECT.json` maps every definition to
the lines it models and lists the runs, the mutants that show each property can
fail, and the hazards.

Paths below are relative to the repository; `reader`, `bind`, `driver`,
`partition`, `delegate`, `objects` and `text` stand for `src/src/odbc_reader.c`,
`odbc_bind.c` and so on, and `qwp` for `src/questdb/src/qwp_driver.c`.

## 1. Inventory

| Component | State it keeps | Operations | Hard behaviour | What makes it correct |
|---|---|---|---|---|
| Result-set reader, prefetch (`reader`) | ring of rowset slots, head/tail/filled, done/failed/stop flags, the cursor, the batch under construction | `get_next`, `release`; the fetch thread | two threads on one handle and one ring; hand-back of a truncated rowset; early release; errors at the right row | one owner of handle and slots; rows once, in order, whole; every call returns |
| Row ingest (`bind`, `ExecuteRows`) | the automatic transaction, the state of three batching forms, rows to retry | one batch of the bound stream at a time | partial success, replay of a refused batch by another form, servers that abort a transaction on any error | no row lost or inserted twice; a failure is rolled back |
| Parallel ingest (`bind`, `IngestParallel`) | bounded queue, shared buffers of a batch, per-worker connection and transaction | the pump; N workers | many consumers, first failure trips the queue, buffers released on any thread | every slice once; the right error; no leak and no early free; the call returns |
| Statements and handles (`driver`, `bind`, `odbc_internal.h`) | reference-counted handles, prepared flag, rollback epoch, result streams | every `AdbcStatement*` call, rollback, stream calls | any sequence of calls, streams outliving statements, rollback under an open cursor | counts are exact; streams keep their results; stale handles are replaced |
| Partitioned reads (`partition`) | a list of slices | `ExecutePartitions`, `ReadPartition` | fixed-width arithmetic over any extent; the table changes between plan and read | each row in exactly one slice |
| Connections, options, quirks (`driver`) | option values of database and connection, which of them were set before init, autocommit, what was concluded about the driver | New/Init/Release, Get/SetOption, Commit, Rollback | options set before the connection exists, refused calls, a lost session, transactions the caller's SQL began | the options set are in force; every row has the fate the caller was told; no session is left |
| Delegation (`delegate`, `driver`) | held options, the delegation mode, the native driver, database, connection and statement | Set options, `AdbcDatabaseInit`, `AdbcConnectionInit`, the releases, forwarding | a hand-over that fails at any of its steps and falls back to ODBC; options whose meaning is known only after the decision | one server, the one the mode allows; no accepted option is dropped; nothing of the native driver leaks |
| Catalog metadata (`objects`, `driver`) | none across calls | GetObjects, GetTableSchema, GetTableTypes | drivers that ignore filters, leave listings empty or return them unsorted or twice; names taken as patterns | each object that matches once, under its own name |
| Columns (`reader`, `bind`) | the bind plan of a result set | classify, size and bind a column; the type of a new column | widths that are capped, given up or adapted; types a driver lacks | nothing clipped in silence; what is created reads back |
| Parameters (`bind`) | the staging buffers of a batch | bind one value, stage an array | planned widths and integer kinds, dictionaries, nulls, calendar arithmetic | the value arrives |
| Text (`text`, `reader`, `bind`) | none | UTF-8 to and from SQLWCHAR; diagnostics | units of 2 or 4 bytes, buffers that are too short, decoding in place | characters survive |
| Connection targets (`delegate`) | none | read connection strings, DSNs and URIs, translate each into the other | quoting, precedence of several sources | the same target, nothing else |
| QuestDB driver (`qwp`) | statement, binding, counted cancellation cell, runs, borrowed readers | Execute, streams, Cancel, bulk ingest, catalog calls | cancel from another thread, streams that outlive the statement, frames in doubt, waiting for the write-ahead log, other clients | readers and cells come back; rows run once in order; an ingest is complete and sent once; calls return |
| Helpers (`utils.c`), threads (`odbc_threads.h`), option names (`options.h`) | none | wrappers | none | |
| Language packages (`src/python`, `src/rust`, ...) | none | locate and load the library | none | packaging |

How they interact: `AdbcStatementExecuteQuery` (Statements) either executes and
wraps the handle in a reader (Reader), or runs the bound stream through
`ExecuteRows` (Row ingest), or, for a bulk ingest with several connections,
starts `IngestParallel`, whose workers each run `ExecuteRows` on a connection of
their own. `ExecutePartitions` produces queries that `ReadPartition` later runs
on any connection and wraps in a reader. A reader holds a counted reference to
its handle; `EnsureHandle` looks at that count and at the connection's rollback
epoch before it reuses a handle. `AdbcDatabaseInit` decides (Delegation) whether
any of this runs: a delegated database's calls go to a native ADBC driver.
A connection's quirks, found while it connects, steer the reader, the parameters
and the catalog calls. The QuestDB driver is separate and shares only the ADBC
interface.

The hazards these interactions create are listed in `PROJECT.json`, each at its
line and with the property that would catch it.

## 2. Modules

| Module | Models | Relation to others |
|---|---|---|
| `RowStream` | what an Arrow stream over a result set promises | abstract specification |
| `PrefetchReader` | `PrefetchMain`, `PrefetchNextRowset`, `PrefetchJoin`, `ReaderNextBatch`, `ReaderRelease`, `RepairRowset` | implements `RowStream` |
| `PrefetchReader_proofs` | theorems about `PrefetchReader` | extends it |
| `IngestRows` | `ExecuteRows` with `ArrayIngest*`, `MultiRow*`, `ExecuteBatchArray`, `OdbcAutoTxn*` | the detail of one worker of `ParallelIngest` |
| `IngestRows_proofs` | theorems about `IngestRows` | extends it |
| `ParallelIngest` | `IngestParallel`, `IngestQueue`, `BatchOwner`, `PumpWhole`/`PumpBatch`, `IngestWorkerMain` | |
| `ParallelIngest_proofs` | theorems about `ParallelIngest` | extends it |
| `StatementHandles` | `OdbcStatement*`, `OdbcHandleRef*`, `BoundReader*`, `OdbcConnectionRollback` | |
| `StatementHandles_proofs` | theorems about `StatementHandles` | extends it |
| `PartitionSplit` | `ChooseSplit`, `ResolvePartitionCount`, `SplitBoundary`, `ExecutePartitions`, `ReadPartition` | |
| `PartitionSplit_proofs` | theorems about `PartitionSplit` | extends it |
| `Delegation` | `OdbcDelegateTryInit`, `LoadNativeDriver`, `ProbeNative`, `OdbcDatabaseInit`, `OdbcConnectionInit`, `OdbcProxyConnectionInit`, the setters and the releases | |
| `Delegation_proofs` | theorems about `Delegation` | extends it |
| `Session` | `OdbcDatabase*`, `OdbcConnection*` over ODBC, `OdbcAutoTxn*` | extends `DriverQuirks` |
| `Session_proofs` | theorems about `Session` | extends it |
| `DriverQuirks` | `OdbcDetectQuirks` | operators |
| `QwpDriver` | statements, runs, streams, pool, cancel and ingest of `qwp` | extends `QwpTypes` |
| `QwpDriver_proofs` | theorems about `QwpDriver` | extends it |
| `QwpTypes` | types, bound values, designated timestamp and status codes of `qwp` | operators |
| `Catalog` | `objects`, GetTableSchema and GetTableTypes of `driver`, the catalog calls of `qwp` | operators |
| `TextCodec` | `text`, the encoders of `bind`, the decoder and the diagnostics of `reader` | operators |
| `Temporal` | dates, times, timestamps and decimals of `bind` and `reader` | operators |
| `Params` | `SlotFromArrow*`, `ArrayParamPlan`, `ArrayParamFill` | extends `TextCodec`, `Temporal` |
| `Columns` | `ColumnTypeSql`, `ClassifyColumn`, `DescribeColumns`, `ReaderBind`, `AdaptBindWidth`, `ReaderUnbindFrom`, what `AppendValue` delivers | extends `Temporal` |
| `Targets` | connection strings, DSNs, URIs and their translation in `delegate` | operators |
| `Metadata` | one action per call whose answer is a function of its input | brings the modules of operators together |
| `MC...` | the constants of the runs | extend the module they instantiate |

In a module, an operator whose comment begins with "A slip:" is not part of the
specification: it is a plausible bug in the definition that follows it, used to
show that a property notices it.

### PrefetchReader

The result set is a sequence of rows, each `ok`, `wide` (a value that outgrows
its buffer), `bad` (its conversion fails) or `hole` (a rowset entry without a
row), and may end in a failing fetch. `cursor` is what `SQLFetch` has passed;
`slot`, `head`, `tail`, `filled` and the three flags are the fields of
`OdbcReader`; `ppc` and `cpc` are where the fetch thread and the caller are in
their functions. A critical section under `r->mu` never blocks and is one step.
`OdbcCondWait` is a state of its own that only the other thread's broadcast
ends, so a missing broadcast is a visible deadlock. An ODBC call and the
conversion of a slot last from the step that enters the state to the step that
leaves it, so the other thread's steps fall in between.

`HandBack` is the whole of the repair path in `PrefetchNextRowset`: rebind,
`SQLFetchScroll` by absolute row number, re-read. `SyncFetch` is the synchronous
body of `ReaderNextBatch`, reached after a hand-back or when no thread could be
created. `Bind` covers `ReaderBind`, which may fail.

`RowStream` says it without threads: a batch of consecutive rows that no failure
precedes, or the error of the result set, or the end. `ImplementsRowStream` is
`RowStream!Spec` with `rs`, `out` and `phase` for its variables.

### IngestRows

A stream is a sequence of batch lengths; `bad` is the set of rows the server
refuses. The server is a record of what `ExecuteRows` finds out or is told: does
it have transactions, does an error abort one, does it take array literals, how
large a multi-row INSERT does it take, and how does its driver treat a parameter
array (refuse the attribute; reject an array with a bad row as a whole; stop at
it; report set by set; process fewer sets than it was given; say nothing). `table`
and `pending` count how often a row is in the table and in the open transaction.
`pc` follows `ExecuteRows` down a batch: array literals (`unnest`), multi-row
(`multirow`, `group`), parameter arrays (`arrays`, `chunk`), multi-row again
(`rest`, `restGroup`), row at a time and retries (`rows`). Here a commit or rollback
that the driver refuses ends the transaction without its rows (`EndTxn`); a driver
that keeps it is modelled in `Session` and `ParallelIngest`.

### ParallelIngest

`queue`, `qdone` and `qfailed` are `IngestQueue`; `refs` is `BatchOwner.refs`,
with a batch that is queued whole counted as one; `ppc` is the calling thread and
`wpc[w]` worker `w`. A worker's `ExecuteRows` is one `Execute` step per slice that
succeeds or fails, then `Commit` or `Rollback`; the detail is in `IngestRows`.
`txn[w]` is `OdbcAutoTxn.active`: from its second row on a worker asks for a
transaction, and a driver without transactions, or one that refuses to leave
autocommit, gives none, so that its rows are committed as they come, also those of a
slice that then fails. A refused commit or rollback discards the transaction or
keeps it, and then the return to autocommit commits it. `refused[w]` remembers that a
worker's driver did any of this. The signal on `not_empty` wakes any one waiting
worker; a failure wakes everyone.

### StatementHandles

One connection. A handle has a count, the query prepared on it, the stream whose
cursor is open on it, and whether a rollback has spoiled it. A statement has the
fields of `OdbcStatement` that decide what a call does. Each ADBC call is one
step: ADBC has its caller serialise the calls on one connection. The exception
is the fetch thread of a stream, which runs between `StartFetch` and `FetchEnds`
while other calls are made. An operator such as `EnsureHandle` maps a call in
progress to the set of its possible continuations, failures included.

### PartitionSplit

`int64_t` is an integer of `2 * Half` values; `Span` and `SplitBoundary` wrap
exactly where the C code wraps. One row is followed; its key is any value of the
type, inside the extent the server reported or not, or NULL if the slices are cut
by a key column that allows it (a `ctid` or a hash code is never NULL).

### Delegation

`db` and `conn` are the fields of `OdbcDatabase`, `OdbcDelegateOptions` and
`OdbcConnection` that decide anything; `native` counts what the native driver
holds open; `given` and `asked` are the options the native driver was given and
those the application's calls accepted. `pc` follows `OdbcDelegateTryInit`:
detect a family, load a driver (`load`), create the native database (`new`), set
its options (`options`), probe a translated PostgreSQL target (`probe`), hand
over (`handOver`); or reject (`reject`) and give up, which is an error with
"always", an error for a URI only a native driver understands, and ODBC (`env`)
otherwise. `replay` is `OdbcProxyConnectionInit` setting the held options one by
one. Every native call may fail. What detecting a family reads from DSN files,
connection strings and environment is a choice over what it may come to.

An application initialises a database and a connection once and releases in
order. Of the native driver it is assumed, as the code does, that a call of it
that fails leaves nothing open beyond what `private_data` shows.

### Session and DriverQuirks

`db` and `conn` are the fields of `OdbcDatabase` and `OdbcConnection` that decide
anything; `srv` is the driver's session: open, lost, its autocommit mode, whether
the caller's own SQL began a transaction, rows pending and committed. Calls are one
step each; the session may be lost between any two of them (`Lose`) and in the
middle of the commit of a bulk ingest (`IngestLost`).

Options of the database and of the connection are set at any time, also after
`AdbcDatabaseInit` and between a connect that failed and the next try. A connect
fails before there is a session, or because the driver refuses to leave autocommit;
then the session stays open in a connection that failed, and the next try forgets
its handle (`leaked`, bounded by `MaxLeaks`). On such a connection the model sets
options, connects again or releases; it does not execute.

A bulk ingest of two rows (`Ingest`, `IngestPlain`) takes the connection out of
autocommit whenever `conn->autocommit` is set and the driver has transactions, also
inside a transaction that the caller's SQL began. Its commit may be refused, with the
transaction rolled back or kept; its rollback may be refused unseen; the return to
autocommit commits what was kept. `RestoreRefused` is whether a driver may also refuse
that unchecked return; the runs have it FALSE. A refused `AdbcConnectionCommit` or
`AdbcConnectionRollback` that keeps the transaction changes nothing and is no step,
and the rollback that release makes is not refused.

`asked`, `seen` and `fate` are ghosts: what the caller set on the connection; what a
connect found set on the database, and which options were set after a connect that
failed half way (`late`); and what the caller was told of each row. A row of the
caller's own transaction that a bulk ingest ended is "swept", and one that a refused
rollback of an ingest left is "kept".

`DriverQuirks` is `OdbcDetectQuirks`: the rules by driver name, DBMS name and server
probes as a set of records (mark, flags set, flags cleared). The code applies them one
after another; a set is enough because no rule sets a flag that another clears (only
the two of `SQLGetData` are cleared, and only the capability probes, which come
first, set them).

### QwpDriver and QwpTypes

One statement, its cancellation cell (`cell.refs` is `QdbCancel.refs`) and the
runs it began; a run takes a step from one look at the cell to the next, so that
`StatementCancel` on another thread falls anywhere. `call` is the call on the
statement: `new` (`QdbRunNew`), `run`, or the stages of `QdbIngest`: `find`,
`drop`, `plan`, `create`, `send`, `wait`, `sleep`. A frame that fails may have
arrived. The pool, the client library and the server are external and modelled
from how the driver calls them: other statements borrow readers, other clients
create the table and write to it, and the server applies what it logged when it
likes. The ghosts of a run are the batches it was bound to (`bound`), the rows it
executed, each with its place in them (`done`), and the server's count (`truth`).

### Metadata and its operators

Conversions, listings and classifications keep no state between calls. Their
modules state as operators what the code computes; each action of `Metadata` is
one call with one input of the instance, and each invariant compares the answer
with one worked out another way (a set comprehension over the objects of the
server instead of nested listings, the meaning of a text instead of its bytes, a
round trip through the two directions of a conversion). Where the code quotes
or encodes, text is a sequence of character codes, units or bytes; elsewhere a
name is a symbol. Limits that would be too large for TLC are constants
(`Int32Max`, `LongValue`, `MaxVarlen`, `TextRoom`, `LongMax`), set so that the
values of the instance lie on both sides of them. The dates lie on both sides of the
year that `SQLSMALLINT` ends with, and dictionaries have null entries and indexes
outside them.

`DescribeResult` is a result set from its description on: the columns are
classified and sized, bound, and then a width may be given up (`AdaptBindWidth`), which
collapses the rowset to one row unless the driver refuses and the bindings stay
(`ReaderUnbindFrom`). `Delivered` is how much of a value of a given length arrives
then (`AppendValue`), and a wide character takes up to `UnitsPerCharacter` units.

## 3. Runs

| Run | Shows | Bounds | States |
|---|---|---|---|
| `prefetch` | `HandleHasOneOwner`, `SlotHasOneOwner`, `ImplementsRowStream`, `CallsReturn` | up to 6 entries, rowsets of 2, a ring of 3 slots, batches of 4 | 591,034 |
| `ingest_rows` | `NoDuplicateRows`, `SuccessMeansAllRows`, `FailureLeavesAtMostALoneRow`, `TxnRestartsOnlyWhenEmpty` | up to 5 rows in up to 2 batches, groups of 4, chunks of 3, every set of refused rows, every kind of honest driver | 8,146,710 |
| `parallel_ingest` | `SuccessMeansAllRows`, `BlameIsNotCollateral`, `EachSliceOnce`, `FailedShareIsRolledBack`, `BuffersLiveWithTheirSlices`, `CallReturns` | 3 workers, with and without transactions, a queue of 2, 2 batches of 1 and 2 slices | 254,109 |
| `handles` | `RefsAreOwners`, `PreparedIsCurrent`, `StreamsKeepTheirResult`, `RollbackIsNoticed` | 1 statement, 2 streams, 3 handles, 1 counted rollback | 402,974 |
| `partition_split` | `RowIsReadOnce` | all extents of a 4-bit integer, all row values, up to 5 partitions asked for | 215,168 |
| `delegation` | `NothingIsLeftOpen`, `NoOptionIsDropped`, `OneServer`, `NativeAnswerStands` | 2 interchangeable native options and autocommit, 2 values, every mode, every outcome of every native call | 2,182,688 |
| `session` | `OptionsInForce`, `RowsKeepTheirFate`, `NoSessionLeft` | 2 drivers (one without transactions), 5 rows or batch sizes 1 (the default) and 2, 1 prefetch value and both lengths of `SQLLEN`, 1 leaked session | 1,047,216 |
| `questdb` | `NothingLeaks`, `RowsRunOnceInOrder`, `CancelStopsRuns`, `IngestIsVisible`, `IngestSendsOnce`, `CreateOwnsTable`, `CallsReturn` | 2 readers, 2 runs alive, 2 calls, bindings of batches of 1, 0 and 1 rows and of one batch of 2, 1 frame of another client, 1 poll in time | 378,308 |
| `metadata` | `ObjectsAreExact`, `TextSurvives`, `ParamsArrive`, `ColumnsReadBack`, `NothingIsClipped`, `QuirksAgree`, `TargetsSurvive` | the inputs `MCMetadata` lists for each of 26 calls | 199,493 |

The type invariants (`TypeOK`) of the concurrent modules hold on the same
instances; they are stated for the reader and for the proofs and are not listed
among the runs' properties, except that `RowIsReadOnce` includes that of
`PartitionSplit`.

Why the bounds are enough to be interesting: six entries are three rowsets and
fill the ring, wrap it, and leave rows after a hand-back for the synchronous
loop, which can reach the repair floor of 2. Groups of 4 halve once before the
form is given up; chunks of 3 leave a remainder of one or two rows. Three
slices exceed the queue, with the pump waiting in the middle of a batch, and all three
workers can fail in different ways. One statement
and two streams are enough for a statement to be used again while two earlier
results are open. Four bits with a cap of 4 keep the inequality
`(PartMax - 1)^2 < Modulus` the code relies on (with 64 bits and its own cap). Two
native options of two values can be set, set again and refused at the first or
the second; they differ in nothing the code looks at, so the run takes them as
symmetric. In `session` one driver tells by its name that its
lengths are 32 bits wide and has transactions, the other tells nothing and has none;
of five rows one can be committed, two can be pending and two in an ingest that ends
their transaction. A connect can fail and be tried again any number of times, one of
them over a session left open. What becomes of rows does not depend on options other
than autocommit, so a behaviour inserts rows or sets other options, not both (the
constraint `RowsOrOptions` of `MCSession`). In `questdb` a stream of an
earlier call can be open, hold the pool's last reader or be cancelled while the
second call runs, and the second call can repeat an ingest that failed with a
frame in doubt. In `metadata` the names and the filters hold the pattern characters
and neighbours of each other under them, a table `a_` beside `ab` among them; some
servers refuse names with a catalog, or with a schema too; the texts have characters of one to four
bytes and lone surrogates, the values lie around each limit and around the epoch.

The remaining runs are expected to fail: each states what a comment or a
document says of the code, and TLC shows an execution of the code in which it
does not hold.

| Run | What it shows |
|---|---|
| `ingest_status_only` | A driver that fills the status array and no processed count: the successful sets are counted as if they were the leading ones (`bind:1262`, against `bind:1080`), and a row is inserted twice. |
| `parallel_run_out` | An allocation failure in the pump is taken for a worker's failure (`bind:3826`); with no failed worker the call returns success without the rest of the stream. |
| `wide_repair` | A clipped value of a bound wide column that `SQLGetData` read again is decoded over itself (`reader:1670`, against `reader:1667`), and characters of three bytes overwrite units not yet read. |

For this reason `IngestRows.cfg` has no status-only driver, `ParallelIngest.cfg` has
`MayRunOut = FALSE`, and `Metadata.cfg` has repaired texts whose UTF-8 is no longer than
their units. `PrefetchReader.cfg` uses drivers that can scroll and result sets that
hold skipped rows or truncated values, not both.

The instances of the passing runs hold further cases in which the code does not do
what a comment says. There the property of the run makes an exception, and the
statement without it is a definition of the module. It is no property of a run: as an
INVARIANT of the cfg that is named it has a counterexample.

| Statement | cfg | What fails, and what the run's property says instead |
|---|---|---|
| `FollowersShareIsRolledBack` | `ParallelIngest` | A worker whose driver has no transactions, or refuses one, says that its share was rolled back (`bind:3616`) while the share is in the table (`bind:1400`). `FailedShareIsRolledBack` is about workers whose driver has refused nothing (`refused`); every other property holds with both. |
| `OptionsOfThisConnect` | `Session` | A length option that a failed connect merged from the database is then taken for the connection's own (`driver:1697`, against `driver:1688`); batch size and prefetch set after a connect that failed at the autocommit mode are overwritten by the next (`driver:1692`). `OptionsInForce` takes of the length what the first connect found set on the database, and excepts the other two in that case. |
| `NoSessionLeaked` | `Session` | A connect tried again after the driver refused to leave autocommit overwrites the handle of the first session (`driver:1702`, against `driver:1716`). `NoSessionLeft` is about the session the connection holds, not those in `leaked`. |
| `CallersTransactionStays` | `Session` | A bulk ingest in autocommit ends the transaction that the caller's SQL began (`bind:1400`, against `bind:1380`). `RowsKeepTheirFate` says nothing of rows "swept" or "kept", nor of those the caller was told are in doubt. |
| `WideValuesAreWhole` | `Metadata` | A wide buffer has one unit per character (`reader:756`, against `reader:768` and `reader:327`): where the driver cannot read a value again, one of characters beyond the BMP is clipped to half. `NothingIsClipped` counts one unit per character there. |
| `LongValuesAreWhole` | `Metadata` | With `long_bind_bytes` below one wide character (`driver:153` takes it) the buffer of a wide column is empty and its room wraps round (`reader:1511`, against `reader:423`): every value arrives empty. `NothingIsClipped` asks for one unit. |
| `ColumnsAreItsOwn` | `Metadata` | `SQLColumns` is given a table's name unescaped (`objects:288`, against `objects:149`): `a_` is listed with the columns of `ab` too. Where the server refuses qualified names, a table is described by its namesake in the current catalog (`objects:199`, against `objects:295`). `ObjectsAreExact` excepts the columns of tables that can be confused so (`Doubles`). |
| `ErrorIsWhole` | `Metadata` | On Windows the second read of a long message that is not plain ASCII is cut (`text:319`, against `text:295`). `TextSurvives` excepts it. |
| `DecimalIsExact` | `Metadata` | A decimal whose text is longer than the slot is bound as its leading digits (`bind:457`, against `src/tests/validation/RESULTS.md:491`). `ParamsArrive` excepts it, and years that `SQLSMALLINT` cannot hold bound as a struct (`bind:223`, `bind:386`, `bind:931`). |

Other places where the models and a comment or document of the repository
disagree, or where a property has an exception. Those that need a particular
sequence of calls or refusals are hazards with a note in `PROJECT.json`.

* the hand-back of the prefetch pipeline scrolls also for a driver that repairs
  in place and cannot scroll (`reader:2292`, `docs/how-it-works/prefetch.md:30`);
* the multi-row probe behind the parameter arrays runs inside the transaction
  (`bind:2620`, against `bind:1646`);
* the rollback of a failed ingest does not bump `rollback_epoch` (`bind:1415`,
  against `odbc_internal.h:747`), so `RollbackIsNoticed` is about
  `AdbcConnectionRollback`;
* a prepared statement is described on its handle while a stream's fetch thread
  may be on it (`driver:2452`, against `docs/how-it-works/prefetch.md:20-22`);
* indicators of texts in a parameter array are 64 bits wide whatever the driver
  reads (`bind:940`; `NarrowTexts`), and the return to autocommit is not checked
  (`bind:1419`; `RestoreRefused`): the constants are FALSE in the passing runs;
* `TargetsSurvive` excepts a socket directory as host, a password without a user,
  and credential options with the signs of a connection string;
* the username option goes before `Uid` in the native URI and is appended after it
  in the ODBC string (`delegate:935`), so who logs in may depend on the delegation;
* `ColumnsReadBack` excepts 64-bit unsigned columns (`bind:3117`); it does not compare
  the lengths of strings and binaries, and no driver of the instance has a DECIMAL
  without CREATE_PARAMS (`bind:3051`);
* `QuirksAgree` excepts a server that fails to answer the probes (`driver:1102`), and a
  client of the instance has the name of one driver;
* `ObjectsAreExact` leaves out a catalog given without a schema, which the server
  reads as a schema (`driver:1934`), and types behind the sixteenth, which
  GetTableTypes may repeat (`driver:1884`); every refusal of a table's SELECT that
  is no connection, login, timeout or cancel error is NOT_FOUND (`driver:1948`);
* `ParamsArrive` excepts nulls of unsigned types over QWP, bound as a narrower
  kind than their values (`qwp:396`); seconds are multiplied to microseconds
  unchecked (`qwp:484`), and the instance's numbers stay below that overflow;
* QuestDB's ExecuteSchema runs the query to learn its schema (`qwp:2272`).

`FailureLeavesAtMostALoneRow` names the one exception the code makes by design:
the transaction opens with the second row, so a first batch of one row is
committed by itself.

Deadlock is checked in the runs of the reader, the two kinds of ingest, the handles,
the partitions and the delegation; the states in which a
component has finished have an explicit stuttering step (`Released`, `Finished`,
`Returned`). In `Delegation` a released database is followed by the next one. In
`session` and `questdb` the application may stop, and in `metadata` a behaviour is
one call, so these allow a last state; `CallsReturn` of `QwpDriver` says that no
call is among what stops.

### Fairness

Safety does not rest on fairness. `CallsReturn` of `PrefetchReader` assumes weak
fairness of the fetch thread and of a call in progress, `CallReturns` weak
fairness of the pump and of each worker, `CallsReturn` of `QwpDriver` weak
fairness of a call on the statement (`BeginRun`, `IngestStep`) and of each run
that is being read (`RunStep`). The code justifies it as far as threads are
scheduled and calls of ODBC or of the client library return; nothing is assumed
of the application, which may stop calling for ever, of a server that applies its
log, nor of any particular outcome of a call.

## 4. Proofs

`PrefetchReader_proofs` proves for every ring size, rowset size, batch size, result set and
driver (`ReaderAssumption`: at least two slots, rowsets of at least two rows):

* `OwnershipInvariance`: `Spec => []OwnershipInv`;
* `HandleOwnership`: `Spec => []HandleHasOneOwner`;
* `SlotOwnership`: `Spec => []SlotHasOneOwner`.

Neither property is inductive. `SlotHasOneOwner` compares the slot being
converted with the tail and needs to know that the first is the head
(`ClaimShape`), that the tail is `filled` slots past the head round the ring
(`RingShape`), and that a thread that has claimed a slot left one free
(`ClaimShape`): with `0 < filled < NSlots` head and tail differ.
`HandleHasOneOwner` needs the correspondence between `prefetching` and the two
program counters (`ThreadShape`). `ControlOK` is the typing both rest on. The
proof has one step per action; the only arithmetic is `ModSucc`, the successor in
a ring.

The same module proves the refinement, for every ring, rowset and batch size and
every result set:

* `StreamInvariance`: `Spec /\ Readable => []StreamInv`;
* `RowStreamImplemented`: `Spec /\ Readable => ImplementsRowStream`.

`Readable` is a condition on the result set and the driver, which never change.
It holds of every driver when no value outgrows its buffer. Otherwise the result
set must come from a driver that can be scrolled back and can read the long
values again, and that skips no row. Outside it the reader may report an error of
its own, a value it cannot read again, or, after a driver that skips rows, scroll to
a row number that is no longer the row's (a hazard, `reader:2292`). The result sets
of `PrefetchReader.cfg` all meet it; there TLC also checks liveness.

`StreamInv` says where every row is. The slots of the ring hold consecutive
rowsets that end at the cursor, and only the last may end the stream or need
repair (`RingHolds`, `HeldShape`); the fetch thread's flags say whether the
cursor is at the end, and which (`ProducerShape`); a call goes for another rowset
only while one fits, and does with it what it needs (`CallShape`); `out` is the
rows up to some entry and `batch` the rows from there up to where the ring
begins, or up to the cursor once the thread is gone, with no failing row among
them (`Delivered`). The refinement alone is not inductive: a step that ends the
stream is right only if nothing is left in the ring, one that hands the handle
back only if the cursor is moved to the first row not yet taken, and neither can
be told from `out`. Steps of the fetch thread leave what the consumer has
unchanged and are stutters; what they must preserve is the ring. Each step of the
caller has a lemma that shows it a stutter or a step `Deliver`, `End`, `Fail` or
`Refuse` of `RowStream`. The lemmas on sequences (`RowsInJoin`: the rows of two
neighbouring ranges are those of the whole) need no induction, since the rows of a range
are defined by their rank (`Nth`) and not by recursion.

Which values can outgrow a buffer is decided when the columns are described, and

* `BuffersHoldOrReread`

proves of every described result set, for every number, type and size of columns,
every flag, every width of a wide character and every number of rows per fetch, what
`NothingIsClipped` checks of the columns `MCMetadata` lists. A value of any length
its description admits arrives whole. Where the driver can read a value again a
character may take any number of units, so the theorem covers what the buffer was not
sized for; where it cannot, a character is one unit. That restriction is the
code's gap and not the proof's: `WideValuesAreWhole` fails without it,
and `LongValuesAreWhole` without a unit's room in `long_bind_bytes` (`UnitFits`). It
says the same of the bindings left after a width is given up, whether or not the
driver agreed to one row, and that no column is bound after an unbound one. `IsSized`
types the options. `SoundlyBound` states of a binding that its buffer holds what
the description admits or that it is marked as clipped, `SoundlyBoundArrives` and
`UnboundArrives` that a value then arrives, and `NothingClipped` says so of a whole row
of columns, for the first bindings and for those kept after a width is given up; the
rest goes by the groups of types that are sized alike.

`Delegation_proofs` proves for every finite set of native-driver options
(`DelegationAssumption`):

* `HandOverInvariance`: `Spec => []HandOverInv`;
* `OneServerAlways`: `Spec => []OneServer`;
* `NativeAnswerAlwaysStands`: `Spec => []NativeAnswerStands`;
* `NothingIsEverLeftOpen`: `Spec => []NothingIsLeftOpen`;
* `NoOptionIsEverDropped`: `Spec => []NoOptionIsDropped`.

`OneServer` speaks of an initialised database only, so it says nothing about the
steps that lead there. `HandOverInv` adds `Decision` (until the decision the
database has neither environment nor proxy, "never" does not reach the
hand-over, "always" does not reach `env`) and `Opened` (how much of the native
driver is open at each `pc`, and that a proxied connection belongs to an
initialised database). `GiveUpKeeps` is the common end of all the ways out: the
state after them is good if nothing of the native driver is left. The steps on a
connection share `ConnectionKeeps`: they leave the database alone, and only what
they open and close is left to show.

`NoOptionIsDropped` compares what was asked with what was given when everything
is over. In between the options are in a list that a replay walks through, and
`OptionsInv` says what the list knows: `Agree`, it holds the last value of each
option that was asked for and no other; `Replayed`, the replay has given exactly
the options before `next`. A list with one entry per option is what makes the
end of the replay the function that was asked for.

`IngestRows_proofs` proves for every stream, set of refused rows, server, group and
chunk size (`IngestAssumption`: groups of at least one row, chunks of at least
two, batches of at least one row, and row numbers that fit `MaxRows`), and for
drivers that account for what they applied (`Accountable`; the other kind is the
finding of `ingest_status_only`):

* `IngestAlways`: `Spec => []IngestInv`;
* `NoDuplicateRowsAlways`, `SuccessMeansAllRowsAlways`,
  `FailureLeavesAtMostALoneRowAlways`: the three invariants of the run;
* `TxnRestartsOnlyWhenEmptyAlways`: `Spec => TxnRestartsOnlyWhenEmpty`.

The heart of `IngestInv` is `RowsIn`: while nothing has failed, the rows in the
table or the transaction are those up to the current one without those to retry,
and `total` counts them. A refused form may throw the transaction away and replay
its batch; that loses nothing because of `AppliedIsKnown` (`applied` is FALSE only
while nothing is in) and duplicates nothing because what a form leaves behind is
again `RowsIn`. `Placed` ties the batch to the stream, and `Committed` says what
can be in the table outside a transaction, for the rollback at the end.

`ParallelIngest_proofs` proves for every number of workers, capacity of the queue and
stream of batches (`ParallelAssumption`):

* `TypeAlways`: `Spec => [](TypeOK /\ Places)`;
* `EachSliceOnceAlways`, `FailedShareIsRolledBackAlways`,
  `BlameIsNotCollateralAlways`, `BuffersLiveWithTheirSlicesAlways`: the invariants
  of the run;
* `SuccessMeansAllRowsAlways`, if no allocation fails in the pump (`~MayRunOut`;
  the run `parallel_run_out` is the counterexample otherwise).

`Places` connects a worker's program counter with what it holds and the pump's
with what has been started. `EachSliceOnce` needs `OnlySent`: a slice that is
anywhere lies before the pump's position, so the one pushed next is new. That
the error reported is the first one needs `FirstFailure`: a worker follows only a
queue that has tripped, and behind that is a worker that failed by itself.
`SuccessMeansAllRows` needs `NothingLost`: while nobody has failed, all that was
pushed is queued or with a worker, and a worker stops in good order only when the
queue is empty and done. For the counts of the buffers each step moves one slice
between two of the sets that are counted. `FailedShareIsRolledBackAlways` covers drivers
with and without transactions in one specification. It needs `LoneCommits`: until it
commits, a worker whose driver refused nothing has at most a lone row in the table. That the
condition cannot be dropped is what `FollowersShareIsRolledBack` shows.

`StatementHandles_proofs` proves for every finite number of statements, streams and
handles and any number of rollbacks (`HandlesAssumption`):

* `HandlesAlways`: `Spec => []HandlesInv`;
* `RefsAreOwnersAlways`, `PreparedIsCurrentAlways`, `StreamsKeepTheirResultAlways`,
  `RollbackIsNoticedAlways`: the four invariants of the run.

The four properties are proved together: that a stream keeps its cursor rests on
`EnsureHandle` leaving alone a handle with another reference, which rests on the
counts. `HandlesInv` states them of any triple of statements, handles and streams
(`Sound`), so that each operator a call is made of (`EnsureHandle`, `DoPrepare`,
...) has one lemma: from a sound triple to sound ones. It adds that a handle has at
most one owner of each kind (`Apart`, which turns the count into the sum `Uses`)
and that a statement's epoch never runs ahead of the connection's (`Known`).

`Session_proofs` proves for every set of drivers, option values and number of rows:

* `SessionAlways`: `Spec => []SessionInv`, and from it `NoSessionLeftAlways` and
  `OptionsAsAskedAlways` (every option but autocommit);
* `RowsAlways`: `Spec => []RowsInv`, and from it `OptionsInForceAlways` and
  `RowsKeepTheirFateAlways`, if the driver never refuses the unchecked return to
  autocommit (`~RestoreRefused`; a hazard of its own);
* `QuirksConsistentAlways`: what a connected session takes its driver for is
  consistent, for every driver whose name is that of one driver (`OneDriver`),
  whatever it can do, whichever probes fail and whatever the platform.

Options are set at any time and connects are tried again in both theorems; ingests run
inside and outside the caller's own transaction. `OptionsWait` says where an option is
before there is a connection to have it, and which of the database's values a
failed connect has left in the connection's field; `OpenRows` that the rows told to be
open are exactly those of the session's transaction, without which a commit, or an
ingest that ends it, would not account for them. The last theorem rests on
`FlagsDetected` (only the connect sets the flags) and on what the rules may set and
clear: `RuleFacts` for those of the name, `AskedFacts` and `GenuineFacts` for those
that ask the server; `FlagOrigin` traces a flag back to one of them.

`PartitionSplit_proofs` proves for every width of the integers, every cap on the
number of partitions with `(PartMax - 1)^2 < Modulus` (`PartitionAssumption`; true
of the code's 64 bits and its `ODBC_PARTITION_MAX`), every table and every row:

* `SplitAlways`: `Spec => []SplitInv`;
* `RowIsReadOnceAlways`: `Spec => []RowIsReadOnce`.

The assumption is what keeps `(span % n) * k` from wrapping; then `SplitBoundary` is
`lo` plus an offset into the extent, also when the extent is wider than the
signed type (`BoundaryFacts`: the two wraps cancel), and the offsets
strictly increase. From that one slice, and one only, has the row
(`OneSliceHasRow`), the first and the last being open so that rows outside the
extent have one too. `HitsTellRead` connects this with the count of the reads made
so far, whatever their order.

`QwpDriver_proofs` proves for every number of readers, runs, calls, frames and polls,
and every set of bindings and error codes (`QwpAssumption`: finite pools and names,
and rows named by numbers, so that no two batches of a binding share one):

* `QwpAlways`: `Spec => []QwpInv`, and from it `NothingLeaksAlways`,
  `CancelStopsRunsAlways`, `CreateOwnsTableAlways` and `IngestSendsOnceAlways`;
* `IngestAlways`: `Spec => []IngestInv`, and with it `IngestIsVisibleAlways`;
* `RowsAlways`: `Spec => []RowsInv`, and from it `RowsRunOnceInOrderAlways`.

`QwpInv` says who has each reader that is lent (`ReadersHeld`; two runs never share
one, which is what makes giving one back harmless to the other) and what the cell
counts (`CellCounted`). `CancelSeen` says that a run which has begun an execution
since it was cancelled is past the point where it could begin another.
`MakesItsTable` carries the look at the table over to the sends, and
`BoundIsUnsent` separates what is still bound from what any frame holds: a frame
in doubt was taken from the binding first, so repeating the call cannot send it
again. `IngestInv` adds the converse: what the call found bound and is not bound
any more has arrived (`BoundOrArrived`), in frames that bear the call's number and
the binding's (`FramesOfCall`); with `IngestSendsOnce` that makes exactly one.

`RowsInv` says of a run that is still read which places of the binding it has passed
and that those, and only those, have run (`Ahead`), and that its totals are the
server's but for the cursor that is open (`Counted`). The work is in
`QdbRunNextBindRow`: `NextRow` shows that the place it comes to is the one before
which lie exactly the places passed, over any number of empty batches, and that
when it finds none every place has been passed; `OneMoreRow` that executing there
keeps the order. The run that the end of a call reports is then complete.

Only model-checked: liveness (out of the prover's reach), and the invariants of
`Metadata`: `Catalog` has RECURSIVE operators for pattern matching, and the answers
are computed by recursion over data. Of two of them the part that matters is
proved of the operators they are about (`BuffersHoldOrReread`,
`QuirksConsistentAlways`).

## 5. Not modelled

* Spelling of SQL text, of error messages and of the client library's
  configuration text: wording. Where quoting or encoding decides what arrives,
  it is modelled (`Targets`, `TextCodec`, `Spelled` of `Catalog`).
* `SQL_PARAM_DIAG_UNAVAILABLE`: a driver that hides the outcome of a set.
* The cache of the multi-row verdict across ingests on one connection.
* `AdbcStatementCancel` over ODBC, which is one `SQLCancel`; GetInfo and the
  statistics calls, which keep no state; the forwarding of a call to a native
  driver beyond options and the opening and closing of objects.
* Where a native driver's library is searched for: abstracted to what is found.
* Helper code (`utils.c`), threading wrappers, option names, language packages;
  `src/rust/csrc` is a copy of `src/src` and `src/include`, and `adbc.h` is the
  interface of the ADBC project.

## 6. Plan

1. Done: the order was that of the damage a mistake would do: reader, ingest,
   parallel ingest, handles, partitions, delegation; then the QuestDB driver,
   sessions, and the conversions and catalog calls.
2. Proofs. Done: every safety property of `PrefetchReader`, its refinement of
   `RowStream` included, and of `IngestRows`, `ParallelIngest`, `StatementHandles`,
   `PartitionSplit`, `Delegation`, `Session` and `QwpDriver`.
3. Composition: `ParallelIngest` with a worker whose share is the outcome of
   `IngestRows`; an abstract "ingest" specification (all rows, or an error and
   none of a worker's share) that both implement.
4. Later modules: the connection's multi-row cache over several ingests; hidden
   outcomes of parameter sets.
