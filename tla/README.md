# Specifications of duckpond

duckpond (module `icebase`, directory `src/`) serves SQL over HTTP.  A table is
a set of parquet objects in a bucket and one log object that lists them in
Delta Lake format.  A server has no state of its own that must survive; what it
keeps in memory is a cache of the log.  README.md:12 of the repository promises
"Log is transactional via S3 conditional writes": these specifications say what
that promise amounts to, check it, and prove the part of it that holds.

Paths below are relative to the repository; the Go sources are in its own
directory `src/`.

## 1. Components of the system

| component | source | state | operations |
|---|---|---|---|
| Delta log | `*.sql`, `log.go` | rows of `log_json`: metaData, add, remove | list live / all / expired files, add a file, merge, add metadata |
| Log | `log.go` | `logDB` (in-memory LOG database), variable `log_json_etag` | `Insert`, `Merge`, `logDDL`, `Destroy`, `CreateViewOfParquet`, `CreateTempTable`, import and export |
| Statement handling | `duckpond.go` | `dataDB`, map `logs`, one DATA transaction per statement | `handleQuery`, `ExecuteQuery`, `Destroy`, `Close` |
| S3 storage | `storage.go` | objects and their ETags (MD5 of the content) | `Read`, `Write` with If-Match, `Delete`, `Stat`, `List` |
| File-system storage | `storage.go` | files | the same; the condition of `Write` is checked before the file is truncated and written |
| Query splitting, parser | `duckpond.go`, `parse.go` | none | `SplitNonEmptyQueries`, `Parse` |
| HTTP handler | `duckpond.go`, `main.go` | bearer token | authentication, body, answer |
| DuckDB set-up | `duckdb.go` | process-wide DuckDB options | `InitializeDuckDB`, `ResetMemoryDB` |
| UUIDv7 macro, column statistics | `duckdb-uuidv7/*.sql`, `delta_stats.sql` | none | pure SQL functions |

How they interact: one HTTP request is one call of `handleQuery`, which runs
each statement in a DATA transaction that is always rolled back.  The statement
first asks the `Log` of its table for something to put under the table's name
in that transaction (a view over `delta_scan`, or an empty temporary table),
then runs, and then, for CREATE, INSERT and VACUUM, goes through
`withPersistedLog`: import the log object into the LOG database, change rows,
write all rows back with If-Match on the ETag of the import.  Parquet objects
are written by DuckDB's COPY before the log names them.  Servers share nothing
but the bucket.

What is hard:

* requests of several servers interleave between any two accesses to the bucket
  (import, bind of `delta_scan`, COPY, Export, deletes);
* the LOG database is opened once and refreshed only by writes, so reads, DROP
  and the preparation of a write work on an old log;
* an export that fails leaves its rows in the LOG database;
* an answer of PutObject may be lost, a server may stop between two steps, a
  delete may fail and is then skipped;
* `Destroy` deletes the files of a table (log.go:503) before its log
  (log.go:526): in between the table exists and its rows are gone;
* VACUUM is two statements in one (delete expired tombstoned files, or merge),
  and its purge races readers of older versions;
* inside one process, concurrent requests share a `Log`, its LOG database and the
  connections of that without a lock; an import empties `log_json` before it
  fills it, and `log_json_etag` belongs to one connection;
* a file is not replaced at one instant;
* a body of several statements is cut up and classified by string operations
  that must agree with DuckDB's parser, and stops at the first failure.

What makes each component correct:

* Delta log: each file is live, tombstoned or unknown; rows are only appended.
* Log: an acknowledged INSERT is durable; versions of the log form a chain;
  VACUUM preserves the rows; a purge deletes only what a committed tombstone of
  age TTL names; DROP leaves nothing behind.
* Statement handling: every statement but DROP takes effect at one instant or not
  at all; a DROP that stops half-way leaves a table that the next one removes;
  SELECT sees what was acknowledged before it; every request ends.
* Storage: a conditional write is one atomic step.
* Concurrent handlers: at most one rewrites `log_json`; together they behave as
  one table.
* Splitting, parsing, answers: the code reads a body as DuckDB does, and the
  status says how many of its statements took effect.

## 2. Modules

| module | what it is |
|---|---|
| `DeltaLog` | pure operators: the SQL statements on `log_json`, the order `Extends` on logs |
| `Duckpond` | the core: servers, LOG databases, bucket, failures, restarts |
| `Table` | the abstract table clients are promised |
| `Handlers` | one process: concurrent handlers, the shared DATA and LOG databases, connections |
| `ObjectStore` | the abstract object with conditional writes that the Log needs |
| `FsStorage` | the log object as one file, by system call; implements `ObjectStore` |
| `Statements` | pure operators on texts: splitting, parsing, and DuckDB's reading of the same text |
| `Server` | one server from the HTTP request to its answer: checks, endpoints, batches |
| `MCDuckpond`, `MCHandlers`, `MCFsStorage`, `MCServer` | instances for TLC: sets of statements and texts, symmetry |
| `DeltaLogProofs` | lemmas on logs: `Extends` is a partial order, what each statement on `log_json` does to the files |
| `DuckpondProofs` | types of `Duckpond` |
| `SharedTableProofs` | servers sharing a table that exists: the versions of its log |
| `SharedRowsProofs` | the same servers: durability, refinement of `Table`, reads, rows in one file, deleted objects, merges, schemas |
| `OneServerProofs` | one server and every statement: refinement of `Table`, DROP, reads, schemas |
| `HandlersProofs` | types of `Handlers`; one writer, durability, refinement of `Table` |
| `FsStorageProofs` | types of `FsStorage`; no lost update, refinement of `ObjectStore` |
| `ServerProofs` | types of `Server`; what splitter, parser and handler make of a text of any length |

### DeltaLog

A log is a record of the sequence of metaData rows, the set of added paths and
the set of tombstones (path and deletion time).  The protocol row, sizes,
statistics and JSON text are left out.  Paths are uuidv7 values and metaData ids
are UUIDs, so no value is used twice.

### Duckpond

| variable | code |
|---|---|
| `objLog` | the object `_delta_log/00000000000000000000.json` |
| `stored`, `content` | the parquet objects, and what was written to each; `content` keeps deleted objects, it is what readers of old versions would need |
| `logDB[s]` | `Log.logDB`: rows of `log_json`, and `log_json_etag` |
| `req[s]` | local variables of `handleQuery` and below: the statement, what the DATA transaction holds under the table's name (`tmp`), the new file, files left to delete, the log version `delta_scan` bound |
| `acked`, `minted` | history: rows reported inserted and not destroyed by a DROP since, incarnations used |
| `clock` | `CURRENT_TIMESTAMP`, in units of TTL_SECONDS |

The ETag is the MD5 of the object; the model uses the content for it.  A row is
named by the file its INSERT created.  Values and columns are left out, except
for the incarnation of the table whose schema a file was written with.

| action | code |
|---|---|
| `BeginCreate`, `BeginInsert`, `BeginRead`, `BeginDrop` | `handleQuery` up to the first access to the bucket after `getLogDBAfterImport`: choice of view or temporary table, `Destroy`'s list of files |
| `CreateView`, `BindView`, `Respond` | `CreateViewOfParquet`; expansion of the view when the SELECT or the COPY runs; the answer |
| `LogDDL`, `InsertImport`, `MergeImport` | `importPersistedLog` and what `logDDL`, `Insert`, `Merge` do before their next access |
| `Copy`, `CopyFails` | `CopyToLoggedPaquet` and the row recorded after it; its error returns, with and without the object left behind |
| `Export`, `ExportAnswerLost`, `ExportFails` | `Export`; the write took effect but an error was returned; 412 or another failure |
| `PurgeFile` | the loop over tombstoned files of `Merge`, one object per step, in any order |
| `DropFile`, `DeleteLog` | `Destroy`: the loop over the files, one object per step; the log |
| `Crash`, `Tick`, `Rest` | restart of a server, time, no request under way |

A server handles one request at a time.  Each access to the bucket is a step.

### Table

`Table` has `exists`, `schema`, `rows`, `acked`, and for the DROP TABLE that is not
one instant `dropping` and `torn`.  `Duckpond` maps them to the bucket: the table
exists when there is a log object, its schema is that of the first metaData row,
its rows are those of the files the log lists as live, and it is torn, without
rows, when one of these files is not in the bucket: a SELECT fails then.

| action | what clients see |
|---|---|
| `Create` | a CREATE TABLE takes effect |
| `CreateLate` | a CREATE TABLE that was answered with an error takes effect with a later INSERT |
| `Insert` | an INSERT takes effect, acknowledged or not |
| `Dropping` | a DROP TABLE begins, or ends without having removed the table |
| `Tear` | a DROP TABLE under way destroys rows: only then may rows leave a table that exists |
| `InsertTorn` | an INSERT into a torn table is acknowledged, and cannot be read |
| `Drop` | a DROP TABLE ends; the table is gone |

VACUUM and SELECT are no actions, and no failure or restart is one: all of
these leave the table as it is.  A DROP TABLE that fails or loses its server
after its first delete has taken `Tear` and leaves `torn`; nothing but the next DROP
TABLE ends that.  A CREATE OR REPLACE TABLE of a table that exists is answered with
success and changes nothing (its metaData row is the second, and the code reads the
first); `Table` says so, and it is a stutter.

`CreateLate` is what a failed CREATE TABLE leads to.  Its metaData row stays in
the LOG database (log.go:190), and so do the add rows of INSERTs that fail after
it; the next export that succeeds writes them all, so the table comes into
existence together with those INSERTs, of which only the last was acknowledged.

### Handlers

One process on an existing table.  `Duckpond` takes a handler from one access of
the bucket to the next in one step; here every SQL statement on the LOG database
is a step, because other handlers of the process see what is between them.

| variable | code |
|---|---|
| `dataDB`, `logDB` | `DuckpondDB.dataDB`, `Log.logDB`: which opened database the field holds |
| `names[d]` | in DATA database `d`, the transaction that created the table's name |
| `dbs[k]` | LOG database `k`: rows of `log_json`, whether the protocol row is there, `log_json_etag` of each connection, the connection released last |
| `req[h]` | local variables of the handler's call of `handleQuery` |
| `objLog`, `stored`, `content`, `acked` | as in `Duckpond` |

| action | code |
|---|---|
| `OpenData`, `UseData` | `DataDB`: the check for nil and the store, the read that returns |
| `NoLogDB`, `OpenLog`, `InitLog` | `getLogDBAfterImport`, `initLogDB`: the handle is published before the set-up; a second look (log.go:72) may find the one of another handler |
| `ListLiveFiles`, `FindMetaData`, `TakeName` | `CreateViewOfParquet`, `CreateTempTable`: the query on `log_json`, then CREATE in the DATA transaction |
| `ReadLog`, `SetVariable`, `DeleteRows`, `LoadRows` | `importPersistedLog`, `Import` |
| `ListExpired`, `PurgeFile`, `Copy`, `Record` | `Insert`, `Merge`, `CopyToLoggedPaquet` |
| `ReadEtag`, `ReadEvents`, `WriteLog`, `WriteFails` | `Export` |

Abstractions: a statement on the LOG database takes the connection released last
when no other request is under way, and any connection otherwise, which includes
every choice `database/sql` can make; the lookup in the map `logs` is atomic;
TTL_SECONDS is 0, its default; GetObject does not fail; CREATE and DROP do not
occur.  `Alone` and `WarmUp` restrict which requests overlap, to tell the
passing instance from the violated ones.

### ObjectStore and FsStorage

`ObjectStore` is what `S3Storage` gives the `Log`: a write takes effect at one
instant and only if its precondition holds then; a read that no write overlaps
returns the object, a read that one overlaps may return anything.

In `FsStorage`, `disk` holds the files, `name` what the path names, `client[c]`
the system call each caller of the storage is at: `Open`, `ReadChunk`, `EndRead`
(`FSStorage.Read`), `Stat`, `Create`, `MkdirAll`, `WriteChunk`, `EndWrite`
(`Write`), `Delete`.  Clients do what `withPersistedLog` does: read, append,
write with the ETag of what they read.  The abstract object is the data of the
Write under way, from its truncation on, and the content of the file otherwise.

### Statements and Server

A text is a sequence of tokens: words, `;`, `--`, `NL`.  `SplitNonEmptyQueries`
and `Parse` are the code's reading of it; `SqlStatements` and `Sql` are DuckDB's.

| variable | code |
|---|---|
| `authToken`, `splitting` | BEARER_TOKEN, `-query-splitting` |
| `tables` | what log and objects amount to: the text of CREATE TABLE, the rows, and the state |
| `req`, `queue`, `status` | the request, the queries `handleQuery` has not yet run, the answer |

`Arrive`, `Reject` and `PostEndpoint` are `RequestHandler`; `RunStatement`,
`StatementFails`, `StorageFails` and `Respond` are `handleQuery`.  The bearer header of a
request is only looked at when a token is set.

A statement is one step, which either runs to its end (`Committed`) or stops where
a call to the bucket fails, loses its answer, or the process ends (`Interrupted`);
`Duckpond` and `Handlers` take it apart.  What a statement leaves that stops before
its last call is `HalfDone`, and the state of a table says what earlier requests
have left:

| state | what is there | how it came about |
|---|---|---|
| `whole` | log and files | a CREATE whose export succeeded |
| `torn` | the log, without files that it lists | a DROP that stopped before it deleted the log (log.go:503, 526) |
| `fresh` | the metaData row, in the LOG database only | a CREATE whose export failed (log.go:190) |
| `stuck` | the same, and add rows | an INSERT or a VACUUM on a fresh table whose export failed |

A later INSERT that succeeds saves a fresh or stuck table, a later CREATE on one
fails, a VACUUM or SELECT of a stuck one fails since `delta_scan` finds no log, and a
restart (`Forget`) makes it disappear.  A SELECT of a torn table fails, an INSERT into it
is acknowledged, and a DROP removes it.  A whole table without rows may hold files too
(a VACUUM of an empty table writes one), so a DROP may tear it.

## 3. Runs

| run | instance | question | result |
|---|---|---|---|
| `single` | 1 server, all six statements, 5 requests, 4 files, 2 incarnations, 1 restart, 2 failures among failed write, lost answer, failed copy, failed delete; TTL 0 | is one server a table as `Table` has it, are acknowledged rows there until a DROP destroys them, does DROP leave nothing, do schemas stay apart, does every request end? | holds |
| `writers` | 2 servers, INSERT, SELECT and VACUUM on an existing table, 4 requests, 5 files, 1 restart, 1 failure among failed write, lost answer, failed copy, failed delete; TTL 1, clock 0..1 | do interleaved writers and merges lose, duplicate or resurrect rows, or delete a needed object? | holds |
| `handlers` | 1 process, 2 handlers, 2 connections; INSERT and SELECT overlap, VACUUM runs alone, and so does the request that opens the databases; 4 requests, 5 files, 1 restart, 1 failure among failed write and lost answer | do concurrent handlers keep one writer, every row once, and one table? | holds |
| `files` | 3 clients, a log of up to 4 chunks, 2 files, directory missing at first or not; Writes and Deletes do not overlap one another, Reads overlap anything | is a file a conditional object? | holds |
| `server` | 454 bodies: up to 3 pieces out of 7, or up to 2 out of 10 (statements with and without comments, line feeds and semicolons), 3 methods, 3 paths, token or none, splitting or not; table missing, whole and empty, whole with a row, torn, fresh, or stuck; 1 storage failure and 1 restart, before a statement, after it or half-way | does the code read a body as DuckDB does, and does the status tell what happened? | holds |
| `vacuum_window` | 1 process, 2 handlers, INSERT and VACUUM overlap, 3 requests | `AckedRowsDurable` | violated |
| `cold_start` | 1 process, 2 first INSERTs overlap | `AckedRowsDurable` | violated |
| `create_race` | 2 servers, CREATE and INSERT, no table at first | `AckedRowsDurable` | violated |
| `stale_vacuum` | 2 servers, CREATE, INSERT, VACUUM | `MergePreservesRows` | violated |
| `vacuum_stuck` | 1 server, INSERT, SELECT, VACUUM | `PurgeFindsWork` | violated |
| `read_fault` | 2 servers, INSERT, SELECT, VACUUM, one failed GetObject | `LiveFilesPresent` | violated |
| `stale_schema` | 2 servers, CREATE, INSERT, DROP | `FilesMatchTable` | violated |

Bounds (`MaxRequests`, `MaxFaults`, `MaxCrashes`, `MaxClock`, the sizes of
`Files` and `TableIds`) are guards of the actions they bound.  Each request
writes at most one parquet object, so five files never run short in `writers`
and `handlers`;
in `single` a run that writes an object with every one of five statements would
need five, but its first statement must be a CREATE, which writes none.  Two
servers are enough for a lost update; four requests are enough for an INSERT
and a VACUUM on each side, or for merge, purge, merge and a read; two
incarnations are enough for drop and create again.  Two failures in `single` let
a CREATE fail, an INSERT fail and another INSERT succeed.  In `handlers` two
handlers are enough for one to work in the other's window, and four requests for
a VACUUM, two overlapping statements and one after them.  Four chunks let a
client read a log half written by another and a third append to it.  Three pieces
let a statement succeed, the next fail and a third follow, with a comment between;
one request at a time needs no second one, since the tables it can find, those
left by a statement that stopped half-way among them, are chosen at the start.
`writers` uses symmetry of servers, files and incarnations; `single`, which checks a liveness property,
does not.  Deadlock is checked in every run; `Rest` lets the system stop only
when no request is under way.

Each operator named *Mutant* in a comment is a plausible bug in the definition
that follows it; it is used by no specification.  Put in the place of that
definition it makes the property listed beside it in `PROJECT.json` fail, which
shows that the property depends on that part of the code.

### Fairness

`FairSpec` adds weak fairness of `Step(s)`: once a handler has started, Go
runs it on until it returns, unless its process stops; every storage call it
makes returns, with a result or an error.  Nothing is assumed of clients,
restarts, failures or time.  The other modules state safety only.

### Where the passing instances end

* `handlers` relies on DuckDB: of two open transactions that create the same
  name, the second fails (`NameFree`).  This is all that keeps the handlers of a
  process apart, and it needs a request that found the table in the LOG database.
  `vacuum_window` and `cold_start` are the two ways around it.
* `files` relies on Writes not overlapping (`Exclusive`).  Inside a process that
  is `OneWriter` of `Handlers`.  With `Exclusive = FALSE` the refinement fails: two
  Writes both pass the check and the second truncates what the first wrote, and a
  Delete in the middle of a Write leaves a file without a name.
* `server` states `BatchIsPrefix` for the requests `Ordinary` admits.  Outside of
  it the model, as the code, answers 200 to statements that are lost: a comment
  before a statement, or several statements, without `-query-splitting`; and a
  semicolon in a comment cuts it.
* `single` and `server` allow what a DROP that stops half-way does, since the code
  does it: acknowledged rows are destroyed although the DROP was answered with an
  error, and an INSERT into the torn table is acknowledged although no SELECT
  returns it.  No document promises otherwise.  `server` also allows the rows of an
  INSERT that failed on an unsaved table to come back with a later INSERT.

### What the violated runs show

* `vacuum_window`: an INSERT is importing, and has deleted the rows of `log_json`
  (log.go:474) but not yet inserted those it read.  A VACUUM lists files and
  metadata in this window, finds none, and goes on to `Merge` without a view or a
  temporary table, so without a conflict.  Its own import deletes the rows again
  while the INSERT records its file; the INSERT exports a log with one add row
  and no metadata, its ETag matches, and it is answered with success.
* `cold_start`: two first INSERTs find `Log.logDB` nil.  The second publishes its
  fresh database (log.go:82) when the first is between recording its file and
  exporting; the export reads a blank ETag and the protocol row there, and
  overwrites the log.
* `create_race`: `S3Storage.Write` (storage.go:268) treats a blank ETag as "no
  precondition".  Two servers that both find no log both create it; the second
  write replaces the first and everything inserted in between.
* `stale_vacuum`: `handleQuery` (duckpond.go:391) decides that a table is empty
  from the LOG database opened earlier, and `Merge` then imports the current
  log.  The empty temporary table is copied, and all live files are tombstoned.
* `vacuum_stuck`: `Merge` (log.go:300) never removes the tombstones of the files
  it deleted, against the comment at log.go:305.  In the run a VACUUM merges, the
  next one deletes the old file, an INSERT adds a file, and the VACUUM after it finds
  two live files to merge, deletes the missing file once more and returns, against
  the message at log.go:316.  So does every VACUUM from then on.
* `read_fault`: `importPersistedLog` (log.go:537) takes every failure of the read
  for a missing log, and goes on with rows that an earlier rejected export left
  in the LOG database.  A VACUUM acts on tombstones that were never committed.
* `stale_schema`: the rows of an INSERT are built with the schema of the cached
  log, and committed against the ETag of the imported one.

## 4. Proofs

Every theorem holds for all values of the constants that its assumptions admit:
any number of servers, handlers, connections, clients, files, requests, failures
and restarts.  Each names the property that a run checks on a small instance.

| module | assumption | properties proved |
|---|---|---|
| `DuckpondProofs` | none | `TypeOK` |
| `SharedTableProofs` | `SharedTable` | `LogOnlyGrows` |
| `SharedRowsProofs` | `SharedTable` | `AckedRowsDurable`, `ImplementsTable`, `ReadsSeeAckedRows`, `NoRowTwice`, `MissingFilesExpired`, `LiveFilesPresent`, `MergePreservesRows`, `FilesMatchTable` |
| `OneServerProofs` | `OneServer` | `ImplementsTable`, `DropLeavesNothing`, `ReadsSeeAckedRows`, `FilesMatchTable`, `AckedRowsDurable`, `LogOnlyGrows` |
| `HandlersProofs` | none | `TypeOK` |
| `HandlersProofs` | `QuietVacuum` | `OneWriter`, `AckedRowsDurable`, `NoRowTwice`, `LogOnlyGrows`, `ImplementsTable` |
| `FsStorageProofs` | `Exclusive` | `TypeOK`, `NoLostUpdate`, `ImplementsObjectStore` (for finitely many chunks) |
| `ServerProofs` | `BodiesAssumption` | `TypeOK`, `ReadsAsDuckDB`, `BatchIsPrefix` |

All of them use the `ConstantsAssumption` of their module, which TLC evaluates in
every run.  `SharedTable`, `OneServer`, `QuietVacuum` and `Exclusive` are no
convenience: each has a run, or a
remark in section 3, with a counterexample without it.  Together
`SharedTable` and `OneServer` say how far README.md:12 of the repository can be
trusted: one server may do anything, several may do anything but create and
drop, and no read of the log may fail.

**Types.**  `TypeOK` of `Duckpond` is not inductive.  `TypeInv` adds that
every log, cached or bound, lists only files that were written
(`LogsListWritten`: so that the rows of a merge are defined), and what a request
has set up by the time it is at a given point (`RequestOK`: a LOG database, an
incarnation for the temporary table, a bound version).  `Handlers` has the same
two parts (`LogDBTyped`, `HandlerTyped`).

**Several servers.**  `SharedTable`: the table exists at the
start and holds a file, clients send INSERT, SELECT and VACUUM, and a GetObject
of the log does not fail.  `create_race`, `stale_vacuum` and `read_fault` are
the counterexamples without it.

The argument is the invariant `SharedInv`.  The ETag of every open LOG database
is an earlier version of the committed log (`Extends(objLog, db.etag)`), because
the committed log only grows.  A request that is about to export holds an
extension of its ETag's version.  If the ETag matches, the two facts and
`ExtendsAntisymmetric` say that the version it imported *is* the committed one,
so what it writes is the committed log and its own rows (`ExportCommits`).  A
VACUUM between import and export may bind a later version than it imported: then
its ETag is older than the committed log and can no longer match, which is why
the clause of `StatementOK` on `export` is conditional on `db.etag = objLog`, and
why the clause on `copy` orders the three versions `etag`, `snap`, `objLog`.
`CommittedLogOK` (there is always a live file) keeps every VACUUM on the view:
this is where `stale_vacuum` would break the proof.

`SharedRowsProofs` builds on it.  A SELECT answers from the version it binds, and
acknowledged rows are in every later version.  For rows in one file and for
deleted objects the invariant speaks of the committed *version*, and of the one a
request is about to write if its ETag still matches (`VersionOK`): its files share
no row, and what is missing of it is named by one of its own tombstones that has
expired.  A purge acts on tombstones of an imported version, which the committed
log contains.  `MergePreservesRows` and
`LiveFilesPresent`, which `stale_vacuum` and `read_fault` violate, hold here.
`AckedRowsDurable` and the refinement speak of rows that the bucket holds, and so
rest on `LiveFilesPresent`: the table is never torn.

**One server.**  `OneServer`: one server, and a GetObject of the log does not
fail.  It may start with a table or without, run all six statements, restart,
and meet every other failure.  With several servers this is false
(`create_race`, `stale_schema`).

The invariant is `OneInv`.  Here the ETag says little: after a lost answer it
is older than what the same server wrote, after a failed export the LOG database
is ahead of the bucket, and a failed CREATE leaves a table in it that the bucket
does not have.  What holds at all times is `DatabaseOK`: the LOG database knows
the table of the bucket, with the same first metaData row, and lists a live file
if the bucket does.  Between import and export no other server commits, so the
import makes ETag and bucket equal and they stay so (`UpToDate`, `ProgressOK`):
the only failed export is a storage failure.  `ReadsTable` says why a VACUUM that
reads an empty temporary table has nothing to lose on one server.
`ObjectsListed` holds before the first failure: every object is in the log that
`Destroy` would take its list from.  In the refinement an export that finds no
log is `Create` when the table is empty and `CreateLate` otherwise.

A second invariant, `HeldInv`, follows the objects: the acknowledged rows are in
files that the committed log lists and the bucket holds, a purge deletes what this
log has tombstoned, and what a request is about to export lists files that are
all there exactly when those of the committed log are.  `DropFile` alone deletes a
live file (`DeletesOneFile`): it is `Tear` if it destroys a live file, and takes
from `acked` what it destroys; otherwise it is a stutter.  After a DROP that
stopped half-way an INSERT is `InsertTorn`, and no merge can commit, since its COPY
needs all the files (`Copyable`).  So the theorem says what the code gives: rows
leave a table that exists only while a DROP is under way.

**Handlers of one process.**  Types need no assumption.  `QuietVacuum` is what the
run `handlers` sets: the request that opens the databases, and every VACUUM, run
alone; `cold_start` and `vacuum_window` are the counterexamples without the one
and the other.  The invariant is `HInv`.  A request that joins others finds the
process warm, so all of them use one DATA and one LOG database, and only the one
that holds the table's name in the DATA database is past `TakeName`
(`JoinedOK`): hence one writer.  `WriterOK` follows the rows of `log_json` through
its statements: the committed log, nothing while they are being replaced, the
committed log again, then that log and the writer's event (`NewLog`), which is
what `WriteLog` commits.  The others only look.  No ETag is needed inside one process.
`HeldInv` adds that the writer's file is in the bucket and that a purge deletes what the committed
log has tombstoned, so every live file is there (`Readable`).

**The log as a file.**  `Exclusive`: Writes and Deletes do not overlap one another;
inside a process that is `OneWriter`.  Reads overlap anything, and may return
half of a log, a mix, or nothing.  `FsInv` says what a Write has checked and
written at each system call, and that a Read which nothing overlapped has the
start of the file.  For `NoLostUpdate` the difficulty is that a client may base its write
on a torn read.  `PlaceInv` settles it: a chunk has one place in every sequence
that holds it, so a torn read whose ETag matches the file can only be the
file.  `FileIsAnObject` maps the truncation to the instant of the write.

**Texts.**  `ServerProofs` speaks of bodies of any length, so it needs induction,
and the library's induction theorems take an operator as a parameter, which the
installed provers cannot instantiate.  Here the predicate is a set: a set of
numbers, or of sequences, that holds the first and with each the next is all of
them (`NatInd`, `SeqInd`), which follows from the order of the numbers being well
founded.  On top of it stand the laws of the folds that `Statements` is written
with (`FoldLaws`: a fold over one more element is one more step), of the
recursion of `SeparateComments` (`DownExists`, `SeparateLaws`) and of
`FlattenSeq`.  An operator is then known by what it makes of the empty text and
of one more token (`StripLaws`, `SplitByLaws`, `WithoutLaws`, `EffectsLaws`), and by
what it makes of two texts on end (`StripConcat`, `SplitConcat`, `SqlLaws`).

`SplitKeepsStatements` is the first result, by induction over the semicolons of
a text: a part between two of them begins outside a comment exactly when no
comment holds a semicolon (`SemicolonOutside`), and then DuckDB reads the parts as
it reads the whole.  It holds of every text.  The next, `BodiesReadAsDuckDB`, is
about what the parts are.  DuckDB drops comments where the code's regular
expressions do not, so the two agree on the first words of a query only if there
is no comment among them (`StripBegins`, `HeadReads`).  No two patterns of `Parse`
match one query, since their first words differ (`PatternsApart`); hence the order
in which the code tries them does not matter.

`BodiesAssumption` is what this takes of the bodies that clients send: each query
of a body is a comment, a SELECT, or one of the statements that the log knows,
with its first words and the name after them written without a comment in
between.  TLC evaluates it for the 454 bodies of the run.  The code needs
it: `CREATE -- note` with `TABLE t` on the next line is a CREATE TABLE to DuckDB and
nothing to `Parse`, so it is answered with success and lost, and an ALTER TABLE is
rolled back.  It leaves out CREATE OR REPLACE, which the code ignores on a table that
exists.  `WordsAssumption` says that the words the module writes are
strings, which the prover does not know of a literal.

`BatchIsPrefix` follows from the invariant `Batch`.  Between two statements of a
request there is a sequence `done` of statements such that the request asked
for `done` and what the queries still hold, and the tables are what `done` makes
of those the request found (`Halfway`).  A query that waits is read as what it is
(`Runnable`), by `QueriesRunnable`.  What remains is one statement
(`StatementRan`): on the tables of the bucket it does what its query commits.
The two are far apart in the code.  A statement runs in a fresh transaction that
holds one table, made by running the text of its CREATE TABLE again
(`CreateAgain`, `PreparedIs`), and what is committed is the new rows, the rows
that the transaction found, or the text itself, one case for each verb
(`CreateRan`, `InsertRan`, `VacuumRan`, `DropRan`, `SelectRan`).  That the text kept
with a table creates this table, and no other, is `TypeOK` (`CommitGood`).

A statement that stops half-way leaves what `Partial` says of it on the tables it
found (`HalfRan`): a table that only the LOG database has, rows that were not saved,
a log whose files a DROP has deleted, or nothing.  So a request that fails leaves
the effects of its first statements and at most this of the next (`LeftBy`,
`HalfwayPartial`), and one that loses its server the same without what only the
LOG database had (`Forget`, `PlainForget`); `Ended` states the three cases.  A failed
DROP is no prefix of the batch in the code, and `BatchIsPrefix` does not say that it
is.

Remarks on what the proofs changed in the modules.  `ConstantsAssumption` of
`FsStorage` says that `Absent` is neither an inode nor a content.
`Table!Next` has parentheses in `(SUBSET Rows) \ {{}}`: without them it is
read as `SUBSET (Rows \ {{}})`, which has the empty set in it.  In `Server`, a
VACUUM succeeds only if the transaction holds the table: the text of a body sent
without splitting may create a table and drop it again, and then Merge has nothing
to copy.  The arms of its CASE expressions exclude one another: where two guards
hold TLA+ does not say which arm is meant.  `Without` is a fold where
`SelectSeq` would do, because the provers have the laws of folds.

Only model-checked: `RequestsFinish`.  Liveness under fairness is out of the
prover's reach.  Outside the bodies that `BodiesAssumption` admits, and outside
the requests that `Ordinary` admits, nothing is claimed of a batch.

## 5. What is not modelled

* Row values, statistics (`delta_stats.sql`, the parameters of
  `insert_table_event_add.sql`), JSON, UUIDv7 arithmetic: data that no step of
  the program decides on.
* ALTER TABLE, which is answered with success and rolled back, and CREATE TABLE
  IF NOT EXISTS, whose name parses as `IF`; CREATE TABLE AS SELECT; quoted text and
  block comments.  CREATE OR REPLACE is modelled in `Duckpond`; `Server`'s
  clients do not send it.
* Failed reads of the log in `single`, `writers` and `handlers`: `read_fault` shows
  what one does.
* CREATE and DROP beside other requests of the same process, and several
  processes of several handlers each: out of TLC's reach at this grain.
* A crash or a full disk inside `os.WriteFile`: nothing in the code is meant to
  survive it.
* The write of a blank log on Tigris (log.go:512); `Close` and `Destroy` of a whole
  `DuckpondDB`; `ResetMemoryDB`, `S3Storage.List` and the serialisation of queries,
  which the handlers do not call; the `-post` command line, which is
  `PostEndpoint` without the checks.
* DuckDB secrets, extension loading, CORS, logging, deployment.
* A parquet object that a SELECT needs and that is missing makes the SELECT
  fail; `Respond` does not tell a failed answer from a good one, and
  `ReadsSeeAckedRows` speaks of the version bound.  `Table` says when that may
  last: while a DROP is under way, or after one that stopped (`torn`).

`PROJECT.json` lists every component with its status, every hazard with the
properties that cover it, and the lines that each definition stands for.

## 6. Plan

Left to prove, in this order:

1. Several servers under weaker assumptions than `SharedTable`: the table may be
   dropped and created by one of them while the others only read; and, of
   `SharedInv`, the parts that survive a failed read of the log.
2. `Handlers` with VACUUMs that overlap SELECTs only.
