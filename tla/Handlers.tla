------------------------------ MODULE Handlers ------------------------------
(***************************************************************************)
(* One duckpond process handling concurrent requests on one existing       *)
(* table.  net/http runs each request on a goroutine of its own; they      *)
(* share the DATA database, the LOG database of the table and its pool of  *)
(* connections, without a lock.  Every SQL statement on the LOG database   *)
(* and every access to the bucket is a step of its own.                    *)
(*                                                                         *)
(* What keeps two writers apart is the name of the table in the DATA       *)
(* database: a transaction that creates it conflicts with every other open *)
(* transaction that has, and fails at once.                                *)
(***************************************************************************)
EXTENDS DeltaLog

CONSTANTS
  Handlers,     \* goroutines
  Conns,        \* connections of a LOG database's pool
  Ops,          \* the statements clients send
  Alone,        \* statements sent only when no other request is under way
  WarmUp,       \* TRUE: no request joins one that began on a cold process
  FaultKinds,   \* the kinds of storage failure that may happen
  Absent,       \* no object, no ETag, no database, no log_json, no name
  MaxRequests,  \* bound: requests sent
  MaxFaults,    \* bound: storage failures
  MaxCrashes    \* bound: restarts of the process

AllOps == {"insert", "select", "vacuum"}

(* write: PutObject fails.  lost: it took effect, its answer is lost. *)
AllFaults == {"write", "lost"}

VARIABLES
  objLog,    \* the log object in the bucket
  stored,    \* the parquet objects in the bucket
  content,   \* the INSERTs whose rows each parquet object ever written holds
  dataDB,    \* ib.dataDB, named by the handler that opened it
  names,     \* in each DATA database, whose transaction created the table
  logDB,     \* Log.logDB, named by the handler that opened it
  dbs,       \* the LOG databases opened
  req,       \* the request of each handler
  acked,     \* rows whose INSERT was reported successful
  requests, faults, crashes   \* counters of the bounds

bucket == <<objLog, stored, content, acked>>
handles == <<dataDB, logDB>>
bounds == <<requests, faults, crashes>>
vars == <<bucket, handles, names, dbs, req, bounds>>

(* A LOG database: the rows of log_json, once that table exists, and       *)
(* whether the protocol row is among them; each connection's variable      *)
(* log_json_etag; the connection released last.                            *)
DB == [log : Log \cup {Absent}, protocol : BOOLEAN,
       etag : [Conns -> Log \cup {Absent}], top : Conns]

(* A parquet file: the INSERTs whose rows it holds. *)
Content == [rows : SUBSET Files]

ASSUME ConstantsAssumption ==
  /\ Ops \subseteq AllOps
  /\ Alone \subseteq Ops
  /\ FaultKinds \subseteq AllFaults
  /\ WarmUp \in BOOLEAN
  /\ {MaxRequests, MaxFaults, MaxCrashes} \subseteq Nat
  /\ Absent \notin Log \cup DB \cup Files \cup Content \cup Handlers
  /\ Conns # {}

(***************************************************************************)
(* Local variables of a request.  data is the DATA database of its         *)
(* transaction, db the LOG database getLogDBAfterImport returned, into the *)
(* one Import works on; view: the name stands for the view; first: the     *)
(* import under way is the one that opening the database makes; got the    *)
(* log read from the bucket or to be written to it.                        *)
(***************************************************************************)
Request ==
  [pc      : {"idle", "openData", "useData", "files", "table", "openLog",
              "init", "name", "answer", "read", "setvar", "delete", "rows",
              "expired", "purge", "copy", "record", "etag", "events", "write"},
   op      : AllOps \cup {Absent},
   alone   : BOOLEAN,
   data    : Handlers \cup {Absent},
   db      : Handlers \cup {Absent},
   into    : Handlers \cup {Absent},
   view    : BOOLEAN,
   first   : BOOLEAN,
   got     : Log \cup {Absent},
   etag    : Log \cup {Absent},
   file    : Files \cup {Absent},
   pending : SUBSET Files]

NoRequest ==
  [pc |-> "idle", op |-> Absent, alone |-> FALSE, data |-> Absent,
   db |-> Absent, into |-> Absent, view |-> FALSE, first |-> FALSE,
   got |-> Absent, etag |-> Absent, file |-> Absent, pending |-> {}]

RowsOf(l) == UNION {content[f].rows : f \in FilesLive(l)}

(* Of these, the rows in files that are among the objects. *)
RowsHeld(l, objects) == UNION {content[f].rows : f \in FilesLive(l) \cap objects}

FreshDB ==
  [log |-> Absent, protocol |-> FALSE, etag |-> [c \in Conns |-> Absent],
   top |-> CHOOSE c \in Conns : TRUE]

(* A process that has just started. *)
Cold(dataHandle, logHandle, nameHolders, logDBs, reqs) ==
  /\ dataHandle = Absent /\ logHandle = Absent
  /\ nameHolders = [d \in Handlers |-> Absent]
  /\ logDBs = [k \in Handlers |-> FreshDB]
  /\ reqs = [h \in Handlers |-> NoRequest]

Init ==
  /\ Cold(dataDB, logDB, names, dbs, req)
  /\ requests = 0 /\ faults = 0 /\ crashes = 0
  /\ \E f \in Files, t \in TableIds :
       /\ objLog = InsertAdd(InsertMetaData(EmptyLog, t), f)
       /\ stored = {f} /\ acked = {f}
       /\ content = [g \in Files |-> IF g = f THEN [rows |-> {f}] ELSE Absent]

-----------------------------------------------------------------------------
(***************************************************************************)
(* Requests begin and end.                                                 *)
(***************************************************************************)
Active == {h \in Handlers : req[h].pc # "idle"}

(* The rollback of the DATA transaction gives the name back. *)
Finish(h) ==
  /\ req' = [req EXCEPT ![h] = NoRequest]
  /\ names' = [d \in Handlers |-> IF names[d] = h THEN Absent ELSE names[d]]

Goto(h, pc) == req' = [req EXCEPT ![h].pc = pc] /\ UNCHANGED names

(* What handleQuery asks the Log for first. *)
Start(op) == IF op = "insert" THEN "table" ELSE "files"

Begin(h, op) ==
  LET cold == dataDB = Absent \/ logDB = Absent
      alone == op \in Alone \/ (WarmUp /\ cold)
  IN /\ req[h].pc = "idle"
     /\ op \in Ops
     /\ requests < MaxRequests
     /\ \A g \in Active : ~req[g].alone
     /\ alone => Active = {}
     /\ requests' = requests + 1
     /\ req' = [req EXCEPT ![h] = [NoRequest EXCEPT
                  !.op = op, !.alone = alone, !.data = dataDB,
                  !.pc = IF dataDB = Absent THEN "openData" ELSE Start(op)]]
     /\ UNCHANGED <<bucket, handles, names, dbs, faults, crashes>>

(* DataDB: the check for nil, the store and the read that returns. *)
OpenData(h) ==
  /\ req[h].pc = "openData"
  /\ dataDB' = h
  /\ Goto(h, "useData")
  /\ UNCHANGED <<bucket, logDB, dbs, bounds>>

UseData(h) ==
  /\ req[h].pc = "useData"
  /\ req' = [req EXCEPT ![h].data = dataDB, ![h].pc = Start(req[h].op)]
  /\ UNCHANGED <<bucket, handles, names, dbs, bounds>>

-----------------------------------------------------------------------------
(***************************************************************************)
(* The LOG database.                                                       *)
(***************************************************************************)

(* A statement takes the connection released last, or another one if that  *)
(* is in use by the statement of another request.                          *)
ConnOf(h, k) == IF Active = {h} THEN {dbs[k].top} ELSE Conns

(* A statement of h on LOG database k that leaves rows l in log_json, the  *)
(* protocol row among them or not.                                         *)
Execute(h, k, l, protocol) ==
  \E c \in ConnOf(h, k) :
    dbs' = [dbs EXCEPT ![k].top = c, ![k].log = l, ![k].protocol = protocol]

Query(h, k) == Execute(h, k, dbs[k].log, dbs[k].protocol)

(* The database a query runs on: the one that opening it returned, or the  *)
(* one getLogDBAfterImport finds open.                                     *)
QueryDB(h) == IF req[h].db # Absent THEN req[h].db ELSE logDB

(* getLogDBAfterImport finds no database. *)
NoLogDB(h) ==
  /\ req[h].pc \in {"files", "table"}
  /\ QueryDB(h) = Absent
  /\ Goto(h, "openLog")
  /\ UNCHANGED <<bucket, handles, dbs, bounds>>

(* initLogDB publishes the database before it creates log_json.  When its  *)
(* own check finds one that another request has published meanwhile, it    *)
(* returns that one, created or not, and the first import follows.         *)
OpenLog(h) ==
  /\ req[h].pc = "openLog"
  /\ \/ logDB' = h /\ Goto(h, "init")
     \/ /\ logDB # Absent
        /\ req' = [req EXCEPT ![h].pc = "read", ![h].first = TRUE, ![h].db = logDB]
        /\ UNCHANGED <<logDB, names>>
  /\ UNCHANGED <<bucket, dataDB, dbs, bounds>>

InitLog(h) ==
  /\ req[h].pc = "init"
  /\ \E c \in ConnOf(h, h) :
       dbs' = [dbs EXCEPT ![h].top = c, ![h].log = EmptyLog,
                          ![h].protocol = TRUE, ![h].etag[c] = Absent]
  /\ req' = [req EXCEPT ![h].pc = "read", ![h].first = TRUE, ![h].db = logDB]
  /\ UNCHANGED <<bucket, handles, names, bounds>>

(***************************************************************************)
(* CreateViewOfParquet and CreateTempTable: the query on log_json, then    *)
(* the name in the DATA transaction.                                       *)
(***************************************************************************)
ListLiveFiles(h) ==
  LET k == QueryDB(h) IN
  /\ req[h].pc = "files" /\ k # Absent
  /\ Query(h, k)
  /\ IF dbs[k].log = Absent THEN Finish(h)
     ELSE /\ UNCHANGED names
          /\ IF FilesLive(dbs[k].log) # {}
             THEN req' = [req EXCEPT ![h].pc = "name", ![h].view = TRUE,
                                     ![h].db = Absent]
             ELSE req' = [req EXCEPT ![h].pc = "table", ![h].db = Absent]
  /\ UNCHANGED <<bucket, handles, bounds>>

(* Without metadata no table is made: INSERT and SELECT then fail, VACUUM  *)
(* goes on to Merge.                                                       *)
FindMetaData(h) ==
  LET k == QueryDB(h)
      known == dbs[k].log # Absent /\ HasTable(dbs[k].log)
  IN /\ req[h].pc = "table" /\ k # Absent
     /\ Query(h, k)
     /\ \/ known /\ Goto(h, "name")
        \/ /\ ~known /\ dbs[k].log # Absent /\ req[h].op = "vacuum"
           /\ Goto(h, "read")
        \/ /\ ~known
           /\ dbs[k].log = Absent \/ req[h].op # "vacuum"
           /\ Finish(h)
     /\ UNCHANGED <<bucket, handles, bounds>>

(* Mutant: DuckDB lets two open transactions create the table. *)
NameAlwaysFree(h) == TRUE

NameFree(h) == names[req[h].data] = Absent

(* delta_scan can bind: the log in the bucket has table metadata. *)
Bindable(h) == req[h].view => HasTable(objLog)

(* CREATE TABLE or CREATE VIEW, and the client's INSERT after it. *)
TakeName(h) ==
  /\ req[h].pc = "name"
  /\ \/ /\ NameFree(h) /\ Bindable(h)
        /\ names' = [names EXCEPT ![req[h].data] = h]
        /\ req' = [req EXCEPT ![h].pc =
                     IF req[h].op = "select" THEN "answer" ELSE "read"]
     \/ ~(NameFree(h) /\ Bindable(h)) /\ Finish(h)
  /\ UNCHANGED <<bucket, handles, dbs, bounds>>

Respond(h) ==
  /\ req[h].pc = "answer"
  /\ Finish(h)
  /\ UNCHANGED <<bucket, handles, dbs, bounds>>

-----------------------------------------------------------------------------
(***************************************************************************)
(* importPersistedLog: read the object; set log_json_etag; delete all rows *)
(* of log_json; insert those read.  Each of the last three commits alone.  *)
(***************************************************************************)
ReadLog(h) ==
  /\ req[h].pc = "read"
  /\ req' = [req EXCEPT ![h].pc = "setvar", ![h].got = objLog]
  /\ UNCHANGED <<bucket, handles, names, dbs, bounds>>

SetVariable(h) ==
  /\ req[h].pc = "setvar"
  /\ \E c \in ConnOf(h, logDB) :
       dbs' = [dbs EXCEPT ![logDB].top = c, ![logDB].etag[c] = req[h].got]
  /\ req' = [req EXCEPT ![h].pc = "delete", ![h].into = logDB]
  /\ UNCHANGED <<bucket, handles, names, bounds>>

(* A failed import ends the request, unless it is the first one. *)
DeleteRows(h) ==
  LET k == req[h].into IN
  /\ req[h].pc = "delete"
  /\ \/ /\ dbs[k].log # Absent
        /\ Execute(h, k, EmptyLog, FALSE)
        /\ Goto(h, "rows")
     \/ /\ dbs[k].log = Absent
        /\ UNCHANGED dbs
        /\ IF req[h].first
           THEN /\ req' = [req EXCEPT ![h].pc = Start(req[h].op), ![h].first = FALSE]
                /\ UNCHANGED names
           ELSE Finish(h)
  /\ UNCHANGED <<bucket, handles, bounds>>

(* log_json may have rows again: of the import of another request. *)
InsertRows(l, got) ==
  [meta   |-> l.meta \o got.meta,
   add    |-> l.add \cup got.add,
   remove |-> l.remove \cup got.remove]

(* The import is over; its caller takes the LOG database. *)
LoadRows(h) ==
  LET k == req[h].into IN
  /\ req[h].pc = "rows"
  /\ Execute(h, k, InsertRows(dbs[k].log, req[h].got), TRUE)
  /\ req' = [req EXCEPT
               ![h].first = FALSE,
               ![h].db = IF req[h].first THEN @ ELSE logDB,
               ![h].pc = IF req[h].first THEN Start(req[h].op)
                         ELSE IF req[h].op = "vacuum" THEN "expired"
                         ELSE "copy"]
  /\ UNCHANGED <<bucket, handles, names, bounds>>

-----------------------------------------------------------------------------
(***************************************************************************)
(* Insert and Merge.  TTL_SECONDS is 0, its default: every tombstone has   *)
(* expired.                                                                *)
(***************************************************************************)
ListExpired(h) ==
  LET marked == FilesMarkedRemove(dbs[logDB].log, 0, 0) IN
  /\ req[h].pc = "expired"
  /\ Query(h, logDB)
  /\ \/ dbs[logDB].log = Absent /\ Finish(h)
     \/ /\ dbs[logDB].log # Absent
        /\ req' = [req EXCEPT ![h].pending = marked,
                     ![h].pc = IF marked # {} THEN "purge" ELSE "copy"]
        /\ UNCHANGED names
  /\ UNCHANGED <<bucket, handles, bounds>>

PurgeFile(h) ==
  /\ req[h].pc = "purge"
  /\ \E f \in req[h].pending :
       /\ stored' = stored \ {f}
       /\ req' = [req EXCEPT ![h].pending = @ \ {f},
                    ![h].pc = IF req[h].pending = {f} THEN "etag" ELSE @]
  /\ UNCHANGED <<objLog, content, acked, handles, names, dbs, bounds>>

(* The transaction holds the name and what it stands for can be read. *)
Copyable(h) ==
  /\ names[req[h].data] = h
  /\ Bindable(h)
  /\ req[h].view => FilesLive(objLog) \subseteq stored

Copy(h) ==
  /\ req[h].pc = "copy"
  /\ \/ /\ Copyable(h)
        /\ \E f \in Files :
             /\ content[f] = Absent
             /\ content' = [content EXCEPT ![f] = [rows |->
                              IF req[h].op = "insert" THEN {f}
                              ELSE IF req[h].view THEN RowsOf(objLog) ELSE {}]]
             /\ stored' = stored \cup {f}
             /\ req' = [req EXCEPT ![h].pc = "record", ![h].file = f]
        /\ UNCHANGED names
     \/ ~Copyable(h) /\ Finish(h) /\ UNCHANGED <<stored, content>>
  /\ UNCHANGED <<objLog, acked, handles, dbs, bounds>>

Record(h) ==
  LET k == req[h].db
      l == dbs[k].log
  IN /\ req[h].pc = "record"
     /\ \/ /\ l # Absent
           /\ Execute(h, k, IF req[h].op = "insert" THEN InsertAdd(l, req[h].file)
                            ELSE MergeEvents(l, req[h].file, 0),
                      dbs[k].protocol)
           /\ Goto(h, "etag")
        \/ l = Absent /\ Finish(h) /\ UNCHANGED dbs
     /\ UNCHANGED <<bucket, handles, bounds>>

-----------------------------------------------------------------------------
(***************************************************************************)
(* Export: read log_json_etag, read log_json, write the object.            *)
(***************************************************************************)
ReadEtag(h) ==
  /\ req[h].pc = "etag"
  /\ \E c \in ConnOf(h, logDB) :
       /\ dbs' = [dbs EXCEPT ![logDB].top = c]
       /\ req' = [req EXCEPT ![h].pc = "events", ![h].db = logDB,
                             ![h].etag = dbs[logDB].etag[c]]
  /\ UNCHANGED <<bucket, handles, names, bounds>>

(* string_agg of no rows is NULL, which fails. *)
ReadEvents(h) ==
  LET k == req[h].db
      some == dbs[k].log \notin {Absent, EmptyLog} \/ dbs[k].protocol
  IN /\ req[h].pc = "events"
     /\ Query(h, k)
     /\ \/ /\ some
           /\ req' = [req EXCEPT ![h].pc = "write", ![h].got = dbs[k].log]
           /\ UNCHANGED names
        \/ ~some /\ Finish(h)
     /\ UNCHANGED <<bucket, handles, bounds>>

(* Read through another connection the ETag may be blank, or old. *)
Matches(etag) == etag = Absent \/ etag = objLog

Fault(kind) ==
  /\ kind \in FaultKinds
  /\ faults < MaxFaults
  /\ faults' = faults + 1

(* Mutant: every request that wrote the log is taken for an INSERT. *)
WriteLogAcksAll(h) ==
  /\ req[h].pc = "write"
  /\ Matches(req[h].etag)
  /\ objLog' = req[h].got
  /\ acked' = acked \cup {req[h].file}
  /\ Finish(h)
  /\ UNCHANGED <<stored, content, handles, dbs, bounds>>

WriteLog(h) ==
  /\ req[h].pc = "write"
  /\ Matches(req[h].etag)
  /\ objLog' = req[h].got
  /\ \/ /\ acked' = IF req[h].op = "insert" THEN acked \cup {req[h].file} ELSE acked
        /\ UNCHANGED faults
     \/ Fault("lost") /\ UNCHANGED acked
  /\ Finish(h)
  /\ UNCHANGED <<stored, content, handles, dbs, requests, crashes>>

WriteFails(h) ==
  /\ req[h].pc = "write"
  /\ \/ ~Matches(req[h].etag) /\ UNCHANGED faults
     \/ Fault("write")
  /\ Finish(h)
  /\ UNCHANGED <<bucket, handles, dbs, requests, crashes>>

-----------------------------------------------------------------------------
(* The process stops and starts again. *)
Crash ==
  /\ crashes < MaxCrashes
  /\ Active # {} \/ dataDB # Absent
  /\ crashes' = crashes + 1
  /\ Cold(dataDB', logDB', names', dbs', req')
  /\ UNCHANGED <<bucket, requests, faults>>

(* No request is being handled: the system may rest. *)
Rest == Active = {} /\ UNCHANGED vars

Step(h) ==
  \/ OpenData(h)
  \/ UseData(h)
  \/ NoLogDB(h)
  \/ OpenLog(h)
  \/ InitLog(h)
  \/ ListLiveFiles(h)
  \/ FindMetaData(h)
  \/ TakeName(h)
  \/ Respond(h)
  \/ ReadLog(h)
  \/ SetVariable(h)
  \/ DeleteRows(h)
  \/ LoadRows(h)
  \/ ListExpired(h)
  \/ PurgeFile(h)
  \/ Copy(h)
  \/ Record(h)
  \/ ReadEtag(h)
  \/ ReadEvents(h)
  \/ WriteLog(h)
  \/ WriteFails(h)

Next ==
  \/ \E h \in Handlers, op \in AllOps : Begin(h, op)
  \/ \E h \in Handlers : Step(h)
  \/ Crash
  \/ Rest

Spec == Init /\ [][Next]_vars

-----------------------------------------------------------------------------
(***************************************************************************)
(* Properties.                                                             *)
(***************************************************************************)

(* Every variable has the shape the code gives it. *)
TypeOK ==
  /\ objLog \in Log
  /\ stored \in SUBSET Files /\ acked \in SUBSET Files
  /\ content \in [Files -> Content \cup {Absent}]
  /\ dataDB \in Handlers \cup {Absent} /\ logDB \in Handlers \cup {Absent}
  /\ names \in [Handlers -> Handlers \cup {Absent}]
  /\ dbs \in [Handlers -> DB]
  /\ req \in [Handlers -> Request]
  /\ {requests, faults, crashes} \subseteq Nat

(* Handler h is between the start of an import and the end of its export,  *)
(* when the rows of log_json are its own.                                  *)
Rewriting(h) ==
  req[h].pc \in {"setvar", "delete", "rows", "expired", "purge", "copy",
                 "record", "etag", "events", "write"}

(* At most one request at a time rewrites log_json, although no lock       *)
(* guards it: handleQuery's conflict over the table's name keeps the       *)
(* others out (withPersistedLog).                                          *)
OneWriter ==
  \A g, h \in Handlers : Rewriting(g) /\ Rewriting(h) => g = h

(* A row whose INSERT was answered with success stays, listed by the log   *)
(* and held by the bucket, whatever the requests running beside it do to   *)
(* log_json (Export) and delete (Merge).                                   *)
AckedRowsDurable == acked \subseteq RowsHeld(objLog, stored)

(* No inserted row is in two live files (merge.sql on a log_json that      *)
(* other requests import into).                                            *)
NoRowTwice ==
  \A f, g \in FilesLive(objLog) : f # g => content[f].rows \cap content[g].rows = {}

(* The log object only ever gains rows: no Export writes a log_json that   *)
(* another request has emptied or refilled (Import).                       *)
LogOnlyGrows == [][Extends(objLog', objLog)]_vars

(* The requests of the process together behave as one table on which every *)
(* statement takes effect at one instant, and which stays readable.        *)
Readable == FilesLive(objLog) \subseteq stored

T == INSTANCE Table WITH
       Rows     <- Files,
       Schemas  <- TableIds,
       NoSchema <- Absent,
       exists   <- TRUE,
       dropping <- FALSE,
       torn     <- ~Readable,
       schema   <- SchemaOf(objLog),
       rows     <- IF Readable THEN RowsOf(objLog) ELSE {},
       acked    <- acked

ImplementsTable == T!Spec

=============================================================================
