------------------------------ MODULE Duckpond ------------------------------
(***************************************************************************)
(* Several duckpond servers over one bucket, working on one table.         *)
(*                                                                         *)
(* A server keeps the log of the table in an in-memory LOG database that   *)
(* it opens on first use and then trusts; the bucket holds the log object  *)
(* and the parquet objects.  A request runs handleQuery for one statement. *)
(* Each access to the bucket is a step of its own, so that requests of     *)
(* different servers interleave between any two of them; a server handles  *)
(* one request at a time.  The ETag of the log object is the MD5 of its    *)
(* content and is modelled by the content itself.                          *)
(***************************************************************************)
EXTENDS DeltaLog

CONSTANTS
  Servers,      \* duckpond processes sharing the bucket
  Ops,          \* the statements clients send
  FaultKinds,   \* the kinds of storage failure that may happen
  TTL,          \* TTL_SECONDS
  Seeded,       \* TRUE: an earlier server created and filled the table
  Absent,       \* no object, no ETag, no database, no name
  View,         \* the DATA transaction holds a view over the bucket
  MaxRequests,  \* bound: requests sent
  MaxFaults,    \* bound: storage failures
  MaxCrashes,   \* bound: server restarts
  MaxClock      \* bound: last clock value

AllOps == {"create", "replace", "insert", "select", "vacuum", "drop"}

(* read: GetObject fails.  write: PutObject fails.  lost: PutObject took   *)
(* effect but its answer is lost.  copy: COPY or Stat fails.  delete:      *)
(* DeleteObject fails.                                                     *)
AllFaults == {"read", "write", "lost", "copy", "delete"}

VARIABLES
  objLog,    \* the log object in the bucket, or Absent
  stored,    \* the parquet objects in the bucket
  content,   \* what was written to each parquet object ever created
  logDB,     \* each server's LOG database and its log_json_etag, or Absent
  req,       \* the request each server is handling
  minted,    \* table incarnations already used
  acked,     \* rows reported inserted and not destroyed by a DROP since
  clock,     \* time, in the unit of TTL
  requests, faults, crashes   \* counters of the bounds

vars == <<objLog, stored, content, logDB, req, minted, acked, clock,
          requests, faults, crashes>>

(* A parquet file: the INSERTs whose rows it holds, named by the files     *)
(* they created, and the incarnation whose schema it was written with.     *)
Content == [rows : SUBSET Files, table : TableIds]

DB == [log : Log, etag : Log \cup {Absent}]

ASSUME ConstantsAssumption ==
  /\ Ops \subseteq AllOps
  /\ FaultKinds \subseteq AllFaults
  /\ Seeded \in BOOLEAN
  /\ {TTL, MaxRequests, MaxFaults, MaxCrashes, MaxClock} \subseteq Nat
  /\ Absent \notin Log \cup DB \cup Content \cup Files \cup TableIds
  /\ View \notin TableIds \cup {Absent}

(***************************************************************************)
(* The request of a server.  tmp is what the DATA transaction holds under  *)
(* the table's name: nothing, a table created with some incarnation's      *)
(* schema, or the view.  file is the parquet file written, pending the     *)
(* objects left to delete, snap the log version delta_scan bound, floor    *)
(* the rows acknowledged before a SELECT began.                            *)
(***************************************************************************)
Request ==
  [pc      : {"idle", "view", "import", "bind", "answer", "copy", "purge",
              "export", "unlink"},
   op      : AllOps \cup {Absent},
   tmp     : TableIds \cup {View, Absent},
   file    : Files \cup {Absent},
   pending : SUBSET Files,
   snap    : Log \cup {Absent},
   floor   : SUBSET Files]

NoRequest ==
  [pc |-> "idle", op |-> Absent, tmp |-> Absent, file |-> Absent,
   pending |-> {}, snap |-> Absent, floor |-> {}]

(* The rows of the files live in log l: what delta_scan answers with when  *)
(* the bucket holds all of these files.                                    *)
RowsOf(l) ==
  IF l = Absent THEN {} ELSE UNION {content[f].rows : f \in FilesLive(l)}

(* Of these, the rows in files that are among the objects. *)
RowsHeld(l, objects) ==
  IF l = Absent THEN {}
  ELSE UNION {content[f].rows : f \in FilesLive(l) \cap objects}

Init ==
  /\ logDB = [s \in Servers |-> Absent]
  /\ req = [s \in Servers |-> NoRequest]
  /\ clock = 0 /\ requests = 0 /\ faults = 0 /\ crashes = 0
  /\ \/ /\ ~Seeded
        /\ objLog = Absent
        /\ stored = {} /\ acked = {} /\ minted = {}
        /\ content = [f \in Files |-> Absent]
     \/ /\ Seeded
        /\ \E f \in Files, t \in TableIds :
             /\ objLog = InsertAdd(InsertMetaData(EmptyLog, t), f)
             /\ stored = {f} /\ acked = {f} /\ minted = {t}
             /\ content = [g \in Files |->
                             IF g = f THEN [rows |-> {f}, table |-> t]
                             ELSE Absent]

(***************************************************************************)
(* Storage.                                                                *)
(***************************************************************************)
Fault(kind) ==
  /\ kind \in FaultKinds
  /\ faults < MaxFaults
  /\ faults' = faults + 1

(* Read: callers treat a failure as a missing object. *)
ReadLog(got) ==
  \/ got = objLog /\ UNCHANGED faults
  \/ objLog # Absent /\ got = Absent /\ Fault("read")

(* Write of the log with If-Match when an ETag is known. *)
(* Mutant: every write of the log is unconditional. *)
MatchesAny(etag) == TRUE

Matches(etag) == etag = Absent \/ etag = objLog

WriteParquet(f, c) ==
  /\ content[f] = Absent
  /\ content' = [content EXCEPT ![f] = c]
  /\ stored' = stored \cup {f}

(* delta_scan can bind: the bucket holds a log with table metadata. *)
Bindable == objLog # Absent /\ HasTable(objLog)

(***************************************************************************)
(* The LOG database.                                                       *)
(***************************************************************************)
FreshDB == [log |-> EmptyLog, etag |-> Absent]

(* importPersistedLog: a log that could not be read leaves db as it is. *)
ImportPersistedLog(db, got) ==
  IF got = Absent THEN db ELSE [log |-> got, etag |-> got]

(* getLogDBAfterImport: a database already open is not refreshed. *)
GetLogDB(s) ==
  \/ logDB[s] # Absent /\ UNCHANGED <<logDB, faults>>
  \/ /\ logDB[s] = Absent
     /\ \E got \in {objLog, Absent} :
          /\ ReadLog(got)
          /\ logDB' = [logDB EXCEPT ![s] = ImportPersistedLog(FreshDB, got)]

Finish(s) == req' = [req EXCEPT ![s] = NoRequest]

(***************************************************************************)
(* handleQuery up to the statement's own work: the request arrives, the    *)
(* LOG database is opened if needed, and the DATA transaction gets the     *)
(* object the statement refers to.                                         *)
(***************************************************************************)
StartRequest(s, o) ==
  /\ req[s].pc = "idle"
  /\ o \in Ops
  /\ requests < MaxRequests
  /\ requests' = requests + 1
  /\ GetLogDB(s)
  /\ UNCHANGED <<objLog, stored, content, acked, clock, crashes>>

(* CREATE TABLE fails on a table the LOG database knows; OR REPLACE not. *)
BeginCreate(s, o) ==
  /\ o \in {"create", "replace"}
  /\ StartRequest(s, o)
  /\ \/ o = "create" /\ HasTable(logDB'[s].log) /\ UNCHANGED <<req, minted>>
     \/ /\ o = "replace" \/ ~HasTable(logDB'[s].log)
        /\ \E t \in TableIds \ minted :
             /\ minted' = minted \cup {t}
             /\ req' = [req EXCEPT ![s] = [NoRequest EXCEPT
                          !.pc = "import", !.op = o, !.tmp = t]]

(* INSERT into the temporary table CreateTempTable made, if any. *)
BeginInsert(s) ==
  /\ StartRequest(s, "insert")
  /\ UNCHANGED minted
  /\ \/ ~HasTable(logDB'[s].log) /\ UNCHANGED req
     \/ /\ HasTable(logDB'[s].log)
        /\ req' = [req EXCEPT ![s] = [NoRequest EXCEPT
                     !.pc = "import", !.op = "insert",
                     !.tmp = SchemaOf(logDB'[s].log)]]

(***************************************************************************)
(* SELECT and VACUUM read through a view when the LOG database lists live  *)
(* files, and otherwise from an empty temporary table.                     *)
(***************************************************************************)
BeginRead(s, o) ==
  LET l == logDB'[s].log
      r == [NoRequest EXCEPT !.op = o,
                             !.floor = IF o = "select" THEN acked ELSE {}]
  IN /\ o \in {"select", "vacuum"}
     /\ StartRequest(s, o)
     /\ UNCHANGED minted
     /\ \/ /\ FilesLive(l) # {}
           /\ req' = [req EXCEPT ![s] = [r EXCEPT !.pc = "view"]]
        \/ /\ FilesLive(l) = {} /\ HasTable(l)
           /\ req' = [req EXCEPT ![s] = [r EXCEPT
                        !.pc = IF o = "select" THEN "answer" ELSE "import",
                        !.tmp = SchemaOf(l)]]
        \/ /\ FilesLive(l) = {} /\ ~HasTable(l) /\ o = "vacuum"
           /\ req' = [req EXCEPT ![s] = [r EXCEPT !.pc = "import"]]
        \/ /\ FilesLive(l) = {} /\ ~HasTable(l) /\ o = "select"
           /\ UNCHANGED req

(* DROP TABLE: Destroy lists every file of the LOG database. *)
BeginDrop(s) ==
  /\ StartRequest(s, "drop")
  /\ UNCHANGED minted
  /\ req' = [req EXCEPT ![s] = [NoRequest EXCEPT
               !.pc = "unlink", !.op = "drop",
               !.pending = FilesAll(logDB'[s].log)]]

(***************************************************************************)
(* SELECT.                                                                 *)
(***************************************************************************)
CreateView(s) ==
  /\ req[s].pc = "view"
  /\ \/ /\ Bindable
        /\ req' = [req EXCEPT ![s].tmp = View,
                     ![s].pc = IF req[s].op = "select" THEN "bind"
                               ELSE "import"]
     \/ ~Bindable /\ Finish(s)
  /\ UNCHANGED <<objLog, stored, content, logDB, minted, acked, clock,
                 requests, faults, crashes>>

(* The query, or VACUUM's COPY, expands the view: delta_scan takes the     *)
(* version of the log that is in the bucket now.                           *)
BindView(s) ==
  /\ req[s].pc = "bind"
  /\ \/ /\ Bindable
        /\ req' = [req EXCEPT ![s].snap = objLog,
                     ![s].pc = IF req[s].op = "select" THEN "answer"
                               ELSE "copy"]
     \/ ~Bindable /\ Finish(s)
  /\ UNCHANGED <<objLog, stored, content, logDB, minted, acked, clock,
                 requests, faults, crashes>>

(* The rows the SELECT answers with; a file of the snapshot missing from   *)
(* the bucket makes it fail instead.                                       *)
Answer(s) == RowsOf(req[s].snap)

Respond(s) ==
  /\ req[s].pc = "answer"
  /\ Finish(s)
  /\ UNCHANGED <<objLog, stored, content, logDB, minted, acked, clock,
                 requests, faults, crashes>>

(***************************************************************************)
(* withPersistedLog: import, the operation, export.                        *)
(***************************************************************************)
AtImport(s, ops) ==
  /\ req[s].pc = "import"
  /\ req[s].op \in ops
  /\ UNCHANGED <<objLog, stored, content, minted, acked, clock, requests,
                 crashes>>

(* Mutant: the import refreshes log_json_etag but not the rows. *)
ImportedEtag(s, got) ==
  [logDB[s] EXCEPT !.etag = ImportPersistedLog(logDB[s], got).etag]

(* The LOG database of s as the import leaves it. *)
Imported(s, got) == ImportPersistedLog(logDB[s], got)

SetLogDB(s, l, etag) == logDB' = [logDB EXCEPT ![s] = [log |-> l, etag |-> etag]]

(* logDDL adds a metaData row. *)
LogDDL(s) ==
  /\ AtImport(s, {"create", "replace"})
  /\ req' = [req EXCEPT ![s].pc = "export"]
  /\ \E got \in {objLog, Absent} :
       /\ ReadLog(got)
       /\ SetLogDB(s, InsertMetaData(Imported(s, got).log, req[s].tmp),
                   Imported(s, got).etag)

InsertImport(s) ==
  /\ AtImport(s, {"insert"})
  /\ req' = [req EXCEPT ![s].pc = "copy"]
  /\ \E got \in {objLog, Absent} :
       /\ ReadLog(got)
       /\ logDB' = [logDB EXCEPT ![s] = Imported(s, got)]

(* Merge: delete tombstoned files if there are any, else merge. *)
MergeImport(s) ==
  /\ AtImport(s, {"vacuum"})
  /\ \E got \in {objLog, Absent} :
       LET marked == FilesMarkedRemove(Imported(s, got).log, clock, TTL) IN
       /\ ReadLog(got)
       /\ logDB' = [logDB EXCEPT ![s] = Imported(s, got)]
       /\ req' = [req EXCEPT
                    ![s].pending = marked,
                    ![s].pc = IF marked # {} THEN "purge"
                              ELSE IF req[s].tmp = View THEN "bind" ELSE "copy"]

(***************************************************************************)
(* CopyToLoggedPaquet writes what the DATA transaction holds under the     *)
(* table's name to a new parquet object; the row is then added to the LOG  *)
(* database.                                                               *)
(***************************************************************************)
NewContent(s, f) ==
  CASE req[s].op = "insert" -> [rows |-> {f}, table |-> req[s].tmp]
    [] req[s].tmp = View -> [rows  |-> RowsOf(req[s].snap),
                             table |-> SchemaOf(req[s].snap)]
    [] OTHER -> [rows |-> {}, table |-> req[s].tmp]

(* The DATA transaction holds the name and its files can be read. *)
Copyable(s) ==
  /\ req[s].tmp # Absent
  /\ req[s].tmp = View => FilesLive(req[s].snap) \subseteq stored

Copy(s) ==
  /\ req[s].pc = "copy"
  /\ Copyable(s)
  /\ \E f \in Files :
       /\ WriteParquet(f, NewContent(s, f))
       /\ LET l == logDB[s].log IN
          SetLogDB(s, IF req[s].op = "insert" THEN InsertAdd(l, f)
                      ELSE MergeEvents(l, f, clock),
                   logDB[s].etag)
       /\ req' = [req EXCEPT ![s].pc = "export", ![s].file = f]
  /\ UNCHANGED <<objLog, minted, acked, clock, requests, faults, crashes>>

(* The copy fails: nothing to read, COPY failed, or Stat failed after it. *)
CopyFails(s) ==
  /\ req[s].pc = "copy"
  /\ \/ ~Copyable(s) /\ UNCHANGED <<stored, content, faults>>
     \/ Fault("copy") /\ UNCHANGED <<stored, content>>
     \/ /\ Copyable(s)
        /\ Fault("copy")
        /\ \E f \in Files : WriteParquet(f, NewContent(s, f))
  /\ Finish(s)
  /\ UNCHANGED <<objLog, logDB, minted, acked, clock, requests, crashes>>

(***************************************************************************)
(* Export writes the LOG database over the log object.  A failed export    *)
(* leaves the unpersisted rows in the LOG database.                        *)
(***************************************************************************)
ExportWrites(s) ==
  /\ req[s].pc = "export"
  /\ Matches(logDB[s].etag)
  /\ objLog' = logDB[s].log
  /\ Finish(s)
  /\ UNCHANGED <<stored, content, logDB, minted, clock, requests, crashes>>

(* Mutant: the file of any statement counts as acknowledged rows. *)
ExportAcksAll(s) ==
  /\ ExportWrites(s)
  /\ acked' = acked \cup {req[s].file}
  /\ UNCHANGED faults

Export(s) ==
  /\ ExportWrites(s)
  /\ acked' = IF req[s].op = "insert" THEN acked \cup {req[s].file} ELSE acked
  /\ UNCHANGED faults

ExportAnswerLost(s) ==
  /\ ExportWrites(s)
  /\ Fault("lost")
  /\ UNCHANGED acked

ExportFails(s) ==
  /\ req[s].pc = "export"
  /\ \/ ~Matches(logDB[s].etag) /\ UNCHANGED faults
     \/ Fault("write")
  /\ Finish(s)
  /\ UNCHANGED <<objLog, stored, content, logDB, minted, acked, clock,
                 requests, crashes>>

(***************************************************************************)
(* Deleting objects: the tombstoned files of a VACUUM, the files of a      *)
(* dropped table, and at last its log.  A failed delete of a parquet       *)
(* object is logged and skipped.                                           *)
(***************************************************************************)
Delete(f) ==
  \/ stored' = stored \ {f} /\ UNCHANGED faults
  \/ Fault("delete") /\ UNCHANGED stored

(* Mutant: the purge does not go on after its last file. *)
PurgeFileStays(s) ==
  /\ req[s].pc = "purge"
  /\ \E f \in req[s].pending :
       /\ req' = [req EXCEPT ![s].pending = @ \ {f}]
       /\ Delete(f)
  /\ UNCHANGED <<objLog, content, logDB, minted, acked, clock, requests,
                 crashes>>

PurgeFile(s) ==
  /\ req[s].pc = "purge"
  /\ \E f \in req[s].pending :
       /\ req' = [req EXCEPT
                    ![s].pending = @ \ {f},
                    ![s].pc = IF req[s].pending = {f} THEN "export" ELSE @]
       /\ Delete(f)
  /\ UNCHANGED <<objLog, content, logDB, minted, acked, clock, requests,
                 crashes>>

(* Destroy deletes the files while the log still lists them: the rows are  *)
(* gone before the table is.                                               *)
DropFile(s) ==
  /\ req[s].pc = "unlink"
  /\ \E f \in req[s].pending :
       /\ req' = [req EXCEPT ![s].pending = @ \ {f}]
       /\ Delete(f)
  /\ acked' = IF stored' = stored THEN acked
              ELSE acked \cap RowsHeld(objLog, stored')
  /\ UNCHANGED <<objLog, content, logDB, minted, clock, requests, crashes>>

DeleteLog(s) ==
  /\ req[s].pc = "unlink"
  /\ req[s].pending = {}
  /\ logDB' = [logDB EXCEPT ![s] = Absent]
  /\ \/ objLog' = Absent /\ acked' = {} /\ UNCHANGED faults
     \/ Fault("delete") /\ UNCHANGED <<objLog, acked>>
  /\ Finish(s)
  /\ UNCHANGED <<stored, content, minted, clock, requests, crashes>>

(***************************************************************************)
(* The environment.                                                        *)
(***************************************************************************)
Crash(s) ==
  /\ crashes < MaxCrashes
  /\ req[s] # NoRequest \/ logDB[s] # Absent
  /\ crashes' = crashes + 1
  /\ logDB' = [logDB EXCEPT ![s] = Absent]
  /\ Finish(s)
  /\ UNCHANGED <<objLog, stored, content, minted, acked, clock, requests,
                 faults>>

Tick ==
  /\ clock < MaxClock
  /\ clock' = clock + 1
  /\ UNCHANGED <<objLog, stored, content, logDB, req, minted, acked,
                 requests, faults, crashes>>

(* No request is being handled: the system may rest. *)
Rest ==
  /\ \A s \in Servers : req[s].pc = "idle"
  /\ UNCHANGED vars

Begin(s) ==
  \/ \E o \in AllOps : BeginCreate(s, o) \/ BeginRead(s, o)
  \/ BeginInsert(s)
  \/ BeginDrop(s)

(* The steps of a request under way. *)
Step(s) ==
  \/ CreateView(s)
  \/ BindView(s)
  \/ Respond(s)
  \/ LogDDL(s)
  \/ InsertImport(s)
  \/ MergeImport(s)
  \/ Copy(s)
  \/ CopyFails(s)
  \/ Export(s)
  \/ ExportAnswerLost(s)
  \/ ExportFails(s)
  \/ PurgeFile(s)
  \/ DropFile(s)
  \/ DeleteLog(s)

Next ==
  \/ \E s \in Servers : Begin(s) \/ Step(s) \/ Crash(s)
  \/ Tick
  \/ Rest

Spec == Init /\ [][Next]_vars

(* A handler runs to its end unless its server crashes. *)
FairSpec == Spec /\ \A s \in Servers : WF_vars(Step(s))

-----------------------------------------------------------------------------
(***************************************************************************)
(* Properties.                                                             *)
(***************************************************************************)

(* Every variable has the shape the code gives it. *)
TypeOK ==
  /\ objLog \in Log \cup {Absent}
  /\ stored \in SUBSET Files
  /\ content \in [Files -> Content \cup {Absent}]
  /\ logDB \in [Servers -> DB \cup {Absent}]
  /\ req \in [Servers -> Request]
  /\ minted \in SUBSET TableIds
  /\ acked \in SUBSET Files
  /\ {clock, requests, faults, crashes} \subseteq Nat

(* A row whose INSERT was answered with success stays, listed by the log   *)
(* and held by the bucket, until a DROP destroys it, whatever the other    *)
(* servers commit (Export), merge (Merge) and delete.                      *)
AckedRowsDurable == acked \subseteq RowsHeld(objLog, stored)

(* The committed log lists as live only parquet objects that the bucket    *)
(* holds: Merge deletes no object that readers still need.                 *)
LiveFilesPresent == objLog # Absent => FilesLive(objLog) \subseteq stored

(* An object the committed log names is missing from the bucket only once  *)
(* a committed tombstone for it is TTL_SECONDS old: a purge never acts on  *)
(* rows of a LOG database that were not persisted (listFiles, Merge).      *)
MissingFilesExpired ==
  objLog # Absent =>
    \A f \in FilesAll(objLog) \ stored :
      \E r \in objLog.remove : r.path = f /\ r.at + TTL <= clock

(* No inserted row is in two live files: a VACUUM interleaved with         *)
(* INSERTs and other VACUUMs does not duplicate rows (merge.sql).          *)
NoRowTwice ==
  objLog # Absent =>
    \A f, g \in FilesLive(objLog) :
      f # g => content[f].rows \cap content[g].rows = {}

(* Every live file was written with the schema of the incarnation of the   *)
(* table that the log describes (CreateTempTable, Insert).                 *)
FilesMatchTable ==
  objLog # Absent =>
    \A f \in FilesLive(objLog) : content[f].table = SchemaOf(objLog)

(* A SELECT answers with every row that was acknowledged before it began   *)
(* and not dropped since, on whichever server it runs (handleQuery).       *)
ReadsSeeAckedRows ==
  \A s \in Servers :
    req[s].pc = "answer" => req[s].floor \cap acked \subseteq Answer(s)

(* When no failure happened, a DROP TABLE that has finished leaves no      *)
(* parquet object behind (Destroy).                                        *)
DropLeavesNothing ==
  ( /\ objLog = Absent
    /\ faults = 0 /\ crashes = 0
    /\ \A s \in Servers : req[s].pc = "idle" )
  => stored = {}

(* A VACUUM that finds several live files to merge does not spend itself   *)
(* on tombstones whose files are deleted already (Merge, phase 1).         *)
PurgeFindsWork ==
  [][\A s \in Servers :
       req[s].pc = "import" /\ req'[s].pc = "purge"
         => \/ req'[s].pending \cap stored # {}
            \/ \A f, g \in FilesLive(logDB'[s].log) : f = g]_vars

(* The log object only ever gains rows while the table exists: no Export   *)
(* overwrites a row that another server committed.                         *)
LogOnlyGrows ==
  [][objLog # Absent /\ objLog' # Absent => Extends(objLog', objLog)]_vars

(* The commit of a VACUUM leaves the rows of the table as they are.        *)
MergePreservesRows ==
  [][\A s \in Servers :
       req[s].op = "vacuum" /\ req[s].pc = "export" /\ req'[s].pc = "idle"
         => RowsOf(objLog)' = RowsOf(objLog)]_vars

(* The servers together behave as one table, as module Table has it: no    *)
(* reader ever sees half of a CREATE, an INSERT or a VACUUM, and half of a *)
(* DROP (Destroy) is a table whose SELECT fails until it is dropped again. *)
(* A table can be read when the bucket holds its live files.               *)
Readable == objLog = Absent \/ FilesLive(objLog) \subseteq stored

T == INSTANCE Table WITH
       Rows     <- Files,
       Schemas  <- TableIds,
       NoSchema <- Absent,
       exists   <- objLog # Absent,
       dropping <- \E s \in Servers : req[s].pc = "unlink",
       torn     <- ~Readable,
       schema   <- IF objLog = Absent THEN Absent ELSE SchemaOf(objLog),
       rows     <- IF Readable THEN RowsOf(objLog) ELSE {},
       acked    <- acked

ImplementsTable == T!Spec

(* Every request is answered: no handler waits forever. *)
RequestsFinish ==
  \A s \in Servers : req[s].pc # "idle" ~> req[s].pc = "idle"

=============================================================================
