-------------------------- MODULE OneServerProofs ---------------------------
(***************************************************************************)
(* Proofs about one server and every statement, CREATE TABLE and DROP      *)
(* TABLE included, when a failed GetObject of the log is not taken for a   *)
(* missing log.  All other failures and restarts are allowed.              *)
(***************************************************************************)
EXTENDS SharedTableProofs

(* One server works on the bucket and can read the log. *)
OneServer ==
  /\ \E s : Servers = {s}
  /\ "read" \notin FaultKinds

-----------------------------------------------------------------------------
(***************************************************************************)
(* The inductive invariant.  Between two requests the LOG database of the  *)
(* server may be ahead of the bucket (an export failed) or have an old     *)
(* ETag (the answer of an export was lost), but it knows every table that  *)
(* the bucket holds, with the same schema.  An import gives it the         *)
(* committed log, and no other server commits before its export.           *)
(***************************************************************************)

(* Every live file of l was written with the schema l gives the table. *)
SchemaOK(l) == \A f \in FilesLive(l) : content[f].table = SchemaOf(l)

BucketOK ==
  /\ objLog # Absent =>
       HasTable(objLog) /\ TombstonesAdded(objLog) /\ SchemaOK(objLog)
  /\ AckedRowsListed
  /\ \A f \in Written : content[f].rows \subseteq Written

(* The LOG database, whether a request is under way or not. *)
DatabaseOK(s) ==
  LET db == logDB[s] IN
  db # Absent =>
    /\ TombstonesAdded(db.log) /\ SchemaOK(db.log)
    /\ ~HasTable(db.log) => FilesAll(db.log) = {}
    /\ objLog = Absent => db.etag = Absent
    /\ objLog # Absent =>
         /\ HasTable(db.log) /\ SchemaOf(db.log) = SchemaOf(objLog)
         /\ FilesLive(db.log) = {} => FilesLive(objLog) = {}

(* What an import leaves: the committed log, if there is one. *)
UpToDate(s) ==
  /\ logDB[s].etag = objLog
  /\ objLog # Absent => logDB[s].log = objLog

(* What a VACUUM reads: the view, an empty table, or nothing. *)
ReadsTable(s) ==
  LET r == req[s]  l == logDB[s].log IN
  \/ r.tmp = View /\ objLog # Absent
  \/ /\ r.tmp \in TableIds
     /\ HasTable(l) /\ r.tmp = SchemaOf(l) /\ FilesLive(l) = {}
  \/ r.tmp = Absent /\ ~HasTable(l)

(* What the steps of a request have established when it is at pc. *)
ProgressOK(s) ==
  LET r == req[s]  db == logDB[s] IN
  /\ r.pc = "bind" =>
       r.tmp = View /\ objLog # Absent /\ r.op \in {"select", "vacuum"}
  /\ r.pc \in {"copy", "purge"} \/ (r.pc = "bind" /\ r.op = "vacuum")
       => UpToDate(s)
  /\ r.pc \in {"import", "copy"} /\ r.op = "insert"
       => HasTable(db.log) /\ r.tmp = SchemaOf(db.log)
  /\ r.pc \in {"import", "copy"} /\ r.op = "vacuum" => ReadsTable(s)
  /\ r.pc = "copy" => r.op \in {"insert", "vacuum"}
  /\ r.pc = "copy" /\ r.tmp = View => r.snap = objLog
  /\ r.pc = "purge" => r.op = "vacuum" /\ HasTable(db.log)
  /\ r.pc = "unlink" => r.op = "drop"
  /\ r.pc = "answer" =>
       r.op = "select" /\ r.floor \cap acked \subseteq RowsOf(r.snap)
  /\ r.pc = "export" =>
       /\ db.etag = objLog
       /\ HasTable(db.log)
       /\ NewRows(s) \subseteq RowsOf(db.log)
       /\ objLog # Absent =>
            /\ Extends(db.log, objLog)
            /\ RowsOf(db.log) = RowsOf(objLog) \cup NewRows(s)
            /\ NewRows(s) \cap RowsOf(objLog) = {}

(* Before a failure, every object in the bucket is in the log that a DROP  *)
(* would read the list of files from.                                      *)
ObjectsListed(s) ==
  LET r == req[s]  db == logDB[s] IN
  /\ r.pc = "unlink" => stored \subseteq r.pending
  /\ r.pc = "export" => stored \subseteq FilesAll(db.log)
  /\ r.pc \notin {"unlink", "export"} =>
       /\ stored \subseteq (IF objLog = Absent THEN {} ELSE FilesAll(objLog))
       /\ db # Absent =>
            IF objLog = Absent THEN ~HasTable(db.log)
            ELSE FilesAll(objLog) \subseteq FilesAll(db.log)

OneInv ==
  /\ TypeInv
  /\ BucketOK
  /\ \A s \in Servers : DatabaseOK(s) /\ ProgressOK(s)
  /\ faults = 0 /\ crashes = 0 => \A s \in Servers : ObjectsListed(s)

-----------------------------------------------------------------------------
(***************************************************************************)
(* The parts of the invariant depend on some variables only.               *)
(***************************************************************************)

(* There is no other server. *)
LEMMA OnlyServer ==
  ASSUME OneServer, NEW s \in Servers
  PROVE  \A t \in Servers : t = s
BY DEF OneServer

(* A step preserves the invariant when it does so for its server. *)
LEMMA OneServerInv ==
  ASSUME OneServer, NEW s \in Servers,
         TypeInv', BucketOK', DatabaseOK(s)', ProgressOK(s)',
         faults' = 0 /\ crashes' = 0 => ObjectsListed(s)'
  PROVE  OneInv'
<1>1. \A t \in Servers : t = s
  BY OnlyServer
<1> QED BY <1>1 DEF OneInv

(* The logs of a state that satisfies the invariant. *)
LEMMA OneLogs ==
  ASSUME OneInv, NEW s \in Servers
  PROVE  /\ objLog # Absent => objLog \in Log /\ objLog.add \subseteq Written
         /\ logDB[s] # Absent =>
              logDB[s].log \in Log /\ logDB[s].log.add \subseteq Written
BY DEF OneInv, TypeInv, TypeOK, LogsListWritten, DB

(* What the bucket holds changes with its log and the files written. *)
LEMMA BucketUnchanged ==
  ASSUME BucketOK, UNCHANGED <<objLog, content>>, acked' \subseteq acked
  PROVE  BucketOK'
<1>1. SchemaOK(objLog)' <=> SchemaOK(objLog)
  BY DEF SchemaOK
<1>2. RowsOf(objLog)' = RowsOf(objLog) /\ Written' = Written
  BY DEF RowsOf, Written
<1> QED BY <1>1, <1>2 DEF BucketOK, AckedRowsListed

(* A LOG database stays in order while log and files are the same. *)
LEMMA DatabaseUnchanged ==
  ASSUME NEW s \in Servers, DatabaseOK(s), logDB'[s] = logDB[s],
         UNCHANGED <<objLog, content>>
  PROVE  DatabaseOK(s)'
BY DEF DatabaseOK, SchemaOK

(* The end of a request that leaves log, files and LOG database. *)
LEMMA OneFinish ==
  ASSUME OneServer, OneInv, TypeInv', NEW s \in Servers, Finish(s),
         UNCHANGED <<objLog, content, acked, logDB>>,
         faults' = 0 /\ crashes' = 0 =>
           /\ faults = 0 /\ crashes = 0 /\ UNCHANGED stored
           /\ req[s].pc \notin {"unlink", "export"}
  PROVE  OneInv'
<1>1. req'[s].pc = "idle"
  BY DEF Finish, NoRequest, OneInv, TypeInv, TypeOK
<1>2. ProgressOK(s)'
  BY <1>1 DEF ProgressOK
<1>3. BucketOK' /\ DatabaseOK(s)'
  BY BucketUnchanged, DatabaseUnchanged DEF OneInv
<1>4. faults' = 0 /\ crashes' = 0 => ObjectsListed(s)'
  BY <1>1 DEF OneInv, ObjectsListed
<1> QED BY <1>2, <1>3, <1>4, OneServerInv

-----------------------------------------------------------------------------
(***************************************************************************)
(* Requests arrive.                                                        *)
(***************************************************************************)

(* The log can be read: what a read gets is what the bucket holds. *)
LEMMA ReadsCommitted ==
  ASSUME OneServer, NEW got \in {objLog, Absent}, ReadLog(got)
  PROVE  got = objLog /\ UNCHANGED faults
BY DEF OneServer, ReadLog, Fault

(* A request that arrives finds or opens a LOG database that is in order   *)
(* and, before a failure, lists every object in the bucket.                *)
LEMMA OneRequestStarted ==
  ASSUME OneServer, OneInv, NEW s \in Servers, NEW o, StartRequest(s, o)
  PROVE  /\ DatabaseOK(s)' /\ logDB'[s] # Absent
         /\ logDB'[s].log \in Log
         /\ UNCHANGED <<objLog, stored, content, acked, faults, crashes>>
         /\ req[s].pc = "idle"
         /\ objLog # Absent \/ faults # 0 \/ crashes # 0 \/ 
              ( stored = {} /\ ~HasTable(logDB'[s].log) )
         /\ objLog = Absent \/ faults # 0 \/ crashes # 0 \/
              ( /\ stored \subseteq FilesAll(objLog)
                /\ FilesAll(objLog) \subseteq FilesAll(logDB'[s].log) )
<1> USE ConstantsAssumption
<1>1. /\ GetLogDB(s) /\ req[s].pc = "idle"
      /\ UNCHANGED <<objLog, stored, content, acked, crashes>>
  BY DEF StartRequest
<1>2. logDB'[s] # Absent /\ logDB'[s].log \in Log
  BY <1>1, GetLogDBType DEF OneInv
<1>3. DatabaseOK(s) /\ (faults = 0 /\ crashes = 0 => ObjectsListed(s))
  BY DEF OneInv
<1>4. CASE logDB[s] # Absent /\ UNCHANGED <<logDB, faults>>
  <2>1. DatabaseOK(s)'
    BY <1>1, <1>3, <1>4, DatabaseUnchanged
  <2> QED BY <1>1, <1>2, <1>3, <1>4, <2>1 DEF ObjectsListed
<1>5. CASE \E got \in {objLog, Absent} :
             /\ ReadLog(got)
             /\ logDB' = [logDB EXCEPT ![s] = ImportPersistedLog(FreshDB, got)]
  <2>1. /\ logDB' = [logDB EXCEPT ![s] = ImportPersistedLog(FreshDB, objLog)]
        /\ UNCHANGED faults
    BY <1>5, ReadsCommitted
  <2>2. logDB'[s] = ImportPersistedLog(FreshDB, objLog)
    BY <2>1 DEF OneInv, TypeInv, TypeOK
  <2>3. CASE objLog = Absent
    <3>1. logDB'[s] = FreshDB
      BY <2>2, <2>3 DEF ImportPersistedLog
    <3>2. /\ ~HasTable(EmptyLog) /\ FilesAll(EmptyLog) = {}
          /\ FilesLive(EmptyLog) = {} /\ TombstonesAdded(EmptyLog)
      BY DEF HasTable, FilesAll, FilesLive, TombstonesAdded, Removed, EmptyLog
    <3>3. logDB'[s].log = EmptyLog /\ logDB'[s].etag = Absent
      BY <3>1 DEF FreshDB
    <3>4. DatabaseOK(s)'
      BY <1>1, <2>3, <3>2, <3>3 DEF DatabaseOK, SchemaOK
    <3> QED BY <1>1, <1>2, <1>3, <2>1, <2>3, <3>2, <3>3, <3>4 DEF ObjectsListed
  <2>4. CASE objLog # Absent
    <3>1. logDB'[s].log = objLog /\ logDB'[s].etag = objLog
      BY <2>2, <2>4 DEF ImportPersistedLog
    <3>2. HasTable(objLog) /\ TombstonesAdded(objLog) /\ SchemaOK(objLog)
      BY <2>4 DEF OneInv, BucketOK
    <3>3. DatabaseOK(s)'
      BY <1>1, <2>4, <3>1, <3>2 DEF DatabaseOK, SchemaOK
    <3> QED BY <1>1, <1>2, <1>3, <2>1, <2>4, <3>1, <3>3 DEF ObjectsListed
  <2> QED BY <2>3, <2>4
<1> QED BY <1>1, <1>4, <1>5 DEF GetLogDB

(* A request that arrives preserves the invariant when it is in order. *)
LEMMA OneArrival ==
  ASSUME OneServer, OneInv, TypeInv', NEW s \in Servers, NEW o,
         StartRequest(s, o), ProgressOK(s)',
         req'[s].pc # "export",
         req'[s].pc = "unlink" => req'[s].pending = FilesAll(logDB'[s].log)
  PROVE  OneInv'
<1>1. /\ DatabaseOK(s)' /\ UNCHANGED <<objLog, stored, content, acked, faults, crashes>>
      /\ objLog # Absent \/ faults # 0 \/ crashes # 0 \/ 
              ( stored = {} /\ ~HasTable(logDB'[s].log) )
      /\ objLog = Absent \/ faults # 0 \/ crashes # 0 \/
              ( /\ stored \subseteq FilesAll(objLog)
                /\ FilesAll(objLog) \subseteq FilesAll(logDB'[s].log) )
  BY OneRequestStarted
<1>2. BucketOK'
  BY <1>1, BucketUnchanged DEF OneInv
<1>3. faults' = 0 /\ crashes' = 0 => ObjectsListed(s)'
  BY <1>1 DEF ObjectsListed
<1> QED BY <1>1, <1>2, <1>3, OneServerInv

(* The arrival of a request preserves the invariant. *)
LEMMA OneBegin ==
  ASSUME OneServer, OneInv, TypeInv', NEW s \in Servers, Begin(s)
  PROVE  OneInv'
<1> USE ConstantsAssumption
<1>1. ASSUME NEW o, StartRequest(s, o), UNCHANGED req PROVE OneInv'
  <2>1. req'[s].pc = "idle"
    BY <1>1, OneRequestStarted
  <2>2. ProgressOK(s)'
    BY <2>1 DEF ProgressOK
  <2> QED BY <1>1, <2>1, <2>2, OneArrival
<1>2. ASSUME NEW r, req' = [req EXCEPT ![s] = r] PROVE req'[s] = r
  BY <1>2 DEF OneInv, TypeInv, TypeOK
<1>3. ASSUME NEW o \in AllOps, BeginCreate(s, o) PROVE OneInv'
  <2>1. StartRequest(s, o) /\ o \in {"create", "replace"}
    BY <1>3 DEF BeginCreate
  <2>2. CASE UNCHANGED req
    BY <1>1, <2>1, <2>2
  <2>3. CASE \E t \in TableIds \ minted :
               req' = [req EXCEPT ![s] = [NoRequest EXCEPT
                            !.pc = "import", !.op = o, !.tmp = t]]
    <3>1. PICK t : req'[s] = [NoRequest EXCEPT
                            !.pc = "import", !.op = o, !.tmp = t]
      BY <1>2, <2>3
    <3>2. req'[s].pc = "import" /\ req'[s].op = o
      BY <3>1 DEF NoRequest
    <3>3. ProgressOK(s)'
      BY <2>1, <3>2 DEF ProgressOK
    <3> QED BY <2>1, <3>2, <3>3, OneArrival
  <2> QED BY <1>3, <2>2, <2>3 DEF BeginCreate
<1>4. ASSUME BeginInsert(s) PROVE OneInv'
  <2> DEFINE o == "insert"
             l == logDB'[s].log
  <2>1. StartRequest(s, o)
    BY <1>4 DEF BeginInsert
  <2>2. CASE UNCHANGED req
    BY <1>1, <2>1, <2>2
  <2>3. CASE /\ HasTable(l)
             /\ req' = [req EXCEPT ![s] = [NoRequest EXCEPT
                          !.pc = "import", !.op = "insert", !.tmp = SchemaOf(l)]]
    <3>1. req'[s] = [NoRequest EXCEPT
                       !.pc = "import", !.op = "insert", !.tmp = SchemaOf(l)]
      BY <1>2, <2>3
    <3>2. /\ req'[s].pc = "import" /\ req'[s].op = "insert"
          /\ req'[s].tmp = SchemaOf(l)
      BY <3>1 DEF NoRequest
    <3>3. ProgressOK(s)'
      BY <2>3, <3>2 DEF ProgressOK
    <3> QED BY <2>1, <3>2, <3>3, OneArrival
  <2> QED BY <1>4, <2>2, <2>3 DEF BeginInsert
<1>5. ASSUME NEW o \in AllOps, BeginRead(s, o) PROVE OneInv'
  <2> DEFINE l == logDB'[s].log
             floor == IF o = "select" THEN acked ELSE {}
             r == [NoRequest EXCEPT !.op = o, !.floor = floor]
             next == IF o = "select" THEN "answer" ELSE "import"
  <2>1. StartRequest(s, o) /\ o \in {"select", "vacuum"}
    BY <1>5 DEF BeginRead
  <2>2. /\ DatabaseOK(s)' /\ logDB'[s] # Absent /\ l \in Log
        /\ UNCHANGED <<objLog, content, acked>>
    BY <2>1, OneRequestStarted
  <2>3. CASE UNCHANGED req
    BY <1>1, <2>1, <2>3
  <2>4. CASE req' = [req EXCEPT ![s] = [r EXCEPT !.pc = "view"]]
    <3>1. req'[s] = [r EXCEPT !.pc = "view"]
      BY <1>2, <2>4
    <3>2. req'[s].pc = "view"
      BY <3>1 DEF NoRequest
    <3>3. ProgressOK(s)'
      BY <3>2 DEF ProgressOK
    <3> QED BY <2>1, <3>2, <3>3, OneArrival
  <2>5. CASE /\ FilesLive(l) = {} /\ HasTable(l)
             /\ req' = [req EXCEPT ![s] = [r EXCEPT
                          !.pc = next, !.tmp = SchemaOf(l)]]
    <3>1. req'[s] = [r EXCEPT !.pc = next, !.tmp = SchemaOf(l)]
      BY <1>2, <2>5
    <3>2. /\ req'[s].pc = next /\ req'[s].op = o /\ req'[s].tmp = SchemaOf(l)
          /\ req'[s].floor = floor /\ req'[s].snap = Absent
      BY <3>1 DEF NoRequest
    <3>3. SchemaOf(l) \in TableIds
      BY <2>2, <2>5, LogQueries
    <3>4. acked' \subseteq {}
      <4>1. objLog # Absent => FilesLive(objLog) = {}
        BY <2>2, <2>5 DEF DatabaseOK
      <4>2. RowsOf(objLog) = {}
        BY <4>1 DEF RowsOf
      <4> QED BY <2>2, <4>2 DEF OneInv, BucketOK, AckedRowsListed
    <3>5. CASE o = "select"
      <4>1. ProgressOK(s)'
        BY <3>2, <3>4, <3>5 DEF ProgressOK
      <4> QED BY <2>1, <3>2, <3>5, <4>1, OneArrival
    <3>6. CASE o = "vacuum"
      <4>1. ReadsTable(s)'
        BY <2>5, <3>2, <3>3 DEF ReadsTable
      <4>2. ProgressOK(s)'
        BY <3>2, <3>6, <4>1 DEF ProgressOK
      <4> QED BY <2>1, <3>2, <3>6, <4>2, OneArrival
    <3> QED BY <2>1, <3>5, <3>6
  <2>6. CASE /\ ~HasTable(l) /\ o = "vacuum"
             /\ req' = [req EXCEPT ![s] = [r EXCEPT !.pc = "import"]]
    <3>1. req'[s] = [r EXCEPT !.pc = "import"]
      BY <1>2, <2>6
    <3>2. req'[s].pc = "import" /\ req'[s].op = o /\ req'[s].tmp = Absent
      BY <3>1 DEF NoRequest
    <3>3. ReadsTable(s)'
      BY <2>6, <3>2 DEF ReadsTable
    <3>4. ProgressOK(s)'
      BY <2>6, <3>2, <3>3 DEF ProgressOK
    <3> QED BY <2>1, <3>2, <3>4, OneArrival
  <2> QED BY <1>5, <2>3, <2>4, <2>5, <2>6 DEF BeginRead
<1>6. ASSUME BeginDrop(s) PROVE OneInv'
  <2> DEFINE o == "drop"
             p == FilesAll(logDB'[s].log)
  <2>1. StartRequest(s, o)
    BY <1>6 DEF BeginDrop
  <2>2. req'[s] = [NoRequest EXCEPT
                     !.pc = "unlink", !.op = "drop", !.pending = p]
    BY <1>2, <1>6 DEF BeginDrop
  <2>3. req'[s].pc = "unlink" /\ req'[s].op = "drop" /\ req'[s].pending = p
    BY <2>2 DEF NoRequest
  <2>4. ProgressOK(s)'
    BY <2>3 DEF ProgressOK
  <2> QED BY <2>1, <2>3, <2>4, OneArrival
<1> QED BY <1>3, <1>4, <1>5, <1>6 DEF Begin

-----------------------------------------------------------------------------
(***************************************************************************)
(* The steps of a request.                                                 *)
(***************************************************************************)

(* A step that leaves the bucket and the LOG database as they are. *)
LEMMA OneQuietStep ==
  ASSUME OneServer, OneInv, TypeInv', NEW s \in Servers,
         UNCHANGED <<objLog, stored, content, acked, logDB, faults, crashes>>,
         ProgressOK(s)',
         {req[s].pc, req'[s].pc} \cap {"unlink", "export"} = {}
  PROVE  OneInv'
<1>1. BucketOK' /\ DatabaseOK(s)'
  BY BucketUnchanged, DatabaseUnchanged DEF OneInv
<1>2. faults' = 0 /\ crashes' = 0 => ObjectsListed(s)'
  BY DEF OneInv, ObjectsListed
<1> QED BY <1>1, <1>2, OneServerInv

(* The steps that open and read the view preserve the invariant. *)
LEMMA OneReadSteps ==
  ASSUME OneServer, OneInv, TypeInv', NEW s \in Servers,
         CreateView(s) \/ BindView(s) \/ Respond(s)
  PROVE  OneInv'
<1> USE ConstantsAssumption
<1>1. /\ UNCHANGED <<objLog, stored, content, logDB, minted, acked, clock,
                     requests, faults, crashes>>
      /\ req[s].pc \in {"view", "bind", "answer"}
  BY DEF CreateView, BindView, Respond
<1>2. CASE Finish(s)
  BY <1>1, <1>2, OneFinish
<1>3. /\ ProgressOK(s) /\ RequestOK(s) /\ req \in [Servers -> Request]
  BY DEF OneInv, TypeInv, TypeOK
<1>4. CASE /\ req[s].pc = "view" /\ Bindable
           /\ req' = [req EXCEPT ![s].tmp = View,
                        ![s].pc = IF req[s].op = "select" THEN "bind"
                                  ELSE "import"]
  <2>1. /\ req'[s].tmp = View /\ req'[s].op = req[s].op
        /\ req'[s].pc = IF req[s].op = "select" THEN "bind" ELSE "import"
    BY <1>3, <1>4 DEF Request
  <2>2. req[s].op \in {"select", "vacuum"} /\ objLog # Absent
    BY <1>3, <1>4 DEF RequestOK, Bindable
  <2>3. CASE req[s].op = "select"
    <3>1. ProgressOK(s)'
      BY <1>1, <2>1, <2>2, <2>3 DEF ProgressOK
    <3> QED BY <1>1, <2>1, <2>3, <3>1, OneQuietStep
  <2>4. CASE req[s].op = "vacuum"
    <3>1. ReadsTable(s)'
      BY <1>1, <2>1, <2>2 DEF ReadsTable
    <3>2. ProgressOK(s)'
      BY <2>1, <2>4, <3>1 DEF ProgressOK
    <3> QED BY <1>1, <2>1, <2>4, <3>2, OneQuietStep
  <2> QED BY <2>2, <2>3, <2>4
<1>5. CASE /\ req[s].pc = "bind" /\ Bindable
           /\ req' = [req EXCEPT ![s].snap = objLog,
                        ![s].pc = IF req[s].op = "select" THEN "answer"
                                  ELSE "copy"]
  <2>1. /\ req'[s].tmp = req[s].tmp /\ req'[s].op = req[s].op
        /\ req'[s].snap = objLog /\ req'[s].floor = req[s].floor
        /\ req'[s].pc = IF req[s].op = "select" THEN "answer" ELSE "copy"
    BY <1>3, <1>5 DEF Request
  <2>2. /\ req[s].op \in {"select", "vacuum"} /\ req[s].tmp = View
        /\ objLog # Absent /\ (req[s].op = "vacuum" => UpToDate(s))
    BY <1>3, <1>5 DEF ProgressOK
  <2>3. CASE req[s].op = "select"
    <3>1. acked' \subseteq RowsOf(objLog)
      BY <1>1 DEF OneInv, BucketOK, AckedRowsListed
    <3>2. RowsOf(req[s].snap)' = RowsOf(objLog)
      BY <1>1, <2>1 DEF RowsOf
    <3>3. req'[s].floor \cap acked' \subseteq RowsOf(req[s].snap)'
      BY <3>1, <3>2
    <3>4. ProgressOK(s)'
      BY <2>1, <2>3, <3>3 DEF ProgressOK
    <3> QED BY <1>1, <2>1, <2>3, <3>4, OneQuietStep
  <2>4. CASE req[s].op = "vacuum"
    <3>1. ReadsTable(s)' /\ UpToDate(s)'
      BY <1>1, <2>1, <2>2, <2>4 DEF ReadsTable, UpToDate
    <3>2. ProgressOK(s)'
      BY <1>1, <2>1, <2>4, <3>1 DEF ProgressOK
    <3> QED BY <1>1, <2>1, <2>4, <3>2, OneQuietStep
  <2> QED BY <2>2, <2>3, <2>4
<1> QED BY <1>2, <1>4, <1>5 DEF CreateView, BindView, Respond

(* An import keeps what the server knew of the table and lists, before a   *)
(* failure, every object in the bucket.                                    *)
LEMMA OneImported ==
  ASSUME OneInv, NEW s \in Servers, req[s].pc = "import"
  PROVE  LET db == Imported(s, objLog)  l == logDB[s].log IN
         /\ logDB[s] # Absent /\ db \in DB /\ db.log \in Log
         /\ db.etag = objLog
         /\ objLog # Absent => db.log = objLog
         /\ TombstonesAdded(db.log) /\ SchemaOK(db.log)
         /\ ~HasTable(db.log) => FilesAll(db.log) = {} /\ ~HasTable(l)
         /\ HasTable(l) => HasTable(db.log) /\ SchemaOf(db.log) = SchemaOf(l)
         /\ ~HasTable(l) => ~HasTable(db.log)
         /\ FilesLive(l) = {} => FilesLive(db.log) = {}
         /\ faults = 0 /\ crashes = 0 =>
              /\ stored \subseteq FilesAll(db.log)
              /\ objLog = Absent => stored = {} /\ ~HasTable(db.log)
<1> USE ConstantsAssumption
<1>1. logDB[s] # Absent
  BY DEF OneInv, TypeInv, RequestOK
<1>2. /\ Imported(s, objLog) \in DB /\ Imported(s, objLog).log \in Log
  BY <1>1, ImportedType DEF OneInv
<1>3. /\ DatabaseOK(s) /\ BucketOK
      /\ faults = 0 /\ crashes = 0 => ObjectsListed(s)
  BY DEF OneInv
<1>4. CASE objLog = Absent
  <2>1. Imported(s, objLog) = logDB[s]
    BY <1>4 DEF Imported, ImportPersistedLog
  <2> QED BY <1>1, <1>2, <1>3, <1>4, <2>1 DEF DatabaseOK, ObjectsListed
<1>5. CASE objLog # Absent
  <2>1. /\ Imported(s, objLog).log = objLog /\ Imported(s, objLog).etag = objLog
    BY <1>5 DEF Imported, ImportPersistedLog
  <2> QED
    BY <1>1, <1>2, <1>3, <1>5, <2>1 DEF DatabaseOK, BucketOK, ObjectsListed
<1> QED BY <1>4, <1>5

(* A step after which the LOG database holds what an import left. *)
LEMMA OneImportStep ==
  ASSUME OneServer, OneInv, TypeInv', NEW s \in Servers, req[s].pc = "import",
         UNCHANGED <<objLog, stored, content, acked, faults, crashes>>,
         logDB'[s] = Imported(s, objLog),
         ProgressOK(s)', req'[s].pc \notin {"unlink", "export"}
  PROVE  OneInv'
<1> DEFINE db == Imported(s, objLog)
<1>1. /\ logDB[s] # Absent /\ db \in DB /\ db.log \in Log
      /\ db.etag = objLog
      /\ objLog # Absent => db.log = objLog
      /\ TombstonesAdded(db.log) /\ SchemaOK(db.log)
      /\ ~HasTable(db.log) => FilesAll(db.log) = {}
      /\ faults = 0 /\ crashes = 0 =>
           /\ stored \subseteq FilesAll(db.log)
           /\ objLog = Absent => stored = {} /\ ~HasTable(db.log)
  BY OneImported
<1>2. objLog # Absent => HasTable(objLog)
  BY DEF OneInv, BucketOK
<1>3. logDB'[s] = db
  OBVIOUS
<1> HIDE DEF db
<1>4. SchemaOK(logDB[s].log)'
  BY <1>1, <1>3 DEF SchemaOK
<1>5. DatabaseOK(s)'
  BY <1>1, <1>2, <1>3, <1>4 DEF DatabaseOK
<1>6. BucketOK'
  BY BucketUnchanged DEF OneInv
<1>7. faults' = 0 /\ crashes' = 0 => ObjectsListed(s)'
  BY <1>1, <1>3 DEF ObjectsListed
<1> QED BY <1>5, <1>6, <1>7, OneServerInv

(* A CREATE TABLE is logged: only metadata is new. *)
LEMMA OneLogDDL ==
  ASSUME OneServer, OneInv, TypeInv', NEW s \in Servers, LogDDL(s)
  PROVE  OneInv'
<1> USE ConstantsAssumption
<1> DEFINE b == Imported(s, objLog).log
           l == InsertMetaData(b, req[s].tmp)
<1>1. /\ req[s].pc = "import" /\ req[s].op \in {"create", "replace"}
      /\ req[s].tmp \in TableIds
      /\ UNCHANGED <<objLog, stored, content, acked, crashes>>
      /\ req' = [req EXCEPT ![s].pc = "export"]
  BY DEF LogDDL, AtImport, OneInv, TypeInv, RequestOK
<1>2. SetLogDB(s, l, Imported(s, objLog).etag) /\ UNCHANGED faults
  <2>1. PICK got \in {objLog, Absent} :
          /\ ReadLog(got)
          /\ SetLogDB(s, InsertMetaData(Imported(s, got).log, req[s].tmp),
                      Imported(s, got).etag)
    BY DEF LogDDL
  <2>2. got = objLog /\ UNCHANGED faults
    BY <2>1, ReadsCommitted
  <2> QED BY <2>1, <2>2
<1>3. /\ b \in Log /\ Imported(s, objLog).etag = objLog
      /\ objLog # Absent => b = objLog
      /\ TombstonesAdded(b) /\ SchemaOK(b)
      /\ ~HasTable(b) => FilesAll(b) = {}
      /\ faults = 0 /\ crashes = 0 => stored \subseteq FilesAll(b)
  BY <1>1, OneImported
<1>4. objLog # Absent => HasTable(objLog)
  BY DEF OneInv, BucketOK
<1> HIDE DEF b
<1>5. /\ l \in Log /\ Extends(l, b) /\ HasTable(l) /\ TombstonesAdded(l)
      /\ HasTable(b) => SchemaOf(l) = SchemaOf(b)
      /\ FilesAll(l) = FilesAll(b) /\ FilesLive(l) = FilesLive(b)
  BY <1>1, <1>3, InsertMetaDataSchema, LogStatements
<1> HIDE DEF l
<1>6. logDB'[s] = [log |-> l, etag |-> objLog]
  BY <1>2, <1>3 DEF SetLogDB, OneInv, TypeInv, TypeOK
<1>7. req'[s].pc = "export" /\ req'[s].op = req[s].op
  BY <1>1 DEF OneInv, TypeInv, TypeOK, Request
<1>8. SchemaOK(logDB[s].log)'
  <2>1. FilesLive(b) \subseteq FilesAll(b)
    BY DEF FilesLive, FilesAll
  <2> QED BY <1>1, <1>3, <1>5, <1>6, <2>1 DEF SchemaOK
<1>9. DatabaseOK(s)'
  BY <1>1, <1>3, <1>4, <1>5, <1>6, <1>8 DEF DatabaseOK
<1>10. NewRows(s)' = {}
  BY <1>1, <1>7 DEF NewRows
<1>11. objLog # Absent => RowsOf(logDB[s].log)' = RowsOf(objLog)'
  BY <1>1, <1>3, <1>5, <1>6 DEF RowsOf
<1>12. ProgressOK(s)'
  BY <1>1, <1>3, <1>5, <1>6, <1>7, <1>10, <1>11 DEF ProgressOK
<1>13. faults' = 0 /\ crashes' = 0 => ObjectsListed(s)'
  BY <1>1, <1>2, <1>3, <1>5, <1>6, <1>7 DEF ObjectsListed
<1>14. BucketOK'
  BY <1>1, BucketUnchanged DEF OneInv
<1> QED BY <1>9, <1>12, <1>13, <1>14, OneServerInv

(* The imports preserve the invariant. *)
LEMMA OneImportSteps ==
  ASSUME OneServer, OneInv, TypeInv', NEW s \in Servers,
         LogDDL(s) \/ InsertImport(s) \/ MergeImport(s)
  PROVE  OneInv'
<1> USE ConstantsAssumption
<1> DEFINE db == Imported(s, objLog)
<1>1. ASSUME req[s].pc = "import", UNCHANGED objLog, logDB'[s] = db
      PROVE  /\ UpToDate(s)'
             /\ db.log \in Log /\ TombstonesAdded(db.log)
             /\ ~HasTable(db.log) => FilesAll(db.log) = {}
             /\ HasTable(logDB[s].log) =>
                  HasTable(db.log) /\ SchemaOf(db.log) = SchemaOf(logDB[s].log)
             /\ ~HasTable(logDB[s].log) => ~HasTable(db.log)
             /\ FilesLive(logDB[s].log) = {} => FilesLive(db.log) = {}
  BY <1>1, OneImported DEF UpToDate
<1>2. /\ ProgressOK(s) /\ RequestOK(s) /\ req \in [Servers -> Request]
      /\ logDB \in [Servers -> DB \cup {Absent}]
  BY DEF OneInv, TypeInv, TypeOK
<1>3. CASE InsertImport(s)
  <2>1. /\ req[s].pc = "import" /\ req[s].op = "insert"
        /\ UNCHANGED <<objLog, stored, content, acked, crashes>>
        /\ req' = [req EXCEPT ![s].pc = "copy"]
    BY <1>3 DEF InsertImport, AtImport
  <2>2. logDB' = [logDB EXCEPT ![s] = db] /\ UNCHANGED faults
    BY <1>3, ReadsCommitted DEF InsertImport
  <2>3. logDB'[s] = db
    BY <1>2, <2>2
  <2>4. req'[s].pc = "copy" /\ req'[s].op = "insert" /\ req'[s].tmp = req[s].tmp
    BY <1>2, <2>1 DEF Request
  <2>5. HasTable(logDB[s].log) /\ req[s].tmp = SchemaOf(logDB[s].log)
    BY <1>2, <2>1 DEF ProgressOK
  <2>6. req[s].tmp # View
    BY <1>2, <2>1 DEF RequestOK
  <2>7. ProgressOK(s)'
    BY <1>1, <2>1, <2>3, <2>4, <2>5, <2>6 DEF ProgressOK
  <2> QED BY <2>1, <2>2, <2>3, <2>4, <2>7, OneImportStep
<1>4. CASE MergeImport(s)
  <2> DEFINE marked == FilesMarkedRemove(db.log, clock, TTL)
             next == IF marked # {} THEN "purge"
                     ELSE IF req[s].tmp = View THEN "bind" ELSE "copy"
             r == [req[s] EXCEPT !.pending = marked, !.pc = next]
  <2>1. /\ req[s].pc = "import" /\ req[s].op = "vacuum"
        /\ UNCHANGED <<objLog, stored, content, acked, crashes>>
    BY <1>4 DEF MergeImport, AtImport
  <2>2. /\ logDB' = [logDB EXCEPT ![s] = db] /\ UNCHANGED faults
        /\ req' = [req EXCEPT ![s].pending = marked, ![s].pc = next]
    BY <1>4, ReadsCommitted DEF MergeImport
  <2>3. logDB'[s] = db
    BY <1>2, <2>2
  <2>4. req'[s] = r
    BY <1>2, <2>2 DEF Request
  <2>5. /\ r.pc = next /\ r.op = "vacuum" /\ r.tmp = req[s].tmp
        /\ r.snap = req[s].snap
    BY <1>2, <2>1 DEF Request
  <2>6. ReadsTable(s)
    BY <1>2, <2>1 DEF ProgressOK
  <2>7. marked # {} => HasTable(db.log)
    BY <1>1, <2>1, <2>3 DEF FilesMarkedRemove, FilesAll, Removed
  <2>8. /\ next \in {"purge", "bind", "copy"}
        /\ next = "purge" => marked # {}
        /\ next = "bind" => req[s].tmp = View
        /\ next = "copy" => req[s].tmp # View
    OBVIOUS
  <2> HIDE DEF r, next, marked
  <2>9. ReadsTable(s)'
    BY <1>1, <2>1, <2>3, <2>4, <2>5, <2>6 DEF ReadsTable
  <2>10. req[s].tmp = View => objLog # Absent
    BY <2>6 DEF ReadsTable
  <2>11. ProgressOK(s)'
    BY <1>1, <2>1, <2>3, <2>4, <2>5, <2>7, <2>8, <2>9, <2>10 DEF ProgressOK
  <2> QED BY <2>1, <2>2, <2>3, <2>4, <2>5, <2>8, <2>11, OneImportStep
<1> QED BY <1>3, <1>4, OneLogDDL

(* A new parquet object changes nothing that the bucket's log says. *)
LEMMA OneNewFile ==
  ASSUME OneInv, NEW f \in Files, NEW c \in Content, WriteParquet(f, c),
         c.rows \subseteq Written \cup {f}, UNCHANGED <<objLog, acked>>
  PROVE  /\ BucketOK'
         /\ \A s \in Servers : logDB'[s] = logDB[s] => DatabaseOK(s)'
<1> USE ConstantsAssumption
<1>1. /\ content'[f] = c /\ Written' = Written \cup {f}
      /\ \A g \in Written : content'[g] = content[g]
      /\ \A l \in Log : l.add \subseteq Written =>
           RowsIn(content', l) = RowsIn(content, l)
  BY NewFile DEF OneInv
<1>2. BucketOK
  BY DEF OneInv
<1>3. \A g \in Written' : content'[g].rows \subseteq Written'
  BY <1>1, <1>2 DEF BucketOK
<1>4. RowsOf(objLog)' = RowsOf(objLog)
  <2>1. CASE objLog = Absent
    BY <2>1 DEF RowsOf
  <2>2. CASE objLog # Absent
    <3>1. objLog \in Log /\ objLog.add \subseteq Written
      BY <2>2 DEF OneInv, TypeInv, TypeOK, LogsListWritten
    <3>2. RowsOf(objLog)' = RowsIn(content', objLog)
      BY <2>2 DEF RowsOf, RowsIn
    <3> QED BY <1>1, <3>1, <3>2, RowsOfIsRowsIn
  <2> QED BY <2>1, <2>2
<1>5. objLog # Absent => SchemaOK(objLog)'
  <2> SUFFICES ASSUME objLog # Absent PROVE SchemaOK(objLog)'
    OBVIOUS
  <2>1. FilesLive(objLog) \subseteq Written
    BY DEF OneInv, TypeInv, LogsListWritten, FilesLive
  <2> QED BY <1>1, <1>2, <2>1 DEF BucketOK, SchemaOK
<1>6. BucketOK'
  BY <1>2, <1>3, <1>4, <1>5 DEF BucketOK, AckedRowsListed
<1>7. ASSUME NEW s \in Servers, logDB'[s] = logDB[s] PROVE DatabaseOK(s)'
  <2>1. CASE logDB[s] = Absent
    BY <1>7, <2>1 DEF DatabaseOK
  <2>2. CASE logDB[s] # Absent
    <3>1. FilesLive(logDB[s].log) \subseteq Written
      BY <2>2 DEF OneInv, TypeInv, LogsListWritten, FilesLive
    <3>2. DatabaseOK(s)
      BY DEF OneInv
    <3>3. SchemaOK(logDB[s].log)'
      BY <1>1, <1>7, <2>2, <3>1, <3>2 DEF DatabaseOK, SchemaOK
    <3> QED BY <1>7, <2>2, <3>2, <3>3 DEF DatabaseOK
  <2> QED BY <2>1, <2>2
<1> QED BY <1>6, <1>7

(* What a COPY writes: the rows of the INSERT, or those of the table. *)
LEMMA OneCopied ==
  ASSUME OneInv, NEW s \in Servers, NEW f \in Files,
         req[s].pc = "copy", Copyable(s)
  PROVE  LET c == NewContent(s, f)  l == logDB[s].log IN
         /\ c \in Content /\ c.rows \subseteq Written \cup {f}
         /\ HasTable(l) /\ c.table = SchemaOf(l)
         /\ req[s].op = "insert" => c.rows = {f}
         /\ req[s].op # "insert" /\ objLog # Absent => c.rows = RowsOf(objLog)
<1> USE ConstantsAssumption
<1> DEFINE c == NewContent(s, f)  l == logDB[s].log
<1>1. c \in Content
  BY NewContentType DEF OneInv
<1>2. ProgressOK(s) /\ BucketOK
  BY DEF OneInv
<1>3. UpToDate(s) /\ req[s].op \in {"insert", "vacuum"}
  BY <1>2 DEF ProgressOK
<1>4. CASE req[s].op = "insert"
  <2>1. HasTable(l) /\ req[s].tmp = SchemaOf(l)
    BY <1>2, <1>4 DEF ProgressOK
  <2>2. c = [rows |-> {f}, table |-> req[s].tmp]
    <3>1. req[s].tmp # View
      BY <1>4, ConstantsAssumption DEF OneInv, TypeInv, RequestOK
    <3> QED BY <1>4, <3>1 DEF NewContent
  <2>3. c.rows = {f} /\ c.table = req[s].tmp
    BY <2>2
  <2> HIDE DEF c
  <2> QED BY <1>1, <1>4, <2>1, <2>3 DEF c
<1>5. CASE req[s].op = "vacuum" /\ req[s].tmp = View
  <2>1. req[s].snap = objLog /\ objLog # Absent
    BY <1>2, <1>5 DEF ProgressOK, ReadsTable
  <2>2. c = [rows |-> RowsOf(objLog), table |-> SchemaOf(objLog)]
    BY <1>5, <2>1 DEF NewContent
  <2>3. c.rows = RowsOf(objLog) /\ c.table = SchemaOf(objLog)
    BY <2>2
  <2>4. l = objLog /\ HasTable(objLog)
    BY <1>2, <1>3, <2>1 DEF UpToDate, BucketOK
  <2>5. RowsOf(objLog) \subseteq Written
    <3>1. FilesLive(objLog) \subseteq Written
      BY <2>1 DEF OneInv, TypeInv, LogsListWritten, FilesLive
    <3>2. \A g \in FilesLive(objLog) : content[g].rows \subseteq Written
      BY <1>2, <3>1 DEF BucketOK
    <3> QED BY <2>1, <3>2 DEF RowsOf
  <2> HIDE DEF c, l
  <2> QED BY <1>1, <1>5, <2>3, <2>4, <2>5 DEF c, l
<1>6. CASE req[s].op = "vacuum" /\ req[s].tmp # View
  <2>1. HasTable(l) /\ req[s].tmp = SchemaOf(l) /\ FilesLive(l) = {}
    BY <1>2, <1>6 DEF ProgressOK, ReadsTable, Copyable
  <2>2. c = [rows |-> {}, table |-> req[s].tmp]
    BY <1>6 DEF NewContent
  <2>3. c.rows = {} /\ c.table = req[s].tmp
    BY <2>2
  <2>4. objLog # Absent => RowsOf(objLog) = {}
    BY <1>3, <2>1 DEF UpToDate, RowsOf
  <2> HIDE DEF c
  <2> QED BY <1>1, <1>6, <2>1, <2>3, <2>4 DEF c
<1> QED BY <1>3, <1>4, <1>5, <1>6

(* A COPY preserves the invariant: its log commits the statement's rows. *)
LEMMA OneCopy ==
  ASSUME OneServer, OneInv, TypeInv', NEW s \in Servers, Copy(s)
  PROVE  OneInv'
<1> USE ConstantsAssumption
<1> DEFINE b == logDB[s].log
<1>1. PICK f \in Files :
        /\ WriteParquet(f, NewContent(s, f))
        /\ SetLogDB(s, IF req[s].op = "insert" THEN InsertAdd(logDB[s].log, f)
                       ELSE MergeEvents(logDB[s].log, f, clock),
                    logDB[s].etag)
        /\ req' = [req EXCEPT ![s].pc = "export", ![s].file = f]
  BY DEF Copy
<1>2. /\ req[s].pc = "copy" /\ Copyable(s)
      /\ UNCHANGED <<objLog, minted, acked, clock, requests, faults, crashes>>
  BY DEF Copy
<1>3. /\ logDB[s] # Absent /\ b \in Log /\ b.add \subseteq Written
      /\ clock \in Nat
  BY <1>2, OneLogs DEF OneInv, TypeInv, TypeOK, RequestOK
<1>4. /\ DatabaseOK(s) /\ ProgressOK(s)
      /\ faults = 0 /\ crashes = 0 => ObjectsListed(s)
  BY DEF OneInv
<1>5. UpToDate(s) /\ req[s].op \in {"insert", "vacuum"}
  BY <1>2, <1>4 DEF ProgressOK
<1>6. TombstonesAdded(b) /\ SchemaOK(b)
  BY <1>3, <1>4 DEF DatabaseOK
<1> DEFINE l == IF req[s].op = "insert" THEN InsertAdd(b, f)
                ELSE MergeEvents(b, f, clock)
           c == NewContent(s, f)
<1>7. /\ c \in Content /\ c.rows \subseteq Written \cup {f}
      /\ HasTable(b) /\ c.table = SchemaOf(b)
      /\ req[s].op = "insert" => c.rows = {f}
      /\ req[s].op # "insert" /\ objLog # Absent => c.rows = RowsOf(objLog)
  BY <1>2, OneCopied
<1>8. WriteParquet(f, c)
  BY <1>1
<1> HIDE DEF c
<1>9. /\ f \notin Written /\ content'[f] = c
      /\ \A g \in Written : content'[g] = content[g]
      /\ RowsIn(content', b) = RowsIn(content, b)
  BY <1>3, <1>7, <1>8, NewFile DEF OneInv
<1>10. BucketOK'
  BY <1>2, <1>7, <1>8, OneNewFile
<1>11. f \notin b.add
  BY <1>3, <1>9
<1>12. /\ l \in Log /\ Extends(l, b) /\ TombstonesAdded(l)
       /\ req[s].op = "insert" => FilesLive(l) = FilesLive(b) \cup {f}
       /\ req[s].op # "insert" => FilesLive(l) = {f}
  BY <1>3, <1>6, <1>11, InsertAddLive, MergeEventsLive, LogStatements
<1>13. /\ l.meta = b.meta
       /\ FilesAll(b) \cup {f} \subseteq FilesAll(l)
  BY DEF InsertAdd, MergeEvents, FilesAll, Removed
<1>14. HasTable(l) /\ SchemaOf(l) = SchemaOf(b)
  BY <1>7, <1>13 DEF HasTable, SchemaOf
<1>15. logDB' = [logDB EXCEPT ![s] = [log |-> l, etag |-> logDB[s].etag]]
  BY <1>1 DEF SetLogDB
<1> HIDE DEF l
<1>16. logDB'[s].log = l /\ logDB'[s].etag = logDB[s].etag
  BY <1>15 DEF OneInv, TypeInv, TypeOK
<1>17. req'[s].pc = "export" /\ req'[s].op = req[s].op /\ req'[s].file = f
  <2> DEFINE r == [req[s] EXCEPT !.pc = "export", !.file = f]
  <2>1. req \in [Servers -> Request]
    BY DEF OneInv, TypeInv, TypeOK
  <2>2. req'[s] = r
    BY <1>1, <2>1 DEF Request
  <2>3. r.pc = "export" /\ r.op = req[s].op /\ r.file = f
    BY <2>1 DEF Request
  <2> HIDE DEF r
  <2> QED BY <2>2, <2>3
<1>18. SchemaOK(logDB[s].log)'
  <2>1. FilesLive(b) \subseteq Written
    BY <1>3 DEF FilesLive
  <2>2. FilesLive(l) \subseteq FilesLive(b) \cup {f}
    BY <1>12
  <2>3. \A g \in FilesLive(l) : content'[g].table = SchemaOf(l)
    BY <1>6, <1>7, <1>9, <1>14, <2>1, <2>2 DEF SchemaOK
  <2> QED BY <1>16, <2>3 DEF SchemaOK
<1>19. DatabaseOK(s)'
  <2>1. FilesLive(l) # {}
    BY <1>12
  <2>2. objLog # Absent => SchemaOf(l) = SchemaOf(objLog)
    BY <1>3, <1>4, <1>14 DEF DatabaseOK
  <2>3. logDB'[s].etag = objLog
    BY <1>5, <1>16 DEF UpToDate
  <2> QED
    BY <1>2, <1>12, <1>14, <1>16, <1>18, <2>1, <2>2, <2>3 DEF DatabaseOK
<1>20. /\ RowsIn(content', l) =
            (IF req[s].op = "insert" THEN RowsIn(content, b) ELSE {}) \cup c.rows
       /\ RowsOf(logDB[s].log)' = RowsIn(content', l)
  <2>1. RowsOf(logDB[s].log)' = RowsIn(content', l)
    BY <1>12, <1>16 DEF RowsOf, RowsIn
  <2>2. CASE req[s].op = "insert"
    BY <1>9, <1>12, <2>1, <2>2 DEF RowsIn
  <2>3. CASE req[s].op # "insert"
    BY <1>9, <1>12, <2>1, <2>3 DEF RowsIn
  <2> QED BY <2>2, <2>3
<1>21. NewRows(s)' = IF req[s].op = "insert" THEN {f} ELSE {}
  BY <1>17 DEF NewRows
<1>22. NewRows(s)' \subseteq RowsOf(logDB[s].log)'
  BY <1>7, <1>20, <1>21
<1>23. objLog # Absent =>
         /\ Extends(l, objLog)
         /\ RowsOf(logDB[s].log)' = RowsOf(objLog)' \cup NewRows(s)'
         /\ NewRows(s)' \cap RowsOf(objLog)' = {}
  <2> SUFFICES ASSUME objLog # Absent
               PROVE  /\ Extends(l, objLog)
                      /\ RowsOf(logDB[s].log)' = RowsOf(objLog)' \cup NewRows(s)'
                      /\ NewRows(s)' \cap RowsOf(objLog)' = {}
    OBVIOUS
  <2>1. b = objLog
    BY <1>5 DEF UpToDate
  <2>2. RowsOf(objLog) = RowsIn(content, b)
    BY <1>3, <2>1, RowsOfIsRowsIn
  <2>3. RowsOf(objLog)' = RowsIn(content, b)
    <3>1. RowsOf(objLog)' = RowsIn(content', objLog)
      BY <1>2 DEF RowsOf, RowsIn
    <3> QED BY <1>9, <2>1, <3>1
  <2>4. f \notin RowsIn(content, b)
    <3>1. \A g \in FilesLive(b) : content[g].rows \subseteq Written
      BY <1>3 DEF OneInv, BucketOK, FilesLive
    <3> QED BY <1>9, <3>1 DEF RowsIn
  <2> QED BY <1>7, <1>12, <1>20, <1>21, <2>1, <2>2, <2>3, <2>4
<1>24. ProgressOK(s)'
  BY <1>2, <1>5, <1>14, <1>16, <1>17, <1>22, <1>23 DEF ProgressOK, UpToDate
<1>25. faults' = 0 /\ crashes' = 0 => ObjectsListed(s)'
  <2> SUFFICES ASSUME faults = 0, crashes = 0 PROVE stored' \subseteq FilesAll(l)
    BY <1>2, <1>16, <1>17 DEF ObjectsListed
  <2>1. stored \subseteq FilesAll(b)
    BY <1>2, <1>4, <1>5 DEF ObjectsListed, UpToDate
  <2> QED BY <1>8, <1>13, <2>1 DEF WriteParquet
<1> QED BY <1>10, <1>19, <1>24, <1>25, OneServerInv

(* A COPY that fails preserves the invariant. *)
LEMMA OneCopyFails ==
  ASSUME OneServer, OneInv, TypeInv', NEW s \in Servers, CopyFails(s)
  PROVE  OneInv'
<1>1. /\ req[s].pc = "copy" /\ Finish(s)
      /\ UNCHANGED <<objLog, logDB, minted, acked, clock, requests, crashes>>
      /\ faults \in Nat
  BY DEF CopyFails, OneInv, TypeInv, TypeOK
<1>2. CASE UNCHANGED <<stored, content, faults>>
  BY <1>1, <1>2, OneFinish
<1>3. CASE Fault("copy") /\ UNCHANGED <<stored, content>>
  <2>1. faults' # 0
    BY <1>1, <1>3 DEF Fault
  <2> QED BY <1>1, <1>3, <2>1, OneFinish
<1>4. CASE /\ Copyable(s) /\ Fault("copy")
           /\ \E f \in Files : WriteParquet(f, NewContent(s, f))
  <2>1. PICK f \in Files : WriteParquet(f, NewContent(s, f))
    BY <1>4
  <2>2. /\ NewContent(s, f) \in Content
        /\ NewContent(s, f).rows \subseteq Written \cup {f}
    BY <1>1, <1>4, OneCopied
  <2>3. BucketOK' /\ DatabaseOK(s)'
    BY <1>1, <2>1, <2>2, OneNewFile
  <2>4. req'[s].pc = "idle"
    BY <1>1 DEF Finish, NoRequest, OneInv, TypeInv, TypeOK
  <2>5. ProgressOK(s)'
    BY <2>4 DEF ProgressOK
  <2>6. faults' # 0
    BY <1>1, <1>4 DEF Fault
  <2> QED BY <2>3, <2>5, <2>6, OneServerInv
<1> QED BY <1>2, <1>3, <1>4 DEF CopyFails

(* What an Export commits: the table and the rows of one INSERT, or, when  *)
(* the bucket had no log, what the LOG database held.                      *)
LEMMA OneExportCommits ==
  ASSUME OneInv, NEW s \in Servers, ExportWrites(s)
  PROVE  /\ logDB[s] # Absent
         /\ objLog' = logDB[s].log /\ objLog' \in Log /\ objLog' # Absent
         /\ HasTable(objLog')
         /\ RowsOf(objLog)' = RowsOf(logDB[s].log)
         /\ NewRows(s) \subseteq RowsOf(objLog)'
         /\ objLog # Absent =>
              /\ Extends(objLog', objLog)
              /\ RowsOf(objLog)' = RowsOf(objLog) \cup NewRows(s)
              /\ NewRows(s) \cap RowsOf(objLog) = {}
<1> USE ConstantsAssumption
<1>1. /\ req[s].pc = "export" /\ objLog' = logDB[s].log /\ UNCHANGED content
  BY DEF ExportWrites
<1>2. logDB[s] # Absent /\ logDB[s].log \in Log
  BY <1>1, OneLogs DEF OneInv, TypeInv, RequestOK
<1>3. RowsOf(objLog)' = RowsOf(logDB[s].log)
  BY <1>1 DEF RowsOf
<1>4. ProgressOK(s)
  BY DEF OneInv
<1> QED BY <1>1, <1>2, <1>3, <1>4 DEF ProgressOK

(* An export, done or failed, preserves the invariant. *)
LEMMA OneExportSteps ==
  ASSUME OneServer, OneInv, TypeInv', NEW s \in Servers,
         Export(s) \/ ExportAnswerLost(s) \/ ExportFails(s)
  PROVE  OneInv'
<1> USE ConstantsAssumption
<1>1. CASE ExportFails(s)
  <2>1. /\ req[s].pc = "export" /\ Finish(s)
        /\ UNCHANGED <<objLog, stored, content, acked, logDB>>
    BY <1>1 DEF ExportFails
  <2>2. ProgressOK(s) /\ faults \in Nat
    BY DEF OneInv, TypeInv, TypeOK
  <2>3. Matches(logDB[s].etag)
    BY <2>1, <2>2 DEF ProgressOK, Matches
  <2>4. faults' # 0
    BY <1>1, <2>2, <2>3 DEF ExportFails, Fault
  <2> QED BY <2>1, <2>4, OneFinish
<1>2. CASE Export(s) \/ ExportAnswerLost(s)
  <2>1. /\ ExportWrites(s) /\ req[s].pc = "export" /\ Finish(s)
        /\ UNCHANGED <<stored, content, logDB, crashes>> /\ Written' = Written
        /\ acked' \subseteq acked \cup NewRows(s)
    BY <1>2 DEF Export, ExportAnswerLost, ExportWrites, NewRows, Written
  <2>2. /\ logDB[s] # Absent
        /\ objLog' = logDB[s].log /\ objLog' \in Log /\ objLog' # Absent
        /\ HasTable(objLog')
        /\ NewRows(s) \subseteq RowsOf(objLog)'
        /\ objLog # Absent =>
             RowsOf(objLog)' = RowsOf(objLog) \cup NewRows(s)
    BY <2>1, OneExportCommits
  <2>3. DatabaseOK(s) /\ BucketOK
    BY DEF OneInv
  <2>4. TombstonesAdded(logDB[s].log) /\ SchemaOK(logDB[s].log)
    BY <2>2, <2>3 DEF DatabaseOK
  <2>5. SchemaOK(objLog)' /\ SchemaOK(logDB[s].log)'
    BY <2>1, <2>2, <2>4 DEF SchemaOK
  <2>6. acked \subseteq RowsOf(objLog)'
    BY <2>2, <2>3 DEF BucketOK, AckedRowsListed, RowsOf
  <2>7. AckedRowsListed'
    BY <2>1, <2>2, <2>6 DEF AckedRowsListed
  <2>8. BucketOK'
    BY <2>1, <2>2, <2>3, <2>4, <2>5, <2>7 DEF BucketOK
  <2>9. DatabaseOK(s)'
    BY <2>1, <2>2, <2>4, <2>5 DEF DatabaseOK
  <2>10. req'[s].pc = "idle"
    BY <2>1 DEF Finish, NoRequest, OneInv, TypeInv, TypeOK
  <2>11. ProgressOK(s)'
    BY <2>10 DEF ProgressOK
  <2>12. faults' = 0 /\ crashes' = 0 => ObjectsListed(s)'
    <3> SUFFICES ASSUME faults' = 0, crashes' = 0 PROVE ObjectsListed(s)'
      OBVIOUS
    <3>1. faults = 0 /\ crashes = 0
      BY <1>2, <2>1 DEF Export, ExportAnswerLost, Fault, OneInv, TypeInv, TypeOK
    <3>2. stored \subseteq FilesAll(logDB[s].log)
      BY <2>1, <3>1 DEF OneInv, ObjectsListed
    <3> QED BY <2>1, <2>2, <2>10, <3>2 DEF ObjectsListed
  <2> QED BY <2>8, <2>9, <2>11, <2>12, OneServerInv
<1> QED BY <1>1, <1>2

(* Deleting an object preserves the invariant: a purge deletes only from   *)
(* the bucket, a DROP goes through its whole list before the log.          *)
LEMMA OneDeleteFile ==
  ASSUME OneServer, OneInv, TypeInv', NEW s \in Servers,
         PurgeFile(s) \/ DropFile(s)
  PROVE  OneInv'
<1> USE ConstantsAssumption
<1>1. /\ req[s].pc \in {"purge", "unlink"} /\ acked' \subseteq acked
      /\ UNCHANGED <<objLog, content, logDB, crashes>>
  BY DeletesOneFile DEF OneInv
<1>2. PICK f \in req[s].pending :
        /\ req' = [req EXCEPT
                     ![s].pending = @ \ {f},
                     ![s].pc = IF req[s].pc = "purge" /\ req[s].pending = {f}
                               THEN "export" ELSE @]
        /\ \/ stored' = stored \ {f} /\ UNCHANGED faults
           \/ Fault("delete") /\ UNCHANGED stored
  BY DeletesOneFile DEF OneInv
<1>3. /\ ProgressOK(s) /\ req \in [Servers -> Request] /\ faults \in Nat
      /\ faults = 0 /\ crashes = 0 => ObjectsListed(s)
  BY DEF OneInv, TypeInv, TypeOK
<1> DEFINE next == IF req[s].pc = "purge" /\ req[s].pending = {f}
                   THEN "export" ELSE req[s].pc
           r == [req[s] EXCEPT !.pending = req[s].pending \ {f}, !.pc = next]
<1>4. req'[s] = r
  BY <1>2, <1>3 DEF Request
<1>5. r.pc = next /\ r.op = req[s].op /\ r.pending = req[s].pending \ {f}
  BY <1>3 DEF Request
<1>6. /\ req[s].pc = "purge" => req[s].op = "vacuum" /\ next \in {"purge", "export"}
      /\ req[s].pc = "unlink" => req[s].op = "drop" /\ next = "unlink"
  BY <1>1, <1>3 DEF ProgressOK
<1> HIDE DEF next, r
<1>7. BucketOK' /\ DatabaseOK(s)'
  BY <1>1, BucketUnchanged, DatabaseUnchanged DEF OneInv
<1>8. faults' = 0 /\ crashes' = 0 =>
        faults = 0 /\ crashes = 0 /\ stored' = stored \ {f}
  BY <1>1, <1>2, <1>3 DEF Fault
<1>9. CASE req[s].pc = "unlink"
  <2>1. /\ req'[s].pc = "unlink" /\ req'[s].op = "drop"
        /\ req'[s].pending = req[s].pending \ {f}
    BY <1>4, <1>5, <1>6, <1>9
  <2>2. ProgressOK(s)'
    BY <2>1 DEF ProgressOK
  <2>3. faults' = 0 /\ crashes' = 0 => ObjectsListed(s)'
    BY <1>3, <1>8, <1>9, <2>1 DEF ObjectsListed
  <2> QED BY <1>7, <2>2, <2>3, OneServerInv
<1>10. CASE req[s].pc = "purge"
  <2>1. req'[s].pc \in {"purge", "export"} /\ req'[s].op = "vacuum"
    BY <1>4, <1>5, <1>6, <1>10
  <2>2. UpToDate(s) /\ HasTable(logDB[s].log)
    BY <1>3, <1>10 DEF ProgressOK
  <2>3. UpToDate(s)'
    BY <1>1, <2>2 DEF UpToDate
  <2>4. NewRows(s)' = {}
    BY <2>1 DEF NewRows
  <2>5. objLog # Absent =>
          /\ Extends(logDB[s].log, objLog)
          /\ RowsOf(logDB[s].log)' = RowsOf(objLog)'
    BY <1>1, <2>2, OneLogs, ExtendsReflexive DEF UpToDate, RowsOf
  <2>6. ProgressOK(s)'
    BY <1>1, <2>1, <2>2, <2>3, <2>4, <2>5 DEF ProgressOK, UpToDate
  <2>7. faults' = 0 /\ crashes' = 0 => ObjectsListed(s)'
    <3> SUFFICES ASSUME faults' = 0, crashes' = 0 PROVE ObjectsListed(s)'
      OBVIOUS
    <3>1. ObjectsListed(s) /\ stored' \subseteq stored
      BY <1>3, <1>8
    <3>2. /\ stored \subseteq (IF objLog = Absent THEN {} ELSE FilesAll(objLog))
          /\ logDB[s] # Absent =>
               IF objLog = Absent THEN ~HasTable(logDB[s].log)
               ELSE FilesAll(objLog) \subseteq FilesAll(logDB[s].log)
      BY <1>10, <3>1 DEF ObjectsListed
    <3>3. stored \subseteq FilesAll(logDB[s].log)
      BY <2>2, <3>2 DEF UpToDate
    <3> QED BY <1>1, <2>1, <3>1, <3>2, <3>3 DEF ObjectsListed
  <2> QED BY <1>7, <2>6, <2>7, OneServerInv
<1> QED BY <1>1, <1>9, <1>10

(* The end of a DROP TABLE preserves the invariant. *)
LEMMA OneDeleteLog ==
  ASSUME OneServer, OneInv, TypeInv', NEW s \in Servers, DeleteLog(s)
  PROVE  OneInv'
<1>1. /\ req[s].pc = "unlink" /\ req[s].pending = {} /\ Finish(s)
      /\ logDB' = [logDB EXCEPT ![s] = Absent]
      /\ UNCHANGED <<stored, content, crashes>> /\ Written' = Written
      /\ \/ objLog' = Absent /\ acked' = {} /\ UNCHANGED faults
         \/ Fault("delete") /\ UNCHANGED <<objLog, acked>>
  BY DEF DeleteLog, Written
<1>2. logDB'[s] = Absent /\ req'[s].pc = "idle"
  BY <1>1 DEF Finish, NoRequest, OneInv, TypeInv, TypeOK
<1>3. DatabaseOK(s)' /\ ProgressOK(s)'
  BY <1>2 DEF DatabaseOK, ProgressOK
<1>4. BucketOK'
  <2>1. CASE UNCHANGED <<objLog, acked>>
    BY <1>1, <2>1, BucketUnchanged DEF OneInv
  <2>2. CASE objLog' = Absent /\ acked' = {}
    BY <1>1, <2>2 DEF OneInv, BucketOK, AckedRowsListed
  <2> QED BY <1>1, <2>1, <2>2
<1>5. faults' = 0 /\ crashes' = 0 => ObjectsListed(s)'
  <2> SUFFICES ASSUME faults' = 0, crashes' = 0 PROVE ObjectsListed(s)'
    OBVIOUS
  <2>1. faults = 0 /\ crashes = 0 /\ objLog' = Absent
    BY <1>1 DEF Fault, OneInv, TypeInv, TypeOK
  <2>2. stored \subseteq {}
    BY <1>1, <2>1 DEF OneInv, ObjectsListed
  <2> QED BY <1>1, <1>2, <2>1, <2>2 DEF ObjectsListed
<1> QED BY <1>3, <1>4, <1>5, OneServerInv

(* Restarts, time and rest preserve the invariant. *)
LEMMA OneEnvironment ==
  ASSUME OneServer, OneInv, TypeInv',
         (\E s \in Servers : Crash(s)) \/ Tick \/ Rest \/ UNCHANGED vars
  PROVE  OneInv'
<1>1. ASSUME NEW s \in Servers, Crash(s) PROVE OneInv'
  <2>1. /\ logDB'[s] = Absent /\ req'[s].pc = "idle" /\ crashes' # 0
        /\ UNCHANGED <<objLog, content, acked>>
    BY <1>1 DEF Crash, Finish, NoRequest, OneInv, TypeInv, TypeOK
  <2>2. DatabaseOK(s)' /\ ProgressOK(s)' /\ BucketOK'
    BY <2>1, BucketUnchanged DEF DatabaseOK, ProgressOK, OneInv
  <2> QED BY <2>1, <2>2, OneServerInv
<1>2. CASE Tick \/ Rest \/ UNCHANGED vars
  <2>1. UNCHANGED <<objLog, stored, content, acked, logDB, req, faults, crashes>>
    BY <1>2 DEF Tick, Rest, vars
  <2>2. PICK s \in Servers : TRUE
    BY DEF OneServer
  <2>3. BucketOK' /\ DatabaseOK(s)'
    BY <2>1, BucketUnchanged, DatabaseUnchanged DEF OneInv
  <2>4. ProgressOK(s)
    BY DEF OneInv
  <2>5. ProgressOK(s)'
    BY <2>1, <2>4 DEF ProgressOK, UpToDate, ReadsTable, NewRows, RowsOf
  <2>6. faults' = 0 /\ crashes' = 0 => ObjectsListed(s)'
    BY <2>1 DEF OneInv, ObjectsListed
  <2> QED BY <2>3, <2>5, <2>6, OneServerInv
<1> QED BY <1>1, <1>2

(* The initial states satisfy the invariant. *)
LEMMA OneInit ==
  ASSUME OneServer, Init
  PROVE  OneInv
<1> USE ConstantsAssumption
<1>1. /\ TypeInv
      /\ \A s \in Servers : logDB[s] = Absent /\ req[s].pc = "idle"
  BY InitTypeInv DEF Init, NoRequest
<1>2. \A s \in Servers : DatabaseOK(s) /\ ProgressOK(s)
  BY <1>1 DEF DatabaseOK, ProgressOK
<1>3. CASE ~Seeded
  <2>1. /\ objLog = Absent /\ stored = {} /\ acked = {}
        /\ content = [f \in Files |-> Absent]
    BY <1>3 DEF Init
  <2>2. Written = {}
    BY <2>1 DEF Written
  <2> QED
    BY <1>1, <1>2, <2>1, <2>2
    DEF OneInv, BucketOK, AckedRowsListed, ObjectsListed
<1>4. CASE Seeded
  <2>1. PICK f \in Files, t \in TableIds :
          /\ objLog = InsertAdd(InsertMetaData(EmptyLog, t), f)
          /\ stored = {f} /\ acked = {f}
          /\ content = [g \in Files |->
                          IF g = f THEN [rows |-> {f}, table |-> t] ELSE Absent]
    BY <1>4 DEF Init
  <2>2. objLog \in Log
    BY <2>1, LogStatements, EmptyLogType
  <2>3. /\ objLog # Absent /\ objLog.add = {f} /\ objLog.remove = {}
        /\ objLog.meta = <<t>>
    <3>1. /\ objLog.add = {f} /\ objLog.remove = {}
          /\ objLog.meta = Append(<< >>, t)
      BY <2>1 DEF InsertAdd, InsertMetaData, EmptyLog
    <3>2. Append(<< >>, t) = <<t>>
      OBVIOUS
    <3> QED BY <2>2, <3>1, <3>2
  <2>4. FilesLive(objLog) = {f} /\ FilesAll(objLog) = {f} /\ Removed(objLog) = {}
    BY <2>3 DEF FilesLive, FilesAll, Removed
  <2>5. HasTable(objLog) /\ SchemaOf(objLog) = t
    BY <2>3 DEF HasTable, SchemaOf
  <2>6. content[f].rows = {f} /\ content[f].table = t /\ Written = {f}
    <3>1. [rows |-> {f}, table |-> t] \in Content
      BY DEF Content
    <3> QED BY <2>1, <3>1 DEF Written
  <2>7. RowsOf(objLog) = {f}
    BY <2>3, <2>4, <2>6 DEF RowsOf
  <2> QED
    BY <1>1, <1>2, <2>1, <2>3, <2>4, <2>5, <2>6, <2>7
    DEF OneInv, BucketOK, SchemaOK, TombstonesAdded, AckedRowsListed,
        ObjectsListed
<1> QED BY <1>3, <1>4

-----------------------------------------------------------------------------
(***************************************************************************)
(* The theorems.                                                           *)
(***************************************************************************)

(* Every step preserves the invariant. *)
LEMMA OneStep ==
  ASSUME OneServer, OneInv, TypeInv', [Next]_vars
  PROVE  OneInv'
<1>1. ASSUME NEW s \in Servers, Begin(s) PROVE OneInv'
  BY <1>1, OneBegin
<1>2. ASSUME NEW s \in Servers, Step(s) PROVE OneInv'
  BY <1>2, OneReadSteps, OneImportSteps, OneCopy, OneCopyFails,
     OneExportSteps, OneDeleteFile, OneDeleteLog
  DEF Step
<1>3. CASE (\E s \in Servers : Crash(s)) \/ Tick \/ Rest \/ UNCHANGED vars
  BY <1>3, OneEnvironment
<1> QED BY <1>1, <1>2, <1>3 DEF Next

(* The inductive invariant holds in every state of one server: however far *)
(* failed statements take the LOG database from the bucket, the import of  *)
(* withPersistedLog brings them together before every commit.              *)
THEOREM OneInvariance ==
  ASSUME OneServer
  PROVE  Spec => []OneInv
<1>1. Init => OneInv
  BY OneInit
<1>2. TypeInv' /\ OneInv /\ [Next]_vars => OneInv'
  BY OneStep
<1> QED BY <1>1, <1>2, TypeInvariance, PTL DEF Spec

(* A SELECT on the only server sees every row acknowledged before it       *)
(* began, through CREATE, DROP, failed statements and restarts             *)
(* (handleQuery, CreateViewOfParquet).                                     *)
THEOREM OneServerReadsAckedRows ==
  ASSUME OneServer
  PROVE  Spec => []ReadsSeeAckedRows
<1>1. OneInv => ReadsSeeAckedRows
  BY DEF OneInv, ProgressOK, ReadsSeeAckedRows, Answer
<1> QED BY <1>1, OneInvariance, PTL

(* Every live file has the schema of the table's first metaData row, even  *)
(* when a failed CREATE TABLE left its row in the LOG database or a table  *)
(* was dropped and created again (CreateTempTable, Insert, Merge).         *)
THEOREM OneServerFilesMatchTable ==
  ASSUME OneServer
  PROVE  Spec => []FilesMatchTable
<1>1. OneInv => FilesMatchTable
  BY DEF OneInv, BucketOK, SchemaOK, FilesMatchTable
<1> QED BY <1>1, OneInvariance, PTL

(* Without failures a finished DROP TABLE leaves no parquet object: the    *)
(* list Destroy takes from the LOG database names all of them.             *)
THEOREM DropsLeaveNothing ==
  ASSUME OneServer
  PROVE  Spec => []DropLeavesNothing
<1>1. OneInv => DropLeavesNothing
  <2> SUFFICES ASSUME OneInv, objLog = Absent, faults = 0, crashes = 0,
                      \A s \in Servers : req[s].pc = "idle"
               PROVE  stored = {}
    BY DEF DropLeavesNothing
  <2>1. PICK s \in Servers : TRUE
    BY DEF OneServer
  <2> QED BY <2>1 DEF OneInv, ObjectsListed
<1> QED BY <1>1, OneInvariance, PTL

-----------------------------------------------------------------------------
(***************************************************************************)
(* The objects.  A purge deletes what the committed log has tombstoned,    *)
(* only a DROP deletes live files, and a statement after a DROP that       *)
(* stopped half-way neither loses nor revives anything.                    *)
(***************************************************************************)

(* The rows that the objects hold of log l when files have content c. *)
HeldIn(c, l, objects) == UNION {c[f].rows : f \in FilesLive(l) \cap objects}

(* What a request about to export will list is in the bucket, except for   *)
(* the files of a table that was torn already.                             *)
HeldOK(s) ==
  LET r == req[s]  db == logDB[s] IN
  /\ db # Absent /\ objLog = Absent /\ r.pc # "unlink" =>
       FilesLive(db.log) \subseteq stored
  /\ r.pc = "purge" => r.pending \subseteq Removed(db.log)
  /\ r.pc = "export" =>
       /\ acked \cup NewRows(s) \subseteq RowsHeld(db.log, stored)
       /\ objLog # Absent =>
            (FilesLive(db.log) \subseteq stored <=> FilesLive(objLog) \subseteq stored)

HeldInv == AckedRowsDurable /\ \A s \in Servers : HeldOK(s)

(* The rows held of a log depend on the content of its files only. *)
LEMMA RowsHeldIsHeldIn ==
  ASSUME NEW l \in Log, NEW objects
  PROVE  RowsHeld(l, objects) = HeldIn(content, l, objects)
BY ConstantsAssumption DEF RowsHeld, HeldIn

(* More objects hold more rows. *)
LEMMA HeldMore ==
  ASSUME NEW c, NEW d, NEW l \in Log, NEW objects, NEW more,
         objects \cap FilesLive(l) \subseteq more,
         \A f \in l.add : c[f] = d[f]
  PROVE  HeldIn(c, l, objects) \subseteq HeldIn(d, l, more)
BY DEF HeldIn, FilesLive

(* While the log is the same and no live object goes, rows are held.       *)
LEMMA HeldKept ==
  ASSUME OneServer, OneInv, HeldInv, NEW s \in Servers,
         UNCHANGED objLog, acked' \subseteq acked,
         objLog # Absent => stored \cap FilesLive(objLog) \subseteq stored',
         \A f \in Written : content'[f] = content[f],
         HeldOK(s)'
  PROVE  HeldInv'
<1>1. CASE objLog = Absent
  BY <1>1, OnlyServer DEF HeldInv, AckedRowsDurable, RowsHeld
<1>2. CASE objLog # Absent
  <2>1. objLog \in Log /\ objLog.add \subseteq Written
    BY <1>2, OneLogs
  <2>2. HeldIn(content, objLog, stored) \subseteq HeldIn(content', objLog, stored')
    BY <1>2, <2>1, HeldMore
  <2>3. RowsHeld(objLog, stored)' = HeldIn(content', objLog, stored')
    BY <1>2 DEF RowsHeld, HeldIn
  <2>4. AckedRowsDurable'
    BY <2>1, <2>2, <2>3, RowsHeldIsHeldIn DEF HeldInv, AckedRowsDurable
  <2> QED BY <2>4, OnlyServer DEF HeldInv
<1> QED BY <1>1, <1>2

(* Nothing is acknowledged of a table that does not exist. *)
LEMMA NothingAcked ==
  ASSUME HeldInv, objLog = Absent
  PROVE  acked = {}
BY DEF HeldInv, AckedRowsDurable, RowsHeld

(* The steps before a request's own work, its end and its reads. *)
LEMMA HeldQuietSteps ==
  ASSUME OneServer, OneInv, HeldInv, NEW s \in Servers,
         UNCHANGED <<objLog, stored, content, acked>>,
         req'[s].pc \notin {"purge", "export"},
         logDB'[s] # Absent /\ objLog = Absent /\ req'[s].pc # "unlink" =>
           \/ logDB'[s] = logDB[s] /\ req[s].pc # "unlink"
           \/ FilesLive(logDB'[s].log) = {}
  PROVE  HeldInv'
<1>1. HeldOK(s)'
  BY DEF HeldInv, HeldOK
<1> QED BY <1>1, HeldKept

(* The arrival of a request keeps the rows held. *)
LEMMA HeldBegin ==
  ASSUME OneServer, OneInv, HeldInv, NEW s \in Servers, Begin(s)
  PROVE  HeldInv'
<1> USE ConstantsAssumption
<1>1. PICK o : StartRequest(s, o)
  BY DEF Begin, BeginCreate, BeginInsert, BeginRead, BeginDrop
<1>2. /\ UNCHANGED <<objLog, stored, content, acked>> /\ req[s].pc = "idle"
      /\ req \in [Servers -> Request] /\ logDB \in [Servers -> DB \cup {Absent}]
  BY <1>1, OneRequestStarted DEF OneInv, TypeInv, TypeOK
<1>3. objLog = Absent => logDB'[s] = logDB[s] \/ FilesLive(logDB'[s].log) = {}
  <2> SUFFICES ASSUME objLog = Absent
               PROVE  logDB'[s] = logDB[s] \/ FilesLive(logDB'[s].log) = {}
    OBVIOUS
  <2>1. CASE UNCHANGED logDB
    BY <2>1
  <2>2. CASE \E got \in {objLog, Absent} :
               logDB' = [logDB EXCEPT ![s] = ImportPersistedLog(FreshDB, got)]
    <3>1. logDB'[s] = FreshDB
      BY <1>2, <2>2 DEF ImportPersistedLog
    <3>2. FilesLive(EmptyLog) = {} /\ FreshDB.log = EmptyLog
      BY DEF FilesLive, EmptyLog, FreshDB
    <3> QED BY <3>1, <3>2
  <2> QED BY <1>1, <2>1, <2>2 DEF StartRequest, GetLogDB
<1>4. req'[s].pc \notin {"purge", "export"}
  <2>1. ASSUME NEW r, req' = [req EXCEPT ![s] = r], r.pc \notin {"purge", "export"}
        PROVE  req'[s].pc \notin {"purge", "export"}
    BY <1>2, <2>1
  <2>2. ASSUME NEW o2, BeginCreate(s, o2) PROVE req'[s].pc \notin {"purge", "export"}
    BY <1>2, <2>2 DEF BeginCreate, NoRequest
  <2>3. CASE BeginInsert(s)
    BY <1>2, <2>3 DEF BeginInsert, NoRequest
  <2>4. ASSUME NEW o2, BeginRead(s, o2) PROVE req'[s].pc \notin {"purge", "export"}
    <3> DEFINE l == logDB'[s].log
               r == [NoRequest EXCEPT !.op = o2,
                       !.floor = IF o2 = "select" THEN acked ELSE {}]
               next == IF o2 = "select" THEN "answer" ELSE "import"
    <3>1. UNCHANGED req \/ \E q : /\ req' = [req EXCEPT ![s] = q]
                                 /\ q \in { [r EXCEPT !.pc = "view"],
                                      [r EXCEPT !.pc = next, !.tmp = SchemaOf(l)],
                                      [r EXCEPT !.pc = "import"] }
      BY <2>4 DEF BeginRead
    <3>2. ASSUME NEW q \in { [r EXCEPT !.pc = "view"],
                            [r EXCEPT !.pc = next, !.tmp = SchemaOf(l)],
                            [r EXCEPT !.pc = "import"] }
          PROVE  q.pc \notin {"purge", "export"}
      BY ZenonT(40), <3>2 DEF NoRequest
    <3> QED BY <1>2, <2>1, <3>1, <3>2
  <2>5. CASE BeginDrop(s)
    BY <1>2, <2>5 DEF BeginDrop, NoRequest
  <2> QED BY <2>2, <2>3, <2>4, <2>5 DEF Begin
<1> QED BY <1>2, <1>3, <1>4, HeldQuietSteps

(* An import keeps the rows held, and a purge gets tombstoned files only.  *)
LEMMA HeldImportSteps ==
  ASSUME OneServer, OneInv, HeldInv, NEW s \in Servers,
         LogDDL(s) \/ InsertImport(s) \/ MergeImport(s)
  PROVE  HeldInv'
<1> USE ConstantsAssumption
<1> DEFINE db == Imported(s, objLog)
<1>1. /\ req[s].pc = "import"
      /\ UNCHANGED <<objLog, stored, content, acked>>
      /\ req \in [Servers -> Request] /\ logDB \in [Servers -> DB \cup {Absent}]
  BY DEF LogDDL, InsertImport, MergeImport, AtImport, OneInv, TypeInv, TypeOK
<1>2. /\ logDB[s] # Absent /\ db.log \in Log
      /\ objLog # Absent => db.log = objLog
  BY <1>1, OneImported
<1>3. objLog = Absent => FilesLive(db.log) \subseteq stored
  BY <1>1, <1>2 DEF HeldInv, HeldOK, Imported, ImportPersistedLog
<1>4. CASE LogDDL(s)
  <2>1. PICK got \in {objLog, Absent} :
          /\ ReadLog(got)
          /\ SetLogDB(s, InsertMetaData(Imported(s, got).log, req[s].tmp),
                      Imported(s, got).etag)
    BY <1>4 DEF LogDDL
  <2>2. got = objLog
    BY <2>1, ReadsCommitted
  <2> DEFINE l == InsertMetaData(db.log, req[s].tmp)
  <2>3. logDB'[s].log = l
    BY <1>1, <2>1, <2>2 DEF SetLogDB
  <2>4. /\ req[s].tmp \in TableIds /\ req[s].op \in {"create", "replace"}
        /\ req'[s].pc = "export" /\ req'[s].op = req[s].op
    BY <1>1, <1>4 DEF LogDDL, AtImport, OneInv, TypeInv, RequestOK, Request
  <2>5. l \in Log /\ FilesLive(l) = FilesLive(db.log)
    BY <1>2, <2>4, InsertMetaDataSchema, LogStatements
  <2> HIDE DEF l, db
  <2>6. NewRows(s)' = {}
    BY <2>4 DEF NewRows
  <2>7. RowsHeld(logDB[s].log, stored)' = HeldIn(content, l, stored)
    BY <1>1, <2>3, <2>5 DEF RowsHeld, HeldIn
  <2>8. acked \subseteq HeldIn(content, l, stored)
    <3>1. CASE objLog = Absent
      BY <3>1, NothingAcked
    <3>2. CASE objLog # Absent
      <4>1. RowsHeld(objLog, stored) = HeldIn(content, l, stored)
        BY <1>2, <2>5, <3>2 DEF RowsHeld, HeldIn
      <4> QED BY <4>1 DEF HeldInv, AckedRowsDurable
    <3> QED BY <3>1, <3>2
  <2>9. HeldOK(s)'
    BY <1>1, <1>2, <1>3, <2>3, <2>4, <2>5, <2>6, <2>7, <2>8 DEF HeldOK
  <2> QED BY <1>1, <2>9, HeldKept
<1>5. CASE InsertImport(s)
  <2>1. logDB' = [logDB EXCEPT ![s] = db]
    BY <1>5, ReadsCommitted DEF InsertImport
  <2>2. logDB'[s] = db /\ req'[s].pc = "copy"
    BY <1>1, <1>5, <2>1 DEF InsertImport, Request
  <2>3. HeldOK(s)'
    BY <1>1, <1>3, <2>2 DEF HeldOK
  <2> QED BY <1>1, <2>3, HeldKept
<1>6. CASE MergeImport(s)
  <2> DEFINE marked == FilesMarkedRemove(db.log, clock, TTL)
             next == IF marked # {} THEN "purge"
                     ELSE IF req[s].tmp = View THEN "bind" ELSE "copy"
             r == [req[s] EXCEPT !.pending = marked, !.pc = next]
  <2>1. /\ logDB' = [logDB EXCEPT ![s] = db]
        /\ req' = [req EXCEPT ![s].pending = marked, ![s].pc = next]
    BY <1>6, ReadsCommitted DEF MergeImport
  <2>2. logDB'[s] = db /\ req'[s] = r /\ r.pc = next /\ r.pending = marked
    BY <1>1, <2>1 DEF Request
  <2>3. marked \subseteq Removed(db.log)
    BY DEF FilesMarkedRemove, Removed
  <2>4. next \in {"purge", "bind", "copy"}
    OBVIOUS
  <2> HIDE DEF db, r, next, marked
  <2>5. HeldOK(s)'
    BY <1>1, <1>3, <2>2, <2>3, <2>4 DEF HeldOK
  <2> QED BY <1>1, <2>5, HeldKept
<1> QED BY <1>4, <1>5, <1>6

(* A COPY keeps the rows held: a merge copies files that are all there.    *)
LEMMA HeldCopy ==
  ASSUME OneServer, OneInv, HeldInv, NEW s \in Servers, Copy(s)
  PROVE  HeldInv'
<1> USE ConstantsAssumption
<1> DEFINE b == logDB[s].log
<1>1. PICK f \in Files :
        /\ WriteParquet(f, NewContent(s, f))
        /\ SetLogDB(s, IF req[s].op = "insert" THEN InsertAdd(logDB[s].log, f)
                       ELSE MergeEvents(logDB[s].log, f, clock),
                    logDB[s].etag)
        /\ req' = [req EXCEPT ![s].pc = "export", ![s].file = f]
  BY DEF Copy
<1>2. /\ req[s].pc = "copy" /\ Copyable(s) /\ UNCHANGED <<objLog, acked>>
  BY DEF Copy
<1>3. /\ logDB[s] # Absent /\ b \in Log /\ b.add \subseteq Written
      /\ clock \in Nat
  BY <1>2, OneLogs DEF OneInv, TypeInv, TypeOK, RequestOK
<1>4. DatabaseOK(s) /\ ProgressOK(s) /\ BucketOK
  BY DEF OneInv
<1>5. UpToDate(s) /\ req[s].op \in {"insert", "vacuum"} /\ TombstonesAdded(b)
  BY <1>2, <1>3, <1>4 DEF ProgressOK, DatabaseOK
<1> DEFINE l == IF req[s].op = "insert" THEN InsertAdd(b, f)
                ELSE MergeEvents(b, f, clock)
           c == NewContent(s, f)
<1>6. /\ c \in Content
      /\ req[s].op = "insert" => c.rows = {f}
      /\ req[s].op # "insert" /\ objLog # Absent => c.rows = RowsOf(objLog)
  BY <1>2, OneCopied
<1>7. WriteParquet(f, c)
  BY <1>1
<1> HIDE DEF c
<1>8. /\ f \notin Written /\ content'[f] = c /\ stored' = stored \cup {f}
      /\ \A g \in Written : content'[g] = content[g]
  BY <1>6, <1>7, NewFile DEF OneInv, WriteParquet
<1>9. /\ l \in Log
      /\ req[s].op = "insert" => FilesLive(l) = FilesLive(b) \cup {f}
      /\ req[s].op # "insert" => FilesLive(l) = {f}
  <2>1. f \notin b.add
    BY <1>3, <1>8
  <2> QED BY <1>3, <1>5, <2>1, InsertAddLive, MergeEventsLive, LogStatements
<1>10. logDB'[s].log = l
  BY <1>1 DEF SetLogDB, OneInv, TypeInv, TypeOK
<1> HIDE DEF l
<1>11. req'[s].pc = "export" /\ req'[s].op = req[s].op /\ req'[s].file = f
  <2> DEFINE r == [req[s] EXCEPT !.pc = "export", !.file = f]
  <2>1. req \in [Servers -> Request]
    BY DEF OneInv, TypeInv, TypeOK
  <2>2. req'[s] = r
    BY <1>1, <2>1 DEF Request
  <2>3. r.pc = "export" /\ r.op = req[s].op /\ r.file = f
    BY <2>1 DEF Request
  <2> HIDE DEF r
  <2> QED BY <2>2, <2>3
<1>12. RowsHeld(logDB[s].log, stored)' = HeldIn(content', l, stored')
  BY <1>9, <1>10 DEF RowsHeld, HeldIn
<1>13. /\ f \in FilesLive(l) \cap stored'
       /\ c.rows \subseteq HeldIn(content', l, stored')
  BY <1>5, <1>8, <1>9 DEF HeldIn
<1>14. NewRows(s)' \subseteq HeldIn(content', l, stored')
  BY <1>6, <1>11, <1>13 DEF NewRows
<1>15. acked \subseteq HeldIn(content', l, stored')
  <2>1. CASE objLog = Absent
    BY <2>1, NothingAcked
  <2>2. CASE objLog # Absent /\ req[s].op = "insert"
    <3>1. b = objLog
      BY <1>5, <2>2 DEF UpToDate
    <3>2. acked \subseteq HeldIn(content, b, stored)
      BY <1>3, <3>1, RowsHeldIsHeldIn DEF HeldInv, AckedRowsDurable
    <3>3. HeldIn(content, b, stored) \subseteq HeldIn(content', l, stored')
      BY <1>3, <1>8, <1>9, <2>2 DEF HeldIn, FilesLive
    <3> QED BY <3>2, <3>3
  <2>3. CASE objLog # Absent /\ req[s].op # "insert"
    BY <1>4, <1>6, <1>13, <2>3 DEF BucketOK, AckedRowsListed
  <2> QED BY <2>1, <2>2, <2>3
<1>16. objLog = Absent => FilesLive(l) \subseteq stored'
  BY <1>2, <1>3, <1>5, <1>8, <1>9 DEF HeldInv, HeldOK
<1>17. objLog # Absent =>
         (FilesLive(l) \subseteq stored' <=> FilesLive(objLog) \subseteq stored')
  <2> SUFFICES ASSUME objLog # Absent
               PROVE  FilesLive(l) \subseteq stored' <=> FilesLive(objLog) \subseteq stored'
    OBVIOUS
  <2>1. b = objLog
    BY <1>5 DEF UpToDate
  <2>2. CASE req[s].op = "insert"
    BY <1>8, <1>9, <2>1, <2>2
  <2>3. CASE req[s].op # "insert"
    <3>1. FilesLive(l) \subseteq stored'
      BY <1>8, <1>9, <2>3
    <3>2. FilesLive(objLog) \subseteq stored
      BY <1>2, <1>4, <1>5, <2>1, <2>3 DEF ProgressOK, ReadsTable, Copyable
    <3> QED BY <1>8, <3>1, <3>2
  <2> QED BY <2>2, <2>3
<1>18. HeldOK(s)'
  BY <1>2, <1>10, <1>11, <1>12, <1>14, <1>15, <1>16, <1>17 DEF HeldOK
<1> QED BY <1>2, <1>8, <1>18, HeldKept

(* The reads, the end of a failed request, restarts and rest keep the rows *)
(* held.                                                                   *)
LEMMA HeldOtherSteps ==
  ASSUME OneServer, OneInv, HeldInv, NEW s \in Servers,
         \/ CreateView(s) \/ BindView(s) \/ Respond(s)
         \/ CopyFails(s) \/ ExportFails(s) \/ Crash(s)
  PROVE  HeldInv'
<1>1. /\ req \in [Servers -> Request] /\ logDB \in [Servers -> DB \cup {Absent}]
      /\ UNCHANGED <<objLog, acked>>
  BY DEF OneInv, TypeInv, TypeOK, CreateView, BindView, Respond, CopyFails,
         ExportFails, Crash
<1>2. ASSUME Finish(s) PROVE req'[s].pc = "idle"
  BY <1>1, <1>2 DEF Finish, NoRequest
<1>3. CASE CreateView(s) \/ BindView(s) \/ Respond(s)
  <2>1. /\ UNCHANGED <<stored, content, logDB>>
        /\ req[s].pc \in {"view", "bind", "answer"}
    BY <1>3 DEF CreateView, BindView, Respond
  <2>2. req'[s].pc \notin {"purge", "export"}
    BY <1>1, <1>2, <1>3 DEF CreateView, BindView, Respond, Request
  <2> QED BY <1>1, <2>1, <2>2, HeldQuietSteps
<1>4. CASE CopyFails(s)
  <2>1. req[s].pc = "copy" /\ req'[s].pc = "idle" /\ UNCHANGED logDB
    BY <1>2, <1>4 DEF CopyFails
  <2>2. CASE UNCHANGED <<stored, content>>
    BY <1>1, <2>1, <2>2, HeldQuietSteps
  <2>3. CASE Copyable(s) /\ \E f \in Files : WriteParquet(f, NewContent(s, f))
    <3>1. PICK f \in Files : WriteParquet(f, NewContent(s, f))
      BY <2>3
    <3>2. \A g \in Written : content'[g] = content[g]
      BY <3>1 DEF WriteParquet, Written, OneInv, TypeInv, TypeOK
    <3>3. HeldOK(s)'
      BY <1>1, <2>1, <3>1 DEF HeldInv, HeldOK, WriteParquet
    <3> QED BY <1>1, <3>1, <3>2, <3>3, HeldKept DEF WriteParquet
  <2> QED BY <1>4, <2>2, <2>3 DEF CopyFails
<1>5. CASE ExportFails(s)
  <2>1. /\ req[s].pc = "export" /\ req'[s].pc = "idle"
        /\ UNCHANGED <<stored, content, logDB>>
    BY <1>2, <1>5 DEF ExportFails
  <2> QED BY <1>1, <2>1, HeldQuietSteps
<1>6. CASE Crash(s)
  <2>1. /\ logDB'[s] = Absent /\ req'[s].pc = "idle"
        /\ UNCHANGED <<stored, content>>
    BY <1>1, <1>2, <1>6 DEF Crash
  <2> QED BY <1>1, <2>1, HeldQuietSteps
<1> QED BY <1>3, <1>4, <1>5, <1>6

(* An Export commits a log whose new rows are held. *)
LEMMA HeldExport ==
  ASSUME OneServer, OneInv, HeldInv, NEW s \in Servers,
         Export(s) \/ ExportAnswerLost(s)
  PROVE  HeldInv'
<1>1. /\ ExportWrites(s) /\ req[s].pc = "export" /\ Finish(s)
      /\ UNCHANGED <<stored, content, logDB>> /\ objLog' = logDB[s].log
      /\ acked' \subseteq acked \cup NewRows(s)
  BY DEF Export, ExportAnswerLost, ExportWrites, NewRows
<1>2. logDB[s] # Absent /\ objLog' # Absent
  BY <1>1, OneExportCommits
<1>3. acked \cup NewRows(s) \subseteq RowsHeld(logDB[s].log, stored)
  BY <1>1 DEF HeldInv, HeldOK
<1>4. RowsHeld(objLog, stored)' = RowsHeld(logDB[s].log, stored)
  BY <1>1 DEF RowsHeld
<1>5. AckedRowsDurable'
  BY <1>1, <1>3, <1>4 DEF AckedRowsDurable
<1>6. req'[s].pc = "idle"
  BY <1>1 DEF Finish, NoRequest, OneInv, TypeInv, TypeOK
<1>7. HeldOK(s)'
  BY <1>1, <1>2, <1>6 DEF HeldOK
<1> QED BY <1>5, <1>7, OnlyServer DEF HeldInv

(* A purge takes no live file, and a DROP gives up what it destroys. *)
LEMMA HeldDeleteSteps ==
  ASSUME OneServer, OneInv, HeldInv, NEW s \in Servers,
         PurgeFile(s) \/ DropFile(s) \/ DeleteLog(s)
  PROVE  HeldInv'
<1>1. req \in [Servers -> Request] /\ logDB \in [Servers -> DB \cup {Absent}]
  BY DEF OneInv, TypeInv, TypeOK
<1>2. CASE PurgeFile(s)
  <2>1. PICK f \in req[s].pending :
          /\ req' = [req EXCEPT
                       ![s].pending = @ \ {f},
                       ![s].pc = IF req[s].pending = {f} THEN "export" ELSE @]
          /\ stored' \in {stored, stored \ {f}}
    BY <1>2 DEF PurgeFile, Delete
  <2>2. req[s].pc = "purge" /\ UNCHANGED <<objLog, content, logDB, acked>>
    BY <1>2 DEF PurgeFile
  <2>3. /\ req'[s].pc \in {"purge", "export"} /\ req'[s].op = req[s].op
        /\ req'[s].pending \subseteq req[s].pending
    BY <1>1, <2>1, <2>2 DEF Request
  <2>4. /\ logDB[s] # Absent /\ req[s].pending \subseteq Removed(logDB[s].log)
        /\ req[s].op = "vacuum" /\ UpToDate(s)
    BY <2>2 DEF HeldInv, HeldOK, OneInv, TypeInv, RequestOK, ProgressOK
  <2>5. stored \cap FilesLive(logDB[s].log) \subseteq stored'
    BY <2>1, <2>4 DEF FilesLive
  <2>6. NewRows(s)' = {}
    BY <2>3, <2>4 DEF NewRows
  <2>7. objLog # Absent => logDB[s].log = objLog
    BY <2>4 DEF UpToDate
  <2>8. acked \subseteq RowsHeld(logDB[s].log, stored)'
    <3>1. CASE objLog = Absent
      BY <3>1, NothingAcked
    <3>2. CASE objLog # Absent
      <4>1. objLog \in Log
        BY <3>2, OneLogs
      <4>2. HeldIn(content, objLog, stored) \subseteq HeldIn(content, objLog, stored')
        BY <2>5, <2>7, <3>2, <4>1, HeldMore
      <4>3. RowsHeld(logDB[s].log, stored)' = HeldIn(content, objLog, stored')
        BY <2>2, <2>7, <3>2 DEF RowsHeld, HeldIn
      <4> QED BY <4>1, <4>2, <4>3, RowsHeldIsHeldIn DEF HeldInv, AckedRowsDurable
    <3> QED BY <3>1, <3>2
  <2>9. objLog = Absent => FilesLive(logDB[s].log) \subseteq stored'
    BY <2>2, <2>4, <2>5 DEF HeldInv, HeldOK
  <2>10. HeldOK(s)'
    BY <2>2, <2>3, <2>4, <2>6, <2>7, <2>8, <2>9 DEF HeldOK
  <2> QED BY <2>2, <2>5, <2>7, <2>10, HeldKept
<1>3. CASE DropFile(s)
  <2>1. /\ req[s].pc = "unlink" /\ UNCHANGED <<objLog, content>>
        /\ acked' = IF stored' = stored THEN acked
                    ELSE acked \cap RowsHeld(objLog, stored')
        /\ \E f : req' = [req EXCEPT ![s].pending = @ \ {f}]
    BY <1>3 DEF DropFile
  <2>2. req'[s].pc = "unlink"
    BY <1>1, <2>1 DEF Request
  <2>3. AckedRowsDurable'
    BY <2>1 DEF HeldInv, AckedRowsDurable, RowsHeld
  <2> QED BY <2>2, <2>3, OnlyServer DEF HeldInv, HeldOK
<1>4. CASE DeleteLog(s)
  <2>1. /\ logDB'[s] = Absent /\ req'[s].pc = "idle"
        /\ UNCHANGED <<stored, content>>
    BY <1>1, <1>4 DEF DeleteLog, Finish, NoRequest
  <2>2. CASE UNCHANGED <<objLog, acked>>
    BY <2>1, <2>2, HeldQuietSteps
  <2>3. CASE acked' = {}
    BY <2>1, <2>3, OnlyServer DEF HeldInv, HeldOK, AckedRowsDurable
  <2> QED BY <1>4, <2>2, <2>3 DEF DeleteLog
<1> QED BY <1>2, <1>3, <1>4

(* Every step keeps the rows held. *)
LEMMA HeldStep ==
  ASSUME OneServer, OneInv, HeldInv, [Next]_vars
  PROVE  HeldInv'
<1>1. ASSUME NEW s \in Servers, Begin(s) PROVE HeldInv'
  BY <1>1, HeldBegin
<1>2. ASSUME NEW s \in Servers, Step(s) \/ Crash(s) PROVE HeldInv'
  BY <1>2, HeldImportSteps, HeldCopy, HeldOtherSteps, HeldExport, HeldDeleteSteps
  DEF Step
<1>3. CASE Tick \/ Rest \/ UNCHANGED vars
  <2>1. UNCHANGED <<objLog, stored, content, acked, logDB, req>>
    BY <1>3 DEF Tick, Rest, vars
  <2> QED BY <2>1 DEF HeldInv, HeldOK, AckedRowsDurable, RowsHeld, NewRows
<1> QED BY <1>1, <1>2, <1>3 DEF Next

(* The bucket starts with the file of every acknowledged row. *)
LEMMA HeldInit ==
  ASSUME Init
  PROVE  HeldInv
<1> USE ConstantsAssumption
<1>1. \A s \in Servers : HeldOK(s)
  BY DEF Init, HeldOK, NoRequest
<1>2. CASE ~Seeded
  BY <1>1, <1>2 DEF Init, HeldInv, AckedRowsDurable
<1>3. CASE Seeded
  <2>1. PICK f \in Files, t \in TableIds :
          /\ objLog = InsertAdd(InsertMetaData(EmptyLog, t), f)
          /\ stored = {f} /\ acked = {f}
          /\ content = [g \in Files |->
                          IF g = f THEN [rows |-> {f}, table |-> t] ELSE Absent]
    BY <1>3 DEF Init
  <2>2. objLog # Absent
    BY <2>1, LogStatements, EmptyLogType
  <2>3. FilesLive(objLog) = {f} /\ content[f].rows = {f}
    BY <2>1 DEF FilesLive, Removed, InsertAdd, InsertMetaData, EmptyLog
  <2>4. RowsHeld(objLog, stored) = {f}
    BY <2>1, <2>2, <2>3 DEF RowsHeld
  <2> QED BY <1>1, <2>1, <2>4 DEF HeldInv, AckedRowsDurable
<1> QED BY <1>2, <1>3

(* The rows are held in every reachable state. *)
LEMMA HeldInvariance ==
  ASSUME OneServer
  PROVE  Spec => []HeldInv
<1>1. Init => HeldInv
  BY HeldInit
<1>2. OneInv /\ HeldInv /\ [Next]_vars => HeldInv'
  BY HeldStep
<1> QED BY <1>1, <1>2, OneInvariance, PTL DEF Spec

(* A row whose INSERT was acknowledged stays in an object that the bucket  *)
(* holds and the log lists as live, until a DROP deletes that object: no   *)
(* failed statement, restart, VACUUM, or statement on a table that a DROP  *)
(* left half-destroyed takes it away (Log.Insert, Merge, Export, Destroy). *)
THEOREM OneServerKeepsAckedRows ==
  ASSUME OneServer
  PROVE  Spec => []AckedRowsDurable
<1>1. HeldInv => AckedRowsDurable
  BY DEF HeldInv
<1> QED BY <1>1, HeldInvariance, PTL

-----------------------------------------------------------------------------
(***************************************************************************)
(* The table.                                                              *)
(***************************************************************************)

(* What a step does to the committed log, the objects and the              *)
(* acknowledged rows.                                                      *)
LEMMA OneCommitSteps ==
  ASSUME OneServer, OneInv, HeldInv, [Next]_vars
  PROVE  \/ /\ UNCHANGED <<objLog, acked>> /\ RowsOf(objLog)' = RowsOf(objLog)
            /\ Readable' = Readable
         \/ \E s \in Servers :
              /\ ExportWrites(s)
              /\ acked' \in {acked, acked \cup NewRows(s)}
         \/ \E s \in Servers : DropFile(s)
         \/ \E s \in Servers :
              DeleteLog(s) /\ objLog' = Absent /\ acked' = {}
<1> USE ConstantsAssumption
<1> DEFINE Same == /\ UNCHANGED <<objLog, acked>>
                   /\ RowsOf(objLog)' = RowsOf(objLog) /\ Readable' = Readable
<1>1. ASSUME UNCHANGED <<objLog, stored, content, acked>> PROVE Same
  BY <1>1 DEF RowsOf, Readable
<1>2. ASSUME NEW s \in Servers, Begin(s)
      PROVE  UNCHANGED <<objLog, stored, content, acked>>
  BY <1>2 DEF Begin, BeginCreate, BeginInsert, BeginRead, BeginDrop, StartRequest
<1>3. ASSUME NEW s \in Servers,
             \/ CreateView(s) \/ BindView(s) \/ Respond(s)
             \/ LogDDL(s) \/ InsertImport(s) \/ MergeImport(s)
             \/ ExportFails(s) \/ Crash(s)
      PROVE  UNCHANGED <<objLog, stored, content, acked>>
  BY <1>3 DEF CreateView, BindView, Respond, LogDDL, InsertImport, MergeImport,
              AtImport, ExportFails, Crash
<1>4. ASSUME NEW s \in Servers, Copy(s) \/ CopyFails(s) PROVE Same
  <2>1. UNCHANGED <<objLog, acked>> /\ req[s].pc = "copy"
    BY <1>4 DEF Copy, CopyFails
  <2>2. CASE UNCHANGED <<stored, content>>
    BY <1>1, <2>1, <2>2
  <2>3. CASE objLog = Absent
    BY <2>1, <2>3 DEF RowsOf, Readable
  <2>4. CASE /\ objLog # Absent /\ Copyable(s)
             /\ \E f \in Files : WriteParquet(f, NewContent(s, f))
    <3>1. PICK f \in Files : WriteParquet(f, NewContent(s, f))
      BY <2>4
    <3>2. NewContent(s, f) \in Content /\ objLog \in Log /\ objLog.add \subseteq Written
      BY <2>1, <2>4, OneCopied, OneLogs
    <3>3. RowsIn(content', objLog) = RowsIn(content, objLog)
      BY <3>1, <3>2, NewFile DEF OneInv
    <3>4. RowsOf(objLog) = RowsIn(content, objLog)
      BY <3>2, RowsOfIsRowsIn
    <3>5. RowsOf(objLog)' = RowsIn(content', objLog)
      BY <2>1, <2>4 DEF RowsOf, RowsIn
    <3>6. f \notin FilesLive(objLog) /\ stored' = stored \cup {f}
      BY <3>1, <3>2 DEF WriteParquet, Written, FilesLive
    <3>7. Readable' = Readable
      BY <2>1, <3>6 DEF Readable
    <3> QED BY <2>1, <3>3, <3>4, <3>5, <3>7
  <2> QED BY <1>4, <2>2, <2>3, <2>4 DEF Copy, CopyFails
<1>5. ASSUME NEW s \in Servers, Export(s) \/ ExportAnswerLost(s)
      PROVE  ExportWrites(s) /\ acked' \in {acked, acked \cup NewRows(s)}
  BY <1>5 DEF Export, ExportAnswerLost, NewRows
<1>6. ASSUME NEW s \in Servers, PurgeFile(s) PROVE Same
  <2>1. req[s].pc = "purge" /\ UNCHANGED <<objLog, content, acked>>
    BY <1>6 DEF PurgeFile
  <2>2. RowsOf(objLog)' = RowsOf(objLog)
    BY <2>1 DEF RowsOf
  <2>3. CASE objLog = Absent
    BY <2>1, <2>2, <2>3 DEF Readable
  <2>4. CASE objLog # Absent
    <3>1. logDB[s].log = objLog /\ req[s].pending \subseteq Removed(objLog)
      BY <2>1, <2>4 DEF OneInv, ProgressOK, UpToDate, HeldInv, HeldOK
    <3>2. PICK f \in req[s].pending : stored' \in {stored, stored \ {f}}
      BY <1>6 DEF PurgeFile, Delete
    <3>3. f \notin FilesLive(objLog)
      BY <3>1 DEF FilesLive
    <3>4. Readable' = Readable
      BY <2>1, <3>2, <3>3 DEF Readable
    <3> QED BY <2>1, <2>2, <3>4
  <2> QED BY <2>3, <2>4
<1>7. ASSUME NEW s \in Servers, DeleteLog(s)
      PROVE  Same \/ (objLog' = Absent /\ acked' = {})
  BY <1>1, <1>7 DEF DeleteLog
<1>8. CASE Tick \/ Rest \/ UNCHANGED vars
  BY <1>1, <1>8 DEF Tick, Rest, vars
<1> QED BY <1>1, <1>2, <1>3, <1>4, <1>5, <1>6, <1>7, <1>8 DEF Next, Step

(* While the table exists the committed log only gains rows: a statement   *)
(* that follows a failed one commits on top of the log in the bucket       *)
(* (importPersistedLog, Export).                                           *)
THEOREM OneServerLogGrows ==
  ASSUME OneServer
  PROVE  Spec => LogOnlyGrows
<1>1. OneInv /\ HeldInv /\ [Next]_vars =>
        [objLog # Absent /\ objLog' # Absent => Extends(objLog', objLog)]_vars
  <2> SUFFICES ASSUME OneInv, HeldInv, [Next]_vars,
                      objLog # Absent, objLog' # Absent
               PROVE  Extends(objLog', objLog)
    OBVIOUS
  <2>1. CASE UNCHANGED objLog
    BY <2>1, ExtendsReflexive DEF OneInv, TypeInv, TypeOK
  <2>2. CASE \E s \in Servers : ExportWrites(s)
    BY <2>2, OneExportCommits
  <2>3. CASE \E s \in Servers : DropFile(s)
    BY <2>1, <2>3 DEF DropFile
  <2> QED BY <2>1, <2>2, <2>3, OneCommitSteps
<1> QED BY <1>1, OneInvariance, HeldInvariance, PTL DEF Spec, LogOnlyGrows

(* The rows of a log whose files were written are names of files. *)
LEMMA RowsAreFiles ==
  ASSUME TypeInv, NEW l \in Log, l.add \subseteq Written
  PROVE  RowsOf(l) \subseteq Files
<1>1. \A f \in FilesLive(l) : content[f] \in Content
  BY DEF TypeInv, TypeOK, Written, FilesLive
<1>2. \A f \in FilesLive(l) : content[f].rows \subseteq Files
  BY <1>1 DEF Content
<1> QED BY <1>2 DEF RowsOf

(* A DROP TABLE is under way. *)
Dropping == \E s \in Servers : req[s].pc = "unlink"

(* What changes neither the log nor what can be read is a stutter of the   *)
(* table, but for the start or the failure of a DROP.                      *)
LEMMA OneTableStays ==
  ASSUME UNCHANGED <<objLog, acked>>, RowsOf(objLog)' = RowsOf(objLog),
         Readable' = Readable
  PROVE  [T!Next]_(T!vars)
<1>1. CASE Dropping' <=> Dropping
  BY <1>1 DEF T!vars, Dropping
<1>2. CASE Dropping' <=> ~Dropping
  BY <1>2 DEF T!Next, T!Dropping, Dropping
<1> QED BY <1>1, <1>2

(* Nothing is acknowledged or readable while there is no table. *)
LEMMA NoTableNoRows ==
  ASSUME OneInv, objLog = Absent
  PROVE  acked = {} /\ RowsOf(objLog) = {} /\ Readable
BY DEF OneInv, BucketOK, AckedRowsListed, RowsOf, Readable

(* An Export that creates the log creates the table, with the rows that    *)
(* earlier failed statements left in the LOG database.                     *)
LEMMA OneTableCreated ==
  ASSUME OneServer, OneInv, HeldInv, NEW s \in Servers, ExportWrites(s),
         acked' \in {acked, acked \cup NewRows(s)}, objLog = Absent
  PROVE  [T!Next]_(T!vars)
<1> USE ConstantsAssumption
<1>1. /\ logDB[s] # Absent /\ objLog' = logDB[s].log /\ objLog' \in Log
      /\ objLog' # Absent /\ HasTable(objLog')
      /\ RowsOf(objLog)' = RowsOf(logDB[s].log)
      /\ NewRows(s) \subseteq RowsOf(objLog)'
  BY OneExportCommits
<1>2. acked = {} /\ RowsOf(objLog) = {} /\ Readable
  BY NoTableNoRows
<1>3. req[s].pc = "export" /\ Finish(s) /\ UNCHANGED stored
  BY DEF ExportWrites
<1>4. Readable'
  <2>1. FilesLive(logDB[s].log) \subseteq stored
    BY <1>1, <1>3 DEF HeldInv, HeldOK
  <2> QED BY <1>1, <1>3, <2>1 DEF Readable
<1>5. ~Dropping /\ ~Dropping'
  <2>1. req'[s].pc = "idle"
    BY <1>3 DEF Finish, NoRequest, OneInv, TypeInv, TypeOK
  <2> QED BY <1>3, <2>1, OnlyServer DEF Dropping
<1>6. PICK t \in TableIds : t = SchemaOf(objLog')
  BY <1>1, LogQueries
<1>7. CASE RowsOf(objLog)' = {}
  <2>1. acked' = acked
    BY <1>1, <1>7
  <2>2. T!Create(t)
    BY <1>1, <1>2, <1>4, <1>5, <1>6, <1>7, <2>1 DEF T!Create, Dropping
  <2> QED BY <2>2 DEF T!Next
<1>8. CASE RowsOf(objLog)' # {}
  <2>1. PICK R : R = RowsOf(objLog)'
    OBVIOUS
  <2>2. R \in (SUBSET Files) \ {{}}
    BY <1>1, <1>8, <2>1, OneLogs, RowsAreFiles DEF OneInv
  <2>3. NewRows(s) = {} \/ \E f : NewRows(s) = {f}
    BY DEF NewRows
  <2>4. acked' \in {{}} \cup {{r} : r \in R}
    BY <1>1, <1>2, <2>1, <2>3
  <2>5. T!CreateLate(R, t)
    BY <1>1, <1>2, <1>4, <1>5, <1>6, <2>1, <2>4 DEF T!CreateLate, Dropping
  <2> QED BY <2>2, <2>5 DEF T!Next
<1> QED BY <1>7, <1>8

(* An Export over a log commits the rows of one INSERT or none, and leaves *)
(* a whole table whole and a torn one torn.                                *)
LEMMA OneTableCommit ==
  ASSUME OneServer, OneInv, HeldInv, NEW s \in Servers, ExportWrites(s),
         acked' \in {acked, acked \cup NewRows(s)}, objLog # Absent
  PROVE  [T!Next]_(T!vars)
<1> USE ConstantsAssumption
<1>1. /\ logDB[s] # Absent /\ objLog' = logDB[s].log /\ objLog' \in Log
      /\ objLog' # Absent
      /\ RowsOf(objLog)' = RowsOf(objLog) \cup NewRows(s)
      /\ NewRows(s) \cap RowsOf(objLog) = {}
      /\ RowsOf(objLog)' = RowsOf(logDB[s].log)
  BY OneExportCommits
<1>2. req[s].pc = "export" /\ Finish(s) /\ UNCHANGED stored
  BY DEF ExportWrites
<1>3. Readable' <=> Readable
  BY <1>1, <1>2 DEF HeldInv, HeldOK, Readable
<1>4. ~Dropping /\ ~Dropping'
  <2>1. req'[s].pc = "idle"
    BY <1>2 DEF Finish, NoRequest, OneInv, TypeInv, TypeOK
  <2> QED BY <1>2, <2>1, OnlyServer DEF Dropping
<1>5. SchemaOf(objLog') = SchemaOf(objLog)
  BY <1>1 DEF OneInv, DatabaseOK
<1>6. CASE NewRows(s) = {}
  BY <1>1, <1>3, <1>4, <1>5, <1>6 DEF T!vars, Dropping
<1>7. CASE NewRows(s) # {}
  <2>1. PICK f : NewRows(s) = {f}
    BY <1>7 DEF NewRows
  <2>2. f \in Files
    BY <1>1, <2>1, OneLogs, RowsAreFiles DEF OneInv
  <2>3. CASE Readable
    <3>1. T!Insert(f)
      BY <1>1, <1>3, <1>4, <1>5, <2>1, <2>3 DEF T!Insert, Dropping
    <3> QED BY <2>2, <3>1 DEF T!Next
  <2>4. CASE ~Readable /\ acked' = acked
    BY <1>1, <1>3, <1>4, <1>5, <2>4 DEF T!vars, Dropping
  <2>5. CASE ~Readable /\ acked' = acked \cup {f}
    <3>1. T!InsertTorn(f)
      BY <1>1, <1>3, <1>4, <1>5, <2>5 DEF T!InsertTorn, Dropping
    <3> QED BY <2>2, <3>1 DEF T!Next
  <2> QED BY <2>1, <2>3, <2>4, <2>5
<1> QED BY <1>6, <1>7

(* Each object a DROP deletes leaves the table as it is or tears it. *)
LEMMA OneTableDropFile ==
  ASSUME OneServer, OneInv, NEW s \in Servers, DropFile(s)
  PROVE  [T!Next]_(T!vars)
<1> USE ConstantsAssumption
<1>1. /\ req[s].pc = "unlink" /\ UNCHANGED <<objLog, content>>
      /\ RowsOf(objLog)' = RowsOf(objLog) /\ stored' \subseteq stored
      /\ acked' = acked \/ acked' = acked \cap RowsHeld(objLog, stored')
  BY DEF DropFile, Delete, RowsOf
<1>2. req'[s].pc = "unlink"
  BY <1>1 DEF DropFile, OneInv, TypeInv, TypeOK, Request
<1>3. Dropping /\ Dropping'
  BY <1>1, <1>2 DEF Dropping
<1>4. CASE objLog = Absent
  <2>1. acked' = acked /\ Readable /\ Readable'
    BY <1>1, <1>4, NoTableNoRows DEF Readable
  <2> QED BY <1>1, <2>1, OneTableStays
<1>5. CASE objLog # Absent /\ Readable'
  <2>1. FilesLive(objLog) \subseteq stored' /\ Readable
    BY <1>1, <1>5 DEF Readable
  <2>2. acked \subseteq RowsHeld(objLog, stored')
    <3>1. FilesLive(objLog) \cap stored' = FilesLive(objLog)
      BY <2>1
    <3>2. RowsHeld(objLog, stored') = RowsOf(objLog)
      BY <3>1 DEF RowsHeld, RowsOf
    <3> QED BY <3>2 DEF OneInv, BucketOK, AckedRowsListed
  <2>3. acked' = acked
    BY <1>1, <2>2
  <2> QED BY <1>1, <1>5, <2>1, <2>3, OneTableStays
<1>6. CASE objLog # Absent /\ ~Readable'
  <2>1. T!Tear
    BY <1>1, <1>3, <1>6 DEF T!Tear, Dropping
  <2> QED BY <2>1 DEF T!Next
<1> QED BY <1>4, <1>5, <1>6

(* The deletion of the log ends the DROP and the table. *)
LEMMA OneTableDropped ==
  ASSUME OneServer, OneInv, NEW s \in Servers, DeleteLog(s),
         objLog' = Absent, acked' = {}
  PROVE  [T!Next]_(T!vars)
<1>1. req[s].pc = "unlink" /\ req'[s].pc = "idle"
  BY DEF DeleteLog, Finish, NoRequest, OneInv, TypeInv, TypeOK
<1>2. Dropping /\ ~Dropping'
  BY <1>1, OnlyServer DEF Dropping
<1>3. Readable' /\ RowsOf(objLog)' = {}
  BY DEF Readable, RowsOf
<1>4. CASE objLog = Absent
  <2>1. T!Dropping
    BY <1>2, <1>3, <1>4, NoTableNoRows DEF T!Dropping, Dropping
  <2> QED BY <2>1 DEF T!Next
<1>5. CASE objLog # Absent
  <2>1. T!Drop
    BY <1>2, <1>3, <1>5 DEF T!Drop, Dropping
  <2> QED BY <2>1 DEF T!Next
<1> QED BY <1>4, <1>5

(* One server implements the abstract table.  Every CREATE and INSERT      *)
(* takes effect at one instant or not at all; a CREATE answered with an    *)
(* error may take effect later, with the statement that next commits.  A   *)
(* DROP that stops after it has deleted a live object leaves a table that  *)
(* cannot be read until it is dropped again; it stays torn whatever else   *)
(* runs, and no INSERT, VACUUM or restart revives a destroyed row          *)
(* (Destroy, Export, importPersistedLog).                                  *)
THEOREM OneServerImplementsTable ==
  ASSUME OneServer
  PROVE  Spec => ImplementsTable
<1> USE ConstantsAssumption
<1>1. Init => T!Init
  <2> SUFFICES ASSUME Init PROVE T!Init
    OBVIOUS
  <2>1. ~Dropping
    BY DEF Init, NoRequest, Dropping
  <2>2. CASE ~Seeded
    BY <2>1, <2>2 DEF Init, T!Init, RowsOf, Readable, Dropping
  <2>3. CASE Seeded
    <3>1. PICK f \in Files, t \in TableIds :
            /\ objLog = InsertAdd(InsertMetaData(EmptyLog, t), f)
            /\ acked = {f} /\ stored = {f}
            /\ content = [g \in Files |->
                            IF g = f THEN [rows |-> {f}, table |-> t] ELSE Absent]
      BY <2>3 DEF Init
    <3>2. objLog # Absent
      BY <3>1, LogStatements, EmptyLogType
    <3>3. FilesLive(objLog) = {f} /\ content[f].rows = {f} /\ objLog.meta = <<t>>
      BY <3>1 DEF FilesLive, Removed, InsertAdd, InsertMetaData, EmptyLog
    <3>4. RowsOf(objLog) = {f} /\ Readable /\ SchemaOf(objLog) = t
      BY <3>1, <3>2, <3>3 DEF RowsOf, Readable, SchemaOf
    <3> QED BY <2>1, <3>1, <3>2, <3>4 DEF T!Init, Dropping
  <2> QED BY <2>2, <2>3
<1>2. OneInv /\ HeldInv /\ [Next]_vars => [T!Next]_(T!vars)
  BY OneCommitSteps, OneTableStays, OneTableCreated, OneTableCommit,
     OneTableDropFile, OneTableDropped
<1> QED
  BY <1>1, <1>2, OneInvariance, HeldInvariance, PTL
  DEF Spec, ImplementsTable, T!Spec

=============================================================================
