------------------------- MODULE SharedTableProofs --------------------------
(***************************************************************************)
(* Proofs about servers that insert into, read and VACUUM a table that     *)
(* already holds a file, when a failed GetObject of the log is not taken   *)
(* for a missing log: their statements are atomic and durable.  Runs       *)
(* create_race, stale_vacuum and read_fault show why each assumption is    *)
(* needed.                                                                 *)
(***************************************************************************)
EXTENDS DuckpondProofs

(* The table exists, nobody creates or drops it, its log can be read. *)
SharedTable ==
  /\ Seeded
  /\ Ops \subseteq {"insert", "select", "vacuum"}
  /\ "read" \notin FaultKinds

-----------------------------------------------------------------------------
(***************************************************************************)
(* The inductive invariant.  A server's ETag is an earlier version of the  *)
(* committed log, and versions only grow; so when the ETag matches, the    *)
(* log that an Export writes is that version and the rows of one statement.*)
(***************************************************************************)

(* The committed log lists the rows that were acknowledged. *)
AckedRowsListed == acked \subseteq RowsOf(objLog)

(* The rows a request about to export adds to the table. *)
NewRows(s) == IF req[s].op = "insert" THEN {req[s].file} ELSE {}

CommittedLogOK ==
  /\ objLog # Absent
  /\ FilesLive(objLog) # {}
  /\ TombstonesAdded(objLog)

OpenLogDBOK(s) ==
  LET db == logDB[s] IN
  db # Absent =>
    /\ db.etag # Absent
    /\ Extends(objLog, db.etag)
    /\ TombstonesAdded(db.etag)
    /\ FilesLive(db.log) # {}

(* What the steps of a request have established when it is at pc. *)
StatementOK(s) ==
  LET r == req[s]  db == logDB[s] IN
  /\ r.pc = "unlink" => FALSE
  /\ r.pc = "import" => r.op \in {"insert", "vacuum"}
  /\ r.pc \in {"import", "bind", "copy"} /\ r.op # "insert" => r.tmp = View
  /\ r.pc = "purge" => r.op = "vacuum"
  /\ r.pc \in {"copy", "purge"} \/ (r.pc = "bind" /\ r.op # "select")
       => db.log = db.etag
  /\ r.pc = "copy" /\ r.op # "insert"
       => Extends(r.snap, db.etag) /\ Extends(objLog, r.snap)
  /\ r.pc = "export" =>
       /\ Extends(db.log, db.etag)
       /\ TombstonesAdded(db.log)
       /\ db.etag = objLog =>
            /\ RowsOf(db.log) = RowsOf(objLog) \cup NewRows(s)
            /\ NewRows(s) \cap RowsOf(objLog) = {}

SharedInv ==
  /\ TypeInv
  /\ CommittedLogOK
  /\ AckedRowsListed
  /\ \A f \in Written : content[f].rows \subseteq Written
  /\ \A s \in Servers : OpenLogDBOK(s) /\ StatementOK(s)

(* The rows of log l when the parquet files have content c. *)
RowsIn(c, l) == UNION {c[f].rows : f \in FilesLive(l)}

(* The rows of a log depend on the content of its live files only. *)
LEMMA RowsOfIsRowsIn ==
  ASSUME NEW l \in Log
  PROVE  RowsOf(l) = RowsIn(content, l)
BY ConstantsAssumption DEF RowsOf, RowsIn

(* Writing other files does not change the rows of a log. *)
LEMMA RowsInUnchanged ==
  ASSUME NEW c, NEW d, NEW l \in Log, \A f \in l.add : c[f] = d[f]
  PROVE  RowsIn(c, l) = RowsIn(d, l)
<1>1. \A f \in FilesLive(l) : c[f].rows = d[f].rows
  BY DEF FilesLive
<1> QED BY <1>1 DEF RowsIn

(* The logs of a state that satisfies the invariant. *)
LEMMA SharedLogs ==
  ASSUME SharedInv
  PROVE  /\ objLog \in Log /\ objLog.add \subseteq Written
         /\ \A t \in Servers : logDB[t] # Absent =>
              /\ logDB[t].log \in Log /\ logDB[t].log.add \subseteq Written
              /\ logDB[t].etag \in Log /\ logDB[t].etag.add \subseteq Written
<1> USE ConstantsAssumption
<1>1. objLog \in Log /\ objLog.add \subseteq Written
  BY DEF SharedInv, TypeInv, TypeOK, LogsListWritten, CommittedLogOK
<1>2. ASSUME NEW t \in Servers, logDB[t] # Absent
      PROVE  /\ logDB[t].log \in Log /\ logDB[t].log.add \subseteq Written
             /\ logDB[t].etag \in Log /\ logDB[t].etag.add \subseteq Written
  <2>1. /\ logDB[t].log \in Log /\ logDB[t].log.add \subseteq Written
        /\ logDB[t].etag \in Log
    BY <1>2 DEF SharedInv, TypeInv, TypeOK, LogsListWritten, OpenLogDBOK, DB
  <2>2. Extends(objLog, logDB[t].etag)
    BY <1>2 DEF SharedInv, OpenLogDBOK
  <2> QED BY <1>1, <2>1, <2>2 DEF Extends
<1> QED BY <1>1, <1>2

(* A server that does nothing keeps its part of the invariant while        *)
(* another one commits an extension of the log or writes new files.        *)
LEMMA OtherServer ==
  ASSUME SharedInv, NEW t \in Servers,
         logDB'[t] = logDB[t], req'[t] = req[t],
         objLog' \in Log, Extends(objLog', objLog),
         \A f \in Written : content'[f] = content[f]
  PROVE  OpenLogDBOK(t)' /\ StatementOK(t)'
<1> USE ConstantsAssumption
<1>1. OpenLogDBOK(t) /\ StatementOK(t) /\ RequestOK(t)
  BY DEF SharedInv, TypeInv
<1>2. OpenLogDBOK(t)'
  <2> SUFFICES ASSUME logDB[t] # Absent PROVE Extends(objLog', logDB[t].etag)
    BY <1>1 DEF OpenLogDBOK
  <2>1. Extends(objLog, logDB[t].etag)
    BY <1>1 DEF OpenLogDBOK
  <2> QED BY <2>1, SharedLogs, ExtendsTransitive
<1>3. ASSUME req[t].pc = "copy", req[t].op # "insert"
      PROVE  Extends(objLog', req[t].snap)
  <2>1. Extends(objLog, req[t].snap)
    BY <1>1, <1>3 DEF StatementOK
  <2>2. req[t].snap \in Log
    BY <1>1, <1>3 DEF SharedInv, TypeInv, TypeOK, RequestOK, StatementOK, Request
  <2> QED BY <2>1, <2>2, SharedLogs, ExtendsTransitive
<1>4. ASSUME req[t].pc = "export", logDB[t].etag = objLog'
      PROVE  /\ RowsOf(logDB[t].log)' = RowsOf(objLog)' \cup NewRows(t)'
             /\ NewRows(t)' \cap RowsOf(objLog)' = {}
  <2>1. logDB[t] # Absent
    BY <1>1, <1>4 DEF RequestOK
  <2>2. Extends(objLog, logDB[t].etag)
    BY <1>1, <2>1 DEF OpenLogDBOK
  <2>3. objLog' = objLog
    BY <1>4, <2>2, SharedLogs, ExtendsAntisymmetric
  <2>4. /\ RowsOf(logDB[t].log) = RowsOf(objLog) \cup NewRows(t)
        /\ NewRows(t) \cap RowsOf(objLog) = {}
    BY <1>1, <1>4, <2>3 DEF StatementOK
  <2>5. /\ RowsIn(content', logDB[t].log) = RowsIn(content, logDB[t].log)
        /\ RowsIn(content', objLog) = RowsIn(content, objLog)
    <3>1. \A f \in logDB[t].log.add : content'[f] = content[f]
      BY <2>1, SharedLogs
    <3>2. \A f \in objLog.add : content'[f] = content[f]
      BY SharedLogs
    <3> QED BY <2>1, <3>1, <3>2, SharedLogs, RowsInUnchanged
  <2>6. /\ RowsOf(logDB[t].log)' = RowsIn(content', logDB[t].log)
        /\ RowsOf(objLog)' = RowsIn(content', objLog)
    BY <2>1, <2>3, SharedLogs DEF RowsOf, RowsIn
  <2>7. /\ RowsOf(logDB[t].log) = RowsIn(content, logDB[t].log)
        /\ RowsOf(objLog) = RowsIn(content, objLog)
    BY <2>1, SharedLogs, RowsOfIsRowsIn
  <2>8. NewRows(t)' = NewRows(t)
    BY DEF NewRows
  <2> QED BY <2>4, <2>5, <2>6, <2>7, <2>8
<1>5. StatementOK(t)'
  BY <1>1, <1>3, <1>4 DEF StatementOK
<1> QED BY <1>2, <1>5

(* A step on one server that commits nothing. *)
LEMMA LocalStep ==
  ASSUME SharedInv, TypeInv', NEW s \in Servers,
         UNCHANGED <<objLog, content, acked>>,
         \A t \in Servers \ {s} : logDB'[t] = logDB[t] /\ req'[t] = req[t],
         OpenLogDBOK(s)', StatementOK(s)'
  PROVE  SharedInv'
<1>1. Written' = Written
  BY DEF Written
<1>2. \A t \in Servers : OpenLogDBOK(t)' /\ StatementOK(t)'
  <2>1. objLog' \in Log /\ Extends(objLog', objLog)
    BY SharedLogs, ExtendsReflexive
  <2> QED BY <2>1, OtherServer
<1>3. CommittedLogOK' /\ AckedRowsListed'
  BY DEF SharedInv, CommittedLogOK, AckedRowsListed, RowsOf
<1> QED BY <1>1, <1>2, <1>3 DEF SharedInv

(* An import gives the server the committed log. *)
LEMMA ImportsCommitted ==
  ASSUME SharedTable, SharedInv, NEW got \in {objLog, Absent}, ReadLog(got)
  PROVE  /\ got = objLog
         /\ \A db : ImportPersistedLog(db, got) = [log |-> objLog, etag |-> objLog]
BY DEF SharedTable, SharedInv, CommittedLogOK, ReadLog, Fault, ImportPersistedLog

(* A LOG database that holds the committed log and its ETag is in order. *)
LEMMA ImportedOK ==
  ASSUME SharedInv, NEW s \in Servers, UNCHANGED objLog,
         logDB'[s] = [log |-> objLog, etag |-> objLog]
  PROVE  OpenLogDBOK(s)' /\ logDB'[s].log = logDB'[s].etag
BY SharedLogs, ExtendsReflexive DEF OpenLogDBOK, SharedInv, CommittedLogOK

(* A request that arrives finds or opens a LOG database that is in order. *)
LEMMA RequestStarted ==
  ASSUME SharedTable, SharedInv, NEW s \in Servers, NEW o, StartRequest(s, o)
  PROVE  /\ OpenLogDBOK(s)' /\ logDB'[s] # Absent
         /\ logDB'[s] \in {logDB[s], [log |-> objLog, etag |-> objLog]}
         /\ \A t \in Servers \ {s} : logDB'[t] = logDB[t]
         /\ UNCHANGED <<objLog, stored, content, acked, clock>>
         /\ req[s].pc = "idle"
         /\ o \in {"insert", "select", "vacuum"}
<1> USE ConstantsAssumption
<1>1. /\ GetLogDB(s) /\ req[s].pc = "idle" /\ o \in Ops
      /\ UNCHANGED <<objLog, stored, content, acked, clock>>
  BY DEF StartRequest
<1>2. CASE logDB[s] # Absent /\ UNCHANGED <<logDB, faults>>
  BY <1>1, <1>2 DEF SharedInv, OpenLogDBOK, SharedTable
<1>3. CASE \E got \in {objLog, Absent} :
             /\ ReadLog(got)
             /\ logDB' = [logDB EXCEPT ![s] = ImportPersistedLog(FreshDB, got)]
  <2>1. logDB' = [logDB EXCEPT ![s] = [log |-> objLog, etag |-> objLog]]
    BY <1>3, ImportsCommitted
  <2>2. /\ logDB'[s] = [log |-> objLog, etag |-> objLog]
        /\ \A t \in Servers \ {s} : logDB'[t] = logDB[t]
    BY <2>1 DEF SharedInv, TypeInv, TypeOK
  <2>3. logDB'[s] # Absent
    BY <1>1, GetLogDBType DEF SharedInv
  <2> QED BY <1>1, <2>2, <2>3, ImportedOK DEF SharedTable
<1> QED BY <1>1, <1>2, <1>3 DEF GetLogDB

(* The arrival of a request preserves the invariant. *)
LEMMA SharedBegin ==
  ASSUME SharedTable, SharedInv, TypeInv', NEW s \in Servers, Begin(s)
  PROVE  SharedInv'
<1> USE ConstantsAssumption
<1>1. ASSUME NEW o, StartRequest(s, o)
      PROVE  /\ OpenLogDBOK(s)' /\ logDB'[s] # Absent
             /\ \A t \in Servers \ {s} : logDB'[t] = logDB[t]
             /\ UNCHANGED <<objLog, content, acked>>
             /\ req[s].pc = "idle"
             /\ o \in {"insert", "select", "vacuum"}
  BY <1>1, RequestStarted
<1>2. ASSUME NEW o, StartRequest(s, o),
             \/ UNCHANGED req
             \/ \E r : /\ req' = [req EXCEPT ![s] = r]
                       /\ r.pc = "view" \/ (r.pc = "import" /\ r.op = "insert")
      PROVE  SharedInv'
  <2>1. CASE UNCHANGED req
    <3>1. StatementOK(s)'
      BY <1>1, <1>2, <2>1 DEF StatementOK
    <3> QED BY <1>1, <1>2, <2>1, <3>1, LocalStep
  <2>2. CASE \E r : /\ req' = [req EXCEPT ![s] = r]
                    /\ r.pc = "view" \/ (r.pc = "import" /\ r.op = "insert")
    <3>1. /\ req'[s].pc = "view" \/ (req'[s].pc = "import" /\ req'[s].op = "insert")
          /\ \A t \in Servers \ {s} : req'[t] = req[t]
      BY <2>2 DEF SharedInv, TypeInv, TypeOK
    <3>2. StatementOK(s)'
      BY <3>1 DEF StatementOK
    <3> QED BY <1>1, <1>2, <3>1, <3>2, LocalStep
  <2> QED BY <1>2, <2>1, <2>2
<1>3. ASSUME NEW o \in AllOps, BeginCreate(s, o) PROVE FALSE
  BY <1>1, <1>3 DEF BeginCreate
<1>4. ASSUME BeginInsert(s) PROVE SharedInv'
  <2>1. CASE UNCHANGED req
    BY <1>2, <1>4, <2>1 DEF BeginInsert
  <2>2. CASE req' = [req EXCEPT ![s] = [NoRequest EXCEPT
                     !.pc = "import", !.op = "insert",
                     !.tmp = SchemaOf(logDB'[s].log)]]
    <3> DEFINE r == [NoRequest EXCEPT !.pc = "import", !.op = "insert",
                                      !.tmp = SchemaOf(logDB'[s].log)]
    <3>1. r.pc = "import" /\ r.op = "insert"
      BY DEF NoRequest
    <3>2. req' = [req EXCEPT ![s] = r]
      BY <2>2
    <3> HIDE DEF r
    <3> QED BY <1>2, <1>4, <3>1, <3>2 DEF BeginInsert
  <2> QED BY <1>4, <2>1, <2>2 DEF BeginInsert
<1>5. ASSUME NEW o \in AllOps, BeginRead(s, o) PROVE SharedInv'
  <2>1. StartRequest(s, o)
    BY <1>5 DEF BeginRead
  <2>2. FilesLive(logDB'[s].log) # {}
    BY <1>1, <2>1 DEF OpenLogDBOK
  <2> DEFINE r == [[NoRequest EXCEPT !.op = o,
                      !.floor = IF o = "select" THEN acked ELSE {}]
                   EXCEPT !.pc = "view"]
  <2>3. req' = [req EXCEPT ![s] = r]
    BY <1>5, <2>2 DEF BeginRead
  <2>4. r.pc = "view"
    BY DEF NoRequest
  <2> HIDE DEF r
  <2> QED BY <1>2, <2>1, <2>3, <2>4
<1>6. ASSUME BeginDrop(s) PROVE FALSE
  BY <1>1, <1>6 DEF BeginDrop
<1> QED BY <1>3, <1>4, <1>5, <1>6 DEF Begin

(* The end of a request that commits nothing. *)
LEMMA SharedFinish ==
  ASSUME SharedInv, TypeInv', NEW s \in Servers, Finish(s),
         UNCHANGED <<objLog, content, acked, logDB>>
  PROVE  SharedInv'
<1>1. /\ req'[s].pc = "idle"
      /\ \A t \in Servers \ {s} : req'[t] = req[t]
  BY DEF Finish, NoRequest, SharedInv, TypeInv, TypeOK
<1>2. OpenLogDBOK(s)' /\ StatementOK(s)'
  BY <1>1 DEF SharedInv, OpenLogDBOK, StatementOK
<1> QED BY <1>1, <1>2, LocalStep

(* The steps that open and read the view preserve the invariant. *)
LEMMA SharedReadSteps ==
  ASSUME SharedTable, SharedInv, TypeInv', NEW s \in Servers,
         CreateView(s) \/ BindView(s) \/ Respond(s)
  PROVE  SharedInv'
<1> USE ConstantsAssumption
<1>1. UNCHANGED <<objLog, stored, content, logDB, minted, acked, clock,
                  requests, faults, crashes>>
  BY DEF CreateView, BindView, Respond
<1>2. CASE Finish(s)
  BY <1>1, <1>2, SharedFinish
<1>3. /\ OpenLogDBOK(s)' /\ StatementOK(s) /\ RequestOK(s)
      /\ req \in [Servers -> Request]
  BY <1>1 DEF SharedInv, TypeInv, TypeOK, OpenLogDBOK
<1>4. CASE /\ req[s].pc = "view"
           /\ req' = [req EXCEPT ![s].tmp = View,
                        ![s].pc = IF req[s].op = "select" THEN "bind"
                                  ELSE "import"]
  <2>1. /\ req'[s].tmp = View /\ req'[s].op = req[s].op
        /\ req'[s].pc = IF req[s].op = "select" THEN "bind" ELSE "import"
        /\ \A t \in Servers \ {s} : req'[t] = req[t]
    BY <1>3, <1>4 DEF Request
  <2>2. req[s].op \in {"select", "vacuum"}
    BY <1>3, <1>4 DEF RequestOK
  <2>3. StatementOK(s)'
    BY <2>1, <2>2 DEF StatementOK
  <2> QED BY <1>1, <1>3, <2>1, <2>3, LocalStep
<1>5. CASE /\ req[s].pc = "bind" /\ Bindable
           /\ req' = [req EXCEPT ![s].snap = objLog,
                        ![s].pc = IF req[s].op = "select" THEN "answer"
                                  ELSE "copy"]
  <2>1. /\ req'[s].tmp = req[s].tmp /\ req'[s].op = req[s].op
        /\ req'[s].snap = objLog
        /\ req'[s].pc = IF req[s].op = "select" THEN "answer" ELSE "copy"
        /\ \A t \in Servers \ {s} : req'[t] = req[t]
    BY <1>3, <1>5 DEF Request
  <2>2. logDB[s] # Absent
    BY <1>3, <1>5 DEF RequestOK
  <2>3. Extends(objLog, logDB[s].etag) /\ Extends(objLog, objLog)
    BY <2>2, SharedLogs, ExtendsReflexive DEF SharedInv, OpenLogDBOK
  <2>4. StatementOK(s)'
    BY <1>1, <1>3, <1>5, <2>1, <2>3 DEF StatementOK
  <2> QED BY <1>1, <1>3, <2>1, <2>4, LocalStep
<1> QED BY <1>2, <1>4, <1>5 DEF CreateView, BindView, Respond

(* The imports preserve the invariant. *)
LEMMA SharedImportSteps ==
  ASSUME SharedTable, SharedInv, TypeInv', NEW s \in Servers,
         LogDDL(s) \/ InsertImport(s) \/ MergeImport(s)
  PROVE  SharedInv'
<1> USE ConstantsAssumption
<1>1. /\ UNCHANGED <<objLog, content, acked>> /\ req[s].pc = "import"
      /\ StatementOK(s) /\ req \in [Servers -> Request]
  BY DEF LogDDL, InsertImport, MergeImport, AtImport, SharedInv, TypeInv, TypeOK
<1>2. ASSUME NEW got \in {objLog, Absent}, ReadLog(got),
             logDB' = [logDB EXCEPT ![s] = Imported(s, got)]
      PROVE  /\ OpenLogDBOK(s)' /\ logDB'[s].log = logDB'[s].etag
             /\ \A t \in Servers \ {s} : logDB'[t] = logDB[t]
  <2>1. logDB' = [logDB EXCEPT ![s] = [log |-> objLog, etag |-> objLog]]
    BY <1>2, ImportsCommitted DEF Imported
  <2>2. /\ logDB'[s] = [log |-> objLog, etag |-> objLog]
        /\ \A t \in Servers \ {s} : logDB'[t] = logDB[t]
    BY <2>1 DEF SharedInv, TypeInv, TypeOK
  <2> QED BY <1>1, <2>2, ImportedOK
<1>3. CASE LogDDL(s)
  BY <1>1, <1>3 DEF LogDDL, AtImport, StatementOK
<1>4. CASE InsertImport(s)
  <2>1. /\ OpenLogDBOK(s)' /\ logDB'[s].log = logDB'[s].etag
        /\ \A t \in Servers \ {s} : logDB'[t] = logDB[t]
    BY <1>2, <1>4 DEF InsertImport
  <2>2. /\ req[s].op = "insert" /\ req' = [req EXCEPT ![s].pc = "copy"]
    BY <1>4 DEF InsertImport, AtImport
  <2>3. /\ req'[s].pc = "copy" /\ req'[s].op = "insert"
        /\ \A t \in Servers \ {s} : req'[t] = req[t]
    BY <1>1, <2>2 DEF Request
  <2>4. StatementOK(s)'
    BY <2>1, <2>3 DEF StatementOK
  <2> QED BY <1>1, <2>1, <2>3, <2>4, LocalStep
<1>5. CASE MergeImport(s)
  <2>1. /\ OpenLogDBOK(s)' /\ logDB'[s].log = logDB'[s].etag
        /\ \A t \in Servers \ {s} : logDB'[t] = logDB[t]
    BY <1>2, <1>5 DEF MergeImport
  <2>2. req[s].op = "vacuum" /\ req[s].tmp = View
    BY <1>1, <1>5 DEF MergeImport, AtImport, StatementOK
  <2>3. PICK marked :
          req' = [req EXCEPT
                    ![s].pending = marked,
                    ![s].pc = IF marked # {} THEN "purge"
                              ELSE IF req[s].tmp = View THEN "bind" ELSE "copy"]
    BY <1>5 DEF MergeImport
  <2> DEFINE next == IF marked # {} THEN "purge" ELSE "bind"
             r == [req[s] EXCEPT !.pending = marked, !.pc = next]
  <2>4. req' = [req EXCEPT ![s] = r]
    BY <1>1, <2>2, <2>3 DEF Request
  <2>5. /\ r.pc = next /\ r.op = "vacuum" /\ r.tmp = View
        /\ next \in {"purge", "bind"}
    BY <1>1, <2>2 DEF Request
  <2> HIDE DEF next, r
  <2>6. /\ req'[s].pc \in {"purge", "bind"} /\ req'[s].op = "vacuum"
        /\ req'[s].tmp = View
        /\ \A t \in Servers \ {s} : req'[t] = req[t]
    BY <1>1, <2>4, <2>5
  <2>7. StatementOK(s)'
    BY <2>1, <2>6 DEF StatementOK
  <2> QED BY <1>1, <2>1, <2>6, <2>7, LocalStep
<1> QED BY <1>3, <1>4, <1>5

(* The rows of a log whose files were written are rows of written files. *)
LEMMA RowsWritten ==
  ASSUME SharedInv, NEW l \in Log, l.add \subseteq Written
  PROVE  RowsIn(content, l) \subseteq Written
BY DEF SharedInv, RowsIn, FilesLive

(* A new parquet object changes no other, and no rows of the table. *)
LEMMA NewFile ==
  ASSUME TypeInv, NEW f \in Files, NEW c \in Content, WriteParquet(f, c)
  PROVE  /\ f \notin Written
         /\ content'[f] = c
         /\ Written' = Written \cup {f}
         /\ \A g \in Written : content'[g] = content[g]
         /\ \A l \in Log : l.add \subseteq Written =>
              RowsIn(content', l) = RowsIn(content, l)
<1>1. f \notin Written
  BY DEF WriteParquet, Written
<1>2. content'[f] = c /\ \A g \in Files \ {f} : content'[g] = content[g]
  BY DEF WriteParquet, TypeInv, TypeOK
<1>3. Written' = Written \cup {f}
  BY WriteParquetType
<1>4. \A g \in Written : content'[g] = content[g]
  BY <1>1, <1>2 DEF Written
<1>5. ASSUME NEW l \in Log, l.add \subseteq Written
      PROVE  RowsIn(content', l) = RowsIn(content, l)
  BY <1>4, <1>5, RowsInUnchanged
<1> QED BY <1>1, <1>2, <1>3, <1>4, <1>5

(* A step on one server that writes a parquet object. *)
LEMMA NewFileStep ==
  ASSUME SharedInv, TypeInv', NEW s \in Servers,
         NEW f \in Files, NEW c \in Content, WriteParquet(f, c),
         c.rows \subseteq Written \cup {f},
         UNCHANGED <<objLog, acked>>,
         \A t \in Servers \ {s} : logDB'[t] = logDB[t] /\ req'[t] = req[t],
         OpenLogDBOK(s)', StatementOK(s)'
  PROVE  SharedInv'
<1>1. /\ content'[f] = c
      /\ Written' = Written \cup {f}
      /\ \A g \in Written : content'[g] = content[g]
      /\ RowsIn(content', objLog) = RowsIn(content, objLog)
  BY NewFile, SharedLogs DEF SharedInv
<1>2. \A t \in Servers : OpenLogDBOK(t)' /\ StatementOK(t)'
  <2>1. objLog' \in Log /\ Extends(objLog', objLog)
    BY SharedLogs, ExtendsReflexive
  <2> QED BY <1>1, <2>1, OtherServer
<1>3. CommittedLogOK'
  BY DEF SharedInv, CommittedLogOK
<1>4. AckedRowsListed'
  <2>1. RowsOf(objLog)' = RowsIn(content', objLog)
    BY DEF RowsOf, RowsIn, SharedInv, CommittedLogOK
  <2> QED BY <1>1, <2>1, SharedLogs, RowsOfIsRowsIn DEF SharedInv, AckedRowsListed
<1>5. \A g \in Written' : content'[g].rows \subseteq Written'
  BY <1>1 DEF SharedInv
<1> QED BY <1>2, <1>3, <1>4, <1>5 DEF SharedInv

(* The rows that a COPY writes. *)
LEMMA CopiedRows ==
  ASSUME SharedInv, NEW s \in Servers, NEW f \in Files,
         req[s].pc = "copy", Copyable(s)
  PROVE  /\ NewContent(s, f) \in Content
         /\ NewContent(s, f).rows \subseteq Written \cup {f}
         /\ req[s].op = "insert" => NewContent(s, f).rows = {f}
         /\ req[s].op # "insert" =>
              /\ req[s].snap \in Log
              /\ NewContent(s, f).rows = RowsIn(content, req[s].snap)
<1> USE ConstantsAssumption
<1>1. NewContent(s, f) \in Content
  BY NewContentType DEF SharedInv
<1>2. CASE req[s].op = "insert"
  <2> req[s].tmp # View
    BY <1>2 DEF SharedInv, TypeInv, RequestOK
  <2>1. NewContent(s, f) = [rows |-> {f}, table |-> req[s].tmp]
    BY <1>2 DEF NewContent
  <2>2. NewContent(s, f).rows = {f}
    BY <2>1
  <2> QED BY <1>1, <1>2, <2>2
<1>3. CASE req[s].op # "insert"
  <2>1. req[s].tmp = View
    BY <1>3 DEF SharedInv, StatementOK
  <2>2. req[s].snap \in Log /\ req[s].snap.add \subseteq Written
    BY <2>1 DEF SharedInv, TypeInv, TypeOK, RequestOK, LogsListWritten, Request
  <2>3. NewContent(s, f).rows = RowsOf(req[s].snap)
    BY <1>3, <2>1 DEF NewContent
  <2>4. RowsOf(req[s].snap) = RowsIn(content, req[s].snap)
    BY <2>2, RowsOfIsRowsIn
  <2>5. RowsIn(content, req[s].snap) \subseteq Written
    BY <2>2, RowsWritten
  <2> QED BY <1>1, <1>3, <2>2, <2>3, <2>4, <2>5
<1> QED BY <1>2, <1>3

(* A COPY, done or failed, preserves the invariant. *)
LEMMA SharedCopySteps ==
  ASSUME SharedTable, SharedInv, TypeInv', NEW s \in Servers,
         Copy(s) \/ CopyFails(s)
  PROVE  SharedInv'
<1> USE ConstantsAssumption
<1>1. CASE Copy(s)
  <2> DEFINE e == logDB[s].etag
  <2>1. PICK f \in Files :
          /\ WriteParquet(f, NewContent(s, f))
          /\ SetLogDB(s, IF req[s].op = "insert" THEN InsertAdd(logDB[s].log, f)
                         ELSE MergeEvents(logDB[s].log, f, clock),
                      logDB[s].etag)
          /\ req' = [req EXCEPT ![s].pc = "export", ![s].file = f]
    BY <1>1 DEF Copy
  <2>2. /\ req[s].pc = "copy" /\ Copyable(s)
        /\ UNCHANGED <<objLog, minted, acked, clock, requests, faults, crashes>>
    BY <1>1 DEF Copy
  <2>3. /\ logDB[s] # Absent /\ logDB[s].log = e
        /\ OpenLogDBOK(s) /\ StatementOK(s) /\ clock \in Nat
        /\ e \in Log /\ e.add \subseteq Written
    BY <2>2, SharedLogs DEF SharedInv, TypeInv, TypeOK, RequestOK, StatementOK
  <2>4. /\ TombstonesAdded(e) /\ Extends(objLog, e) /\ e # Absent
    BY <2>3 DEF OpenLogDBOK
  <2> DEFINE l == IF req[s].op = "insert" THEN InsertAdd(e, f)
                  ELSE MergeEvents(e, f, clock)
             c == NewContent(s, f)
  <2>5. /\ c \in Content /\ c.rows \subseteq Written \cup {f}
        /\ req[s].op = "insert" => c.rows = {f}
        /\ req[s].op # "insert" =>
              /\ req[s].snap \in Log
              /\ c.rows = RowsIn(content, req[s].snap)
    BY <2>2, CopiedRows
  <2>6. WriteParquet(f, c)
    BY <2>1
  <2> HIDE DEF c
  <2>7. /\ f \notin Written /\ content'[f] = c
        /\ RowsIn(content', e) = RowsIn(content, e)
        /\ RowsIn(content', objLog) = RowsIn(content, objLog)
    BY <2>3, <2>5, <2>6, NewFile, SharedLogs DEF SharedInv
  <2>8. /\ l \in Log /\ Extends(l, e) /\ TombstonesAdded(l)
        /\ req[s].op = "insert" => FilesLive(l) = FilesLive(e) \cup {f}
        /\ req[s].op # "insert" => FilesLive(l) = {f}
    BY <2>3, <2>4, <2>7, InsertAddLive, MergeEventsLive, LogStatements
  <2>9. logDB' = [logDB EXCEPT ![s] = [log |-> l, etag |-> e]]
    BY <2>1, <2>3 DEF SetLogDB
  <2> HIDE DEF l
  <2>10. /\ logDB'[s] = [log |-> l, etag |-> e]
         /\ \A t \in Servers \ {s} : logDB'[t] = logDB[t]
    BY <2>9 DEF SharedInv, TypeInv, TypeOK
  <2>11. /\ req'[s].pc = "export" /\ req'[s].file = f /\ req'[s].op = req[s].op
         /\ \A t \in Servers \ {s} : req'[t] = req[t]
    <3>1. req \in [Servers -> Request]
      BY DEF SharedInv, TypeInv, TypeOK
    <3> DEFINE r == [req[s] EXCEPT !.pc = "export", !.file = f]
    <3>2. req' = [req EXCEPT ![s] = r]
      BY <2>1, <3>1 DEF Request
    <3>3. r.pc = "export" /\ r.file = f /\ r.op = req[s].op
      BY <3>1 DEF Request
    <3> HIDE DEF r
    <3> QED BY <3>1, <3>2, <3>3
  <2>12. OpenLogDBOK(s)'
    BY <2>2, <2>4, <2>8, <2>10 DEF OpenLogDBOK
  <2>13. ASSUME e = objLog
         PROVE  /\ RowsIn(content', l) = RowsIn(content, objLog) \cup NewRows(s)'
                /\ NewRows(s)' \cap RowsIn(content, objLog) = {}
    <3>1. CASE req[s].op = "insert"
      <4>1. NewRows(s)' = {f}
        BY <2>11, <3>1 DEF NewRows
      <4>2. RowsIn(content', l) = RowsIn(content', e) \cup {f}
        BY <2>5, <2>7, <2>8, <3>1 DEF RowsIn
      <4>3. f \notin RowsIn(content, objLog)
        BY <2>7, SharedLogs, RowsWritten
      <4> QED BY <2>7, <2>13, <4>1, <4>2, <4>3
    <3>2. CASE req[s].op # "insert"
      <4>1. NewRows(s)' = {}
        BY <2>11, <3>2 DEF NewRows
      <4>2. RowsIn(content', l) = RowsIn(content, req[s].snap)
        BY <2>5, <2>7, <2>8, <3>2 DEF RowsIn
      <4>3. Extends(req[s].snap, e) /\ Extends(objLog, req[s].snap)
        BY <2>2, <2>3, <3>2 DEF StatementOK
      <4>4. req[s].snap = objLog
        BY <2>3, <2>5, <2>13, <3>2, <4>3, ExtendsAntisymmetric
      <4> QED BY <4>1, <4>2, <4>4
    <3> QED BY <3>1, <3>2
  <2>14. /\ RowsOf(logDB[s].log)' = RowsIn(content', l)
         /\ RowsOf(objLog)' = RowsIn(content', objLog)
    BY <2>2, <2>8, <2>10, SharedLogs DEF RowsOf, RowsIn
  <2>15. StatementOK(s)'
    BY <2>2, <2>7, <2>8, <2>10, <2>11, <2>13, <2>14 DEF StatementOK
  <2> QED
    BY <2>2, <2>5, <2>6, <2>10, <2>11, <2>12, <2>15, NewFileStep
<1>2. CASE CopyFails(s)
  <2>1. /\ req[s].pc = "copy" /\ Finish(s)
        /\ UNCHANGED <<objLog, logDB, minted, acked, clock, requests, crashes>>
    BY <1>2 DEF CopyFails
  <2>2. CASE UNCHANGED <<stored, content>>
    BY <2>1, <2>2, SharedFinish
  <2>3. CASE Copyable(s) /\ \E f \in Files : WriteParquet(f, NewContent(s, f))
    <3>1. PICK f \in Files : WriteParquet(f, NewContent(s, f))
      BY <2>3
    <3>2. /\ NewContent(s, f) \in Content
          /\ NewContent(s, f).rows \subseteq Written \cup {f}
      BY <2>1, <2>3, CopiedRows
    <3>3. /\ req'[s].pc = "idle"
          /\ \A t \in Servers \ {s} : req'[t] = req[t]
      BY <2>1 DEF Finish, NoRequest, SharedInv, TypeInv, TypeOK
    <3>4. OpenLogDBOK(s)' /\ StatementOK(s)'
      BY <2>1, <3>3 DEF SharedInv, OpenLogDBOK, StatementOK
    <3> QED BY <2>1, <3>1, <3>2, <3>3, <3>4, NewFileStep
  <2> QED BY <1>2, <2>2, <2>3 DEF CopyFails
<1> QED BY <1>1, <1>2

(* The commit of one statement: the log grows, by the rows of an INSERT. *)
LEMMA ExportCommits ==
  ASSUME SharedInv, NEW s \in Servers, ExportWrites(s)
  PROVE  /\ logDB[s] # Absent /\ logDB[s].etag = objLog
         /\ objLog' = logDB[s].log /\ objLog' \in Log
         /\ Extends(objLog', objLog)
         /\ RowsOf(objLog)' = RowsOf(objLog) \cup NewRows(s)
         /\ NewRows(s) \cap RowsOf(objLog) = {}
<1> USE ConstantsAssumption
<1>1. /\ req[s].pc = "export" /\ Matches(logDB[s].etag)
      /\ objLog' = logDB[s].log /\ UNCHANGED content
  BY DEF ExportWrites
<1>2. logDB[s] # Absent /\ OpenLogDBOK(s) /\ StatementOK(s)
  BY <1>1 DEF SharedInv, TypeInv, RequestOK
<1>3. logDB[s].etag = objLog
  BY <1>1, <1>2 DEF Matches, OpenLogDBOK
<1>4. /\ Extends(objLog', objLog) /\ objLog' \in Log
      /\ RowsOf(logDB[s].log) = RowsOf(objLog) \cup NewRows(s)
      /\ NewRows(s) \cap RowsOf(objLog) = {}
  BY <1>1, <1>2, <1>3, SharedLogs DEF StatementOK
<1>5. RowsOf(objLog)' = RowsOf(logDB[s].log)
  BY <1>1 DEF RowsOf
<1> QED BY <1>1, <1>2, <1>3, <1>4, <1>5

(* An export, done or failed, preserves the invariant. *)
LEMMA SharedExportSteps ==
  ASSUME SharedTable, SharedInv, TypeInv', NEW s \in Servers,
         Export(s) \/ ExportAnswerLost(s) \/ ExportFails(s)
  PROVE  SharedInv'
<1> USE ConstantsAssumption
<1>1. CASE ExportFails(s)
  <2>1. Finish(s) /\ UNCHANGED <<objLog, content, acked, logDB>>
    BY <1>1 DEF ExportFails
  <2> QED BY <2>1, SharedFinish
<1>2. CASE Export(s) \/ ExportAnswerLost(s)
  <2>1. /\ ExportWrites(s) /\ Finish(s)
        /\ UNCHANGED <<content, logDB>> /\ Written' = Written
        /\ acked' \subseteq acked \cup NewRows(s)
    BY <1>2 DEF Export, ExportAnswerLost, ExportWrites, NewRows, Written
  <2>2. /\ logDB[s] # Absent
        /\ objLog' = logDB[s].log /\ objLog' \in Log
        /\ Extends(objLog', objLog)
        /\ RowsOf(objLog)' = RowsOf(objLog) \cup NewRows(s)
    BY <2>1, ExportCommits
  <2>3. /\ req'[s].pc = "idle"
        /\ \A t \in Servers \ {s} : req'[t] = req[t]
    BY <2>1 DEF Finish, NoRequest, SharedInv, TypeInv, TypeOK
  <2>4. req[s].pc = "export" /\ OpenLogDBOK(s) /\ StatementOK(s)
    BY <2>1 DEF ExportWrites, SharedInv
  <2>5. CommittedLogOK'
    BY <2>2, <2>4 DEF CommittedLogOK, OpenLogDBOK, StatementOK
  <2>6. AckedRowsListed'
    BY <2>1, <2>2 DEF SharedInv, AckedRowsListed
  <2>7. OpenLogDBOK(s)'
    <3>1. Extends(objLog', logDB[s].etag)
      BY <2>2, <2>4, SharedLogs, ExtendsTransitive DEF OpenLogDBOK
    <3> QED BY <2>1, <2>4, <3>1 DEF OpenLogDBOK
  <2>8. StatementOK(s)'
    BY <2>3 DEF StatementOK
  <2>9. \A t \in Servers \ {s} : OpenLogDBOK(t)' /\ StatementOK(t)'
    BY <2>1, <2>2, <2>3, OtherServer
  <2>10. \A f \in Written' : content'[f].rows \subseteq Written'
    BY <2>1 DEF SharedInv
  <2> QED BY <2>5, <2>6, <2>7, <2>8, <2>9, <2>10 DEF SharedInv
<1> QED BY <1>1, <1>2

(* A purge preserves the invariant, and no table is dropped. *)
LEMMA SharedDeleteSteps ==
  ASSUME SharedTable, SharedInv, TypeInv', NEW s \in Servers,
         PurgeFile(s) \/ DropFile(s) \/ DeleteLog(s)
  PROVE  SharedInv'
<1> USE ConstantsAssumption
<1>1. StatementOK(s) /\ RequestOK(s) /\ OpenLogDBOK(s)
  BY DEF SharedInv, TypeInv
<1>2. CASE DeleteLog(s)
  BY <1>1, <1>2 DEF DeleteLog, StatementOK
<1>3. CASE PurgeFile(s) \/ DropFile(s)
  <2>1. /\ req[s].pc = "purge" /\ req[s].op = "vacuum"
        /\ logDB[s] # Absent /\ logDB[s].log = logDB[s].etag
        /\ UNCHANGED <<objLog, content, logDB, acked>>
    BY <1>1, <1>3, DeletesOneFile DEF SharedInv, StatementOK, RequestOK
  <2>2. PICK f : req' = [req EXCEPT
                    ![s].pending = @ \ {f},
                    ![s].pc = IF req[s].pc = "purge" /\ req[s].pending = {f}
                              THEN "export" ELSE @]
    BY <1>3, DeletesOneFile DEF SharedInv
  <2> DEFINE next == IF req[s].pending = {f} THEN "export" ELSE "purge"
             r == [req[s] EXCEPT !.pending = req[s].pending \ {f}, !.pc = next]
  <2>3. req \in [Servers -> Request]
    BY DEF SharedInv, TypeInv, TypeOK
  <2>4. req' = [req EXCEPT ![s] = r]
    BY <2>1, <2>2, <2>3 DEF Request
  <2>5. r.pc \in {"export", "purge"} /\ r.op = "vacuum"
    BY <2>1, <2>3 DEF Request
  <2> HIDE DEF next, r
  <2>6. /\ req'[s].pc \in {"export", "purge"} /\ req'[s].op = "vacuum"
        /\ \A t \in Servers \ {s} : req'[t] = req[t]
    BY <2>3, <2>4, <2>5
  <2>7. /\ logDB[s].etag \in Log
        /\ Extends(logDB[s].log, logDB[s].etag) /\ TombstonesAdded(logDB[s].log)
    BY <1>1, <2>1, SharedLogs, ExtendsReflexive DEF OpenLogDBOK
  <2>8. NewRows(s)' = {}
    BY <2>6 DEF NewRows
  <2>9. logDB[s].etag = objLog => RowsOf(logDB[s].log)' = RowsOf(objLog)'
    BY <2>1 DEF RowsOf
  <2>10. StatementOK(s)'
    BY <2>1, <2>6, <2>7, <2>8, <2>9 DEF StatementOK
  <2>11. OpenLogDBOK(s)'
    BY <1>1, <2>1 DEF OpenLogDBOK
  <2> QED BY <2>1, <2>6, <2>10, <2>11, LocalStep
<1> QED BY <1>2, <1>3

(* Restarts, time and rest preserve the invariant. *)
LEMMA SharedEnvironment ==
  ASSUME SharedInv, TypeInv',
         (\E s \in Servers : Crash(s)) \/ Tick \/ Rest \/ UNCHANGED vars
  PROVE  SharedInv'
<1>1. ASSUME NEW s \in Servers, Crash(s) PROVE SharedInv'
  <2>1. /\ logDB'[s] = Absent /\ req'[s].pc = "idle"
        /\ \A t \in Servers \ {s} : logDB'[t] = logDB[t] /\ req'[t] = req[t]
        /\ UNCHANGED <<objLog, content, acked>>
    BY <1>1 DEF Crash, Finish, NoRequest, SharedInv, TypeInv, TypeOK
  <2>2. OpenLogDBOK(s)' /\ StatementOK(s)'
    BY <2>1 DEF OpenLogDBOK, StatementOK
  <2> QED BY <2>1, <2>2, LocalStep
<1>2. CASE Tick \/ Rest \/ UNCHANGED vars
  <2>1. UNCHANGED <<objLog, content, acked, logDB, req>>
    BY <1>2 DEF Tick, Rest, vars
  <2> QED
    BY <2>1 DEF SharedInv, CommittedLogOK, AckedRowsListed, RowsOf, Written,
                OpenLogDBOK, StatementOK, NewRows
<1> QED BY <1>1, <1>2

(* The initial states satisfy the invariant. *)
LEMMA SharedInit ==
  ASSUME SharedTable, Init
  PROVE  SharedInv
<1> USE ConstantsAssumption
<1>1. PICK f \in Files, t \in TableIds :
        /\ objLog = InsertAdd(InsertMetaData(EmptyLog, t), f)
        /\ acked = {f}
        /\ content = [g \in Files |->
                        IF g = f THEN [rows |-> {f}, table |-> t] ELSE Absent]
  BY DEF Init, SharedTable
<1>2. /\ TypeInv
      /\ \A s \in Servers : logDB[s] = Absent /\ req[s].pc = "idle"
  BY InitTypeInv DEF Init, NoRequest
<1>3. objLog \in Log
  BY <1>1, LogStatements, EmptyLogType
<1>4. objLog # Absent /\ objLog.add = {f} /\ objLog.remove = {}
  BY <1>1, <1>3 DEF InsertAdd, InsertMetaData, EmptyLog
<1>5. FilesLive(objLog) = {f} /\ Removed(objLog) = {}
  BY <1>4 DEF FilesLive, Removed
<1>6. content[f].rows = {f} /\ Written = {f}
  <2>1. [rows |-> {f}, table |-> t] \in Content
    BY DEF Content
  <2> QED BY <1>1, <2>1 DEF Written
<1>7. RowsOf(objLog) = {f}
  BY <1>4, <1>5, <1>6 DEF RowsOf
<1> QED
  BY <1>1, <1>2, <1>4, <1>5, <1>6, <1>7
  DEF SharedInv, CommittedLogOK, TombstonesAdded, AckedRowsListed,
      OpenLogDBOK, StatementOK

-----------------------------------------------------------------------------
(***************************************************************************)
(* The theorems.                                                           *)
(***************************************************************************)
LEMMA SharedStep ==
  ASSUME SharedTable, SharedInv, TypeInv', [Next]_vars
  PROVE  SharedInv'
<1>1. ASSUME NEW s \in Servers, Begin(s) PROVE SharedInv'
  BY <1>1, SharedBegin
<1>2. ASSUME NEW s \in Servers, Step(s) PROVE SharedInv'
  BY <1>2, SharedReadSteps, SharedImportSteps, SharedCopySteps,
     SharedExportSteps, SharedDeleteSteps
  DEF Step
<1>3. CASE (\E s \in Servers : Crash(s)) \/ Tick \/ Rest \/ UNCHANGED vars
  BY <1>3, SharedEnvironment
<1> QED BY <1>1, <1>2, <1>3 DEF Next

(* The inductive invariant holds in every state of the specification:     *)
(* whatever the servers interleave, a matching ETag in Export means that   *)
(* the importing server has seen every committed row.                      *)
THEOREM SharedInvariance ==
  ASSUME SharedTable
  PROVE  Spec => []SharedInv
<1>1. Init => SharedInv
  BY SharedInit
<1>2. TypeInv' /\ SharedInv /\ [Next]_vars => SharedInv'
  BY SharedStep
<1> QED BY <1>1, <1>2, TypeInvariance, PTL DEF Spec

(* What a step does to the committed log and the acknowledged rows. *)
LEMMA CommitSteps ==
  ASSUME SharedTable, SharedInv, [Next]_vars
  PROVE  \/ UNCHANGED <<objLog, acked>> /\ RowsOf(objLog)' = RowsOf(objLog)
         \/ \E s \in Servers :
              /\ ExportWrites(s)
              /\ acked' \in {acked, acked \cup NewRows(s)}
<1> USE ConstantsAssumption
<1>1. objLog \in Log /\ objLog.add \subseteq Written
  BY SharedLogs
<1>2. ASSUME UNCHANGED <<objLog, content, acked>>
      PROVE  UNCHANGED <<objLog, acked>> /\ RowsOf(objLog)' = RowsOf(objLog)
  BY <1>2 DEF RowsOf
<1>3. ASSUME NEW s \in Servers, Begin(s)
      PROVE  UNCHANGED <<objLog, content, acked>>
  BY <1>3 DEF Begin, BeginCreate, BeginInsert, BeginRead, BeginDrop, StartRequest
<1>4. ASSUME NEW s \in Servers,
             \/ CreateView(s) \/ BindView(s) \/ Respond(s)
             \/ LogDDL(s) \/ InsertImport(s) \/ MergeImport(s)
             \/ ExportFails(s) \/ PurgeFile(s) \/ Crash(s)
      PROVE  UNCHANGED <<objLog, content, acked>>
  BY <1>4 DEF CreateView, BindView, Respond, LogDDL, InsertImport, MergeImport,
              AtImport, ExportFails, PurgeFile, Crash
<1>5. ASSUME NEW s \in Servers, Copy(s) \/ CopyFails(s)
      PROVE  UNCHANGED <<objLog, acked>> /\ RowsOf(objLog)' = RowsOf(objLog)
  <2>1. UNCHANGED <<objLog, acked>> /\ req[s].pc = "copy"
    BY <1>5 DEF Copy, CopyFails
  <2>2. CASE UNCHANGED content
    BY <1>2, <2>1, <2>2
  <2>3. CASE Copyable(s) /\ \E f \in Files : WriteParquet(f, NewContent(s, f))
    <3>1. PICK f \in Files : WriteParquet(f, NewContent(s, f))
      BY <2>3
    <3>2. NewContent(s, f) \in Content
      BY <2>1, <2>3, CopiedRows
    <3>3. RowsIn(content', objLog) = RowsIn(content, objLog)
      BY <1>1, <3>1, <3>2, NewFile DEF SharedInv
    <3>4. RowsOf(objLog) = RowsIn(content, objLog)
      BY <1>1, RowsOfIsRowsIn
    <3>5. RowsOf(objLog)' = RowsIn(content', objLog)
      BY <1>1, <2>1 DEF RowsOf, RowsIn
    <3> QED BY <2>1, <3>3, <3>4, <3>5
  <2> QED BY <1>5, <2>2, <2>3 DEF Copy, CopyFails
<1>6. ASSUME NEW s \in Servers, Export(s) \/ ExportAnswerLost(s)
      PROVE  ExportWrites(s) /\ acked' \in {acked, acked \cup NewRows(s)}
  BY <1>6 DEF Export, ExportAnswerLost, NewRows
<1>7. ASSUME NEW s \in Servers, DropFile(s) \/ DeleteLog(s) PROVE FALSE
  BY <1>7 DEF DropFile, DeleteLog, SharedInv, StatementOK
<1>8. CASE Tick \/ Rest \/ UNCHANGED vars
  BY <1>2, <1>8 DEF Tick, Rest, vars
<1> QED BY <1>2, <1>3, <1>4, <1>5, <1>6, <1>7, <1>8 DEF Next, Step

(* No Export overwrites a row of the log that another server committed:    *)
(* the If-Match of Export keeps every version an extension of the last.    *)
THEOREM LogGrows ==
  ASSUME SharedTable
  PROVE  Spec => LogOnlyGrows
<1>1. SharedInv /\ [Next]_vars =>
        [objLog # Absent /\ objLog' # Absent => Extends(objLog', objLog)]_vars
  <2> SUFFICES ASSUME SharedInv, [Next]_vars PROVE Extends(objLog', objLog)
    OBVIOUS
  <2>1. CASE UNCHANGED objLog
    BY <2>1, SharedLogs, ExtendsReflexive
  <2>2. CASE \E s \in Servers : ExportWrites(s)
    BY <2>2, ExportCommits
  <2> QED BY <2>1, <2>2, CommitSteps
<1> QED BY <1>1, SharedInvariance, PTL DEF Spec, LogOnlyGrows

=============================================================================
