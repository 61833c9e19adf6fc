-------------------------- MODULE SharedRowsProofs --------------------------
(***************************************************************************)
(* Proofs about what the versions of a shared table say: which rows, which *)
(* objects and which schema.  The assumption is that of                    *)
(* SharedTableProofs, whose invariant these proofs extend.                 *)
(***************************************************************************)
EXTENDS SharedTableProofs

-----------------------------------------------------------------------------
(***************************************************************************)
(* Parquet objects are written once, and rows once acknowledged stay so.   *)
(***************************************************************************)

(* Parquet objects are written by COPY only (CopyToLoggedPaquet). *)
LEMMA WhoWrites ==
  ASSUME [Next]_vars
  PROVE  \/ UNCHANGED content
         \/ \E s \in Servers, f \in Files :
              /\ req[s].pc = "copy" /\ Copyable(s)
              /\ WriteParquet(f, NewContent(s, f))
<1>1. ASSUME NEW s \in Servers, Begin(s) PROVE UNCHANGED content
  BY <1>1 DEF Begin, BeginCreate, BeginInsert, BeginRead, BeginDrop, StartRequest
<1>2. ASSUME NEW s \in Servers,
             \/ CreateView(s) \/ BindView(s) \/ Respond(s)
             \/ LogDDL(s) \/ InsertImport(s) \/ MergeImport(s)
             \/ Export(s) \/ ExportAnswerLost(s) \/ ExportFails(s)
             \/ PurgeFile(s) \/ DropFile(s) \/ DeleteLog(s) \/ Crash(s)
      PROVE  UNCHANGED content
  BY <1>2 DEF CreateView, BindView, Respond, LogDDL, InsertImport, MergeImport,
              AtImport, Export, ExportAnswerLost, ExportWrites, ExportFails,
              PurgeFile, DropFile, DeleteLog, Crash
<1>3. ASSUME NEW s \in Servers, Copy(s) \/ CopyFails(s)
      PROVE  \/ UNCHANGED content
             \/ /\ req[s].pc = "copy" /\ Copyable(s)
                /\ \E f \in Files : WriteParquet(f, NewContent(s, f))
  BY <1>3 DEF Copy, CopyFails
<1>4. CASE Tick \/ Rest \/ UNCHANGED vars
  BY <1>4 DEF Tick, Rest, vars
<1> QED BY <1>1, <1>2, <1>3, <1>4 DEF Next, Step

(* No step changes what was written to a parquet object: a COPY takes a    *)
(* new name.                                                               *)
LEMMA WrittenOnce ==
  ASSUME SharedInv, [Next]_vars
  PROVE  \A f \in Written : content'[f] = content[f]
BY WhoWrites DEF WriteParquet, Written, SharedInv, TypeInv, TypeOK

(* The rows of a version of the log never change. *)
LEMMA RowsFixed ==
  ASSUME SharedInv, [Next]_vars, NEW l \in Log, l.add \subseteq Written
  PROVE  RowsIn(content', l) = RowsIn(content, l)
BY WrittenOnce, RowsInUnchanged

(* No acknowledgement is taken back (no table is dropped). *)
LEMMA AckedGrows ==
  ASSUME SharedTable, SharedInv, [Next]_vars
  PROVE  acked \subseteq acked'
BY CommitSteps

-----------------------------------------------------------------------------
(***************************************************************************)
(* Reads.  What was acknowledged when a SELECT began is still in the       *)
(* version that it binds later, and in that version it stays.              *)
(***************************************************************************)
ReadOK(s) ==
  /\ req[s].floor \subseteq acked
  /\ req[s].pc = "answer" => req[s].floor \subseteq RowsOf(req[s].snap)

ReadsOK == \A s \in Servers : ReadOK(s)

(* What a step may do to the floor and to the answer of a request. *)
ReadStep(t) ==
  /\ req'[t].floor \in {req[t].floor, acked, {}}
  /\ req'[t].pc = "answer" =>
       \/ req'[t] = req[t]
       \/ req'[t].floor = req[t].floor /\ req'[t].snap = objLog

(* A step that reaches "answer" has just bound the committed log, and the  *)
(* floor of a request is set when it begins.                               *)
LEMMA ReadSteps ==
  ASSUME SharedTable, SharedInv, [Next]_vars, NEW t \in Servers
  PROVE  ReadStep(t)
<1> USE DEF ReadStep
<1>1. req \in [Servers -> Request]
  BY DEF SharedInv, TypeInv, TypeOK
<1>2. ASSUME NEW s \in Servers, NEW r, req' = [req EXCEPT ![s] = r],
             r.pc # "answer", r.floor \in {req[s].floor, acked, {}}
      PROVE  ReadStep(t)
  BY <1>1, <1>2
<1>3. ASSUME NEW s \in Servers, Finish(s) PROVE ReadStep(t)
  <2>1. NoRequest.pc # "answer" /\ NoRequest.floor = {}
    BY DEF NoRequest
  <2> QED BY <1>2, <1>3, <2>1 DEF Finish
<1>4. CASE UNCHANGED req
  BY <1>4
<1>5. ASSUME NEW s \in Servers, Begin(s) PROVE ReadStep(t)
  <2>1. ASSUME NEW o \in AllOps, BeginCreate(s, o) PROVE ReadStep(t)
    BY <2>1 DEF BeginCreate, StartRequest, SharedTable
  <2>2. CASE BeginInsert(s)
    <3>1. CASE UNCHANGED req
      BY <3>1
    <3>2. CASE req' = [req EXCEPT ![s] = [NoRequest EXCEPT
                     !.pc = "import", !.op = "insert",
                     !.tmp = SchemaOf(logDB'[s].log)]]
      <4> DEFINE r == [NoRequest EXCEPT !.pc = "import", !.op = "insert",
                                        !.tmp = SchemaOf(logDB'[s].log)]
      <4>1. r.pc # "answer" /\ r.floor = {}
        BY DEF NoRequest
      <4> HIDE DEF r
      <4> QED BY <1>2, <3>2, <4>1 DEF r
    <3> QED BY <2>2, <3>1, <3>2 DEF BeginInsert
  <2>3. ASSUME NEW o \in AllOps, BeginRead(s, o) PROVE ReadStep(t)
    <3>1. StartRequest(s, o) /\ o \in {"select", "vacuum"}
      BY <2>3 DEF BeginRead
    <3>2. FilesLive(logDB'[s].log) # {}
      BY <3>1, RequestStarted DEF OpenLogDBOK
    <3> DEFINE r == [[NoRequest EXCEPT !.op = o,
                        !.floor = IF o = "select" THEN acked ELSE {}]
                     EXCEPT !.pc = "view"]
    <3>3. req' = [req EXCEPT ![s] = r]
      BY <2>3, <3>2 DEF BeginRead
    <3>4. r.pc # "answer" /\ r.floor \in {acked, {}}
      BY DEF NoRequest
    <3> HIDE DEF r
    <3> QED BY <1>2, <3>3, <3>4
  <2>4. CASE BeginDrop(s)
    BY <2>4 DEF BeginDrop, StartRequest, SharedTable
  <2> QED BY <1>5, <2>1, <2>2, <2>3, <2>4 DEF Begin
<1>6. ASSUME NEW s \in Servers,
             CreateView(s) \/ BindView(s) \/ Respond(s)
      PROVE  ReadStep(t)
  <2>1. CASE Finish(s)
    BY <1>3, <2>1
  <2>2. CASE req' = [req EXCEPT ![s].tmp = View,
                       ![s].pc = IF req[s].op = "select" THEN "bind"
                                 ELSE "import"]
    BY <1>1, <2>2 DEF Request
  <2>3. CASE req' = [req EXCEPT ![s].snap = objLog,
                       ![s].pc = IF req[s].op = "select" THEN "answer"
                                 ELSE "copy"]
    BY <1>1, <2>3 DEF Request
  <2> QED BY <1>6, <2>1, <2>2, <2>3 DEF CreateView, BindView, Respond
<1>7. ASSUME NEW s \in Servers,
             LogDDL(s) \/ InsertImport(s) \/ MergeImport(s)
      PROVE  ReadStep(t)
  <2>1. CASE LogDDL(s)
    BY <1>1, <2>1 DEF LogDDL, Request
  <2>2. CASE InsertImport(s)
    BY <1>1, <2>2 DEF InsertImport, Request
  <2>3. CASE MergeImport(s)
    <3>1. PICK marked :
            req' = [req EXCEPT
                      ![s].pending = marked,
                      ![s].pc = IF marked # {} THEN "purge"
                                ELSE IF req[s].tmp = View THEN "bind" ELSE "copy"]
      BY <2>3 DEF MergeImport
    <3> QED BY <1>1, <3>1 DEF Request
  <2> QED BY <1>7, <2>1, <2>2, <2>3
<1>8. ASSUME NEW s \in Servers, Copy(s) \/ CopyFails(s) PROVE ReadStep(t)
  <2>1. CASE Copy(s)
    BY <1>1, <2>1 DEF Copy, Request
  <2> QED BY <1>3, <1>8, <2>1 DEF CopyFails
<1>9. ASSUME NEW s \in Servers,
             \/ Export(s) \/ ExportAnswerLost(s) \/ ExportFails(s)
             \/ DeleteLog(s) \/ Crash(s)
      PROVE  ReadStep(t)
  BY <1>3, <1>9 DEF Export, ExportAnswerLost, ExportWrites, ExportFails,
                    DeleteLog, Crash
<1>10. ASSUME NEW s \in Servers, PurgeFile(s) \/ DropFile(s) PROVE ReadStep(t)
  <2>1. /\ req[s].pc \in {"purge", "unlink"}
        /\ \E f : req' = [req EXCEPT
                       ![s].pending = @ \ {f},
                       ![s].pc = IF req[s].pc = "purge" /\ req[s].pending = {f}
                                 THEN "export" ELSE @]
    BY <1>10, DeletesOneFile DEF SharedInv
  <2> QED BY <1>1, <2>1 DEF Request
<1>11. CASE Tick \/ Rest \/ UNCHANGED vars
  BY <1>4, <1>11 DEF Tick, Rest, vars
<1> HIDE DEF ReadStep
<1> QED BY <1>5, <1>6, <1>7, <1>8, <1>9, <1>10, <1>11 DEF Next, Step

(* The initial requests read nothing; every step keeps reads in order. *)
LEMMA ReadsStep ==
  ASSUME SharedTable, SharedInv, SharedInv', ReadsOK, [Next]_vars
  PROVE  ReadsOK'
<1> SUFFICES ASSUME NEW t \in Servers PROVE ReadOK(t)'
  BY DEF ReadsOK
<1> USE ConstantsAssumption
<1>1. ReadStep(t) /\ ReadOK(t) /\ acked \subseteq acked'
  BY ReadSteps, AckedGrows DEF ReadsOK
<1>2. req'[t].floor \subseteq acked'
  BY <1>1 DEF ReadStep, ReadOK
<1>3. ASSUME req'[t].pc = "answer" PROVE req'[t].floor \subseteq RowsOf(req[t].snap)'
  <2>1. CASE req'[t] = req[t]
    <3>1. req[t].floor \subseteq RowsOf(req[t].snap)
      BY <1>1, <1>3, <2>1 DEF ReadOK
    <3>2. CASE req[t].snap = Absent
      BY <2>1, <3>1, <3>2 DEF RowsOf
    <3>3. CASE req[t].snap # Absent
      <4>1. req[t].snap \in Log /\ req[t].snap.add \subseteq Written
        BY <3>3 DEF SharedInv, TypeInv, TypeOK, LogsListWritten, Request
      <4>2. RowsOf(req[t].snap) = RowsIn(content, req[t].snap)
        BY <4>1, RowsOfIsRowsIn
      <4>3. RowsOf(req[t].snap)' = RowsIn(content', req[t].snap)
        BY <2>1, <3>3 DEF RowsOf, RowsIn
      <4> QED BY <2>1, <3>1, <4>1, <4>2, <4>3, RowsFixed
    <3> QED BY <3>2, <3>3
  <2>2. CASE req'[t].floor = req[t].floor /\ req'[t].snap = objLog
    <3>1. objLog \in Log /\ objLog.add \subseteq Written /\ objLog # Absent
      BY SharedLogs DEF SharedInv, CommittedLogOK
    <3>2. req[t].floor \subseteq RowsIn(content, objLog)
      BY <1>1, <3>1, RowsOfIsRowsIn DEF ReadOK, SharedInv, AckedRowsListed
    <3>3. RowsOf(req[t].snap)' = RowsIn(content', objLog)
      BY <2>2, <3>1 DEF RowsOf, RowsIn
    <3> QED BY <2>2, <3>1, <3>2, <3>3, RowsFixed
  <2> QED BY <1>1, <1>3, <2>1, <2>2 DEF ReadStep
<1> QED BY <1>2, <1>3 DEF ReadOK

(* A SELECT answers with every row that was acknowledged before it began,  *)
(* on whichever server, and whatever its LOG database has not seen: the    *)
(* view is expanded against the bucket (CreateViewOfParquet).              *)
THEOREM ReadsSeeAckedRowsAlways ==
  ASSUME SharedTable
  PROVE  Spec => []ReadsSeeAckedRows
<1>1. Init => ReadsOK
  BY DEF Init, NoRequest, ReadsOK, ReadOK
<1>2. SharedInv /\ SharedInv' /\ ReadsOK /\ [Next]_vars => ReadsOK'
  BY ReadsStep
<1>3. ReadsOK => ReadsSeeAckedRows
  BY DEF ReadsOK, ReadOK, ReadsSeeAckedRows, Answer
<1> QED BY <1>1, <1>2, <1>3, SharedInvariance, PTL DEF Spec

-----------------------------------------------------------------------------
(***************************************************************************)
(* Versions.  What a VACUUM or an INSERT is about to commit is in order if *)
(* it can be committed at all; objects leave the bucket only by a purge.   *)
(***************************************************************************)

(* The files live in l share no row when the objects have content c. *)
RowsApart(c, l) ==
  \A f, g \in FilesLive(l) : f # g => c[f].rows \cap c[g].rows = {}

(* The files of l that bucket b lacks have expired tombstones at time now. *)
MissingExpired(l, b, now) ==
  FilesAll(l) \ b \subseteq FilesMarkedRemove(l, now, TTL)

VersionOK(l) == RowsApart(content, l) /\ MissingExpired(l, stored, clock)

CommitOK(s) ==
  /\ req[s].pc = "purge"
       => req[s].pending \subseteq FilesMarkedRemove(logDB[s].log, clock, TTL)
  /\ req[s].pc = "export" /\ logDB[s].etag = objLog => VersionOK(logDB[s].log)

VersionsOK == VersionOK(objLog) /\ \A s \in Servers : CommitOK(s)

(* Tombstones expire for good: later, and in later versions of the log,    *)
(* there are more of them (get_files_marked_remove.sql).                   *)
LEMMA ExpiredGrow ==
  ASSUME NEW k \in Log, NEW l \in Log, Extends(k, l),
         NEW now \in Nat, NEW then \in Nat, now <= then
  PROVE  FilesMarkedRemove(l, now, TTL) \subseteq FilesMarkedRemove(k, then, TTL)
<1> SUFFICES ASSUME NEW r \in l.remove, r.at + TTL <= now
             PROVE  r \in k.remove /\ r.at + TTL <= then
  BY DEF FilesMarkedRemove
<1>1. r \in k.remove /\ r.at \in Nat
  BY DEF Extends, Log, Tombstone
<1>2. TTL \in Nat
  BY ConstantsAssumption
<1> QED BY <1>1, <1>2

(* How a request comes to a purge or to an export. *)
CommitStep(t) ==
  /\ req'[t].pc = "purge" =>
       \/ /\ req[t].pc = "purge" /\ logDB'[t] = logDB[t]
          /\ req'[t].pending \subseteq req[t].pending
       \/ req'[t].pending = FilesMarkedRemove(logDB'[t].log, clock, TTL)
  /\ req'[t].pc = "export" =>
       \/ req[t].pc \in {"export", "purge"} /\ logDB'[t] = logDB[t]
       \/ Copy(t)

(* A purge begins with an import, and only a COPY or a purge leads to an   *)
(* export.                                                                 *)
LEMMA CommitStepsOfServer ==
  ASSUME SharedTable, SharedInv, [Next]_vars, NEW t \in Servers
  PROVE  CommitStep(t)
<1> USE DEF CommitStep
<1>1. req \in [Servers -> Request] /\ logDB \in [Servers -> DB \cup {Absent}]
  BY DEF SharedInv, TypeInv, TypeOK
<1>2. ASSUME NEW s \in Servers, NEW r, req' = [req EXCEPT ![s] = r],
             r.pc \notin {"purge", "export"},
             \A u \in Servers \ {s} : logDB'[u] = logDB[u]
      PROVE  CommitStep(t)
  BY <1>1, <1>2
<1>3. ASSUME NEW s \in Servers, Finish(s),
             \A u \in Servers \ {s} : logDB'[u] = logDB[u]
      PROVE  CommitStep(t)
  <2>1. NoRequest.pc \notin {"purge", "export"}
    BY DEF NoRequest
  <2> QED BY <1>2, <1>3, <2>1 DEF Finish
<1>4. ASSUME NEW s \in Servers, Begin(s) PROVE CommitStep(t)
  <2>1. ASSUME NEW o, StartRequest(s, o), UNCHANGED req PROVE CommitStep(t)
    BY <2>1, RequestStarted
  <2>2. ASSUME NEW o \in AllOps, BeginCreate(s, o) PROVE CommitStep(t)
    BY <2>2, RequestStarted DEF BeginCreate
  <2>3. CASE BeginInsert(s)
    <3> DEFINE r == [NoRequest EXCEPT !.pc = "import", !.op = "insert",
                                      !.tmp = SchemaOf(logDB'[s].log)]
    <3>1. r.pc = "import"
      BY DEF NoRequest
    <3>2. UNCHANGED req \/ req' = [req EXCEPT ![s] = r]
      BY <2>3 DEF BeginInsert
    <3>3. StartRequest(s, "insert")
      BY <2>3 DEF BeginInsert
    <3> HIDE DEF r
    <3> QED BY <1>2, <2>1, <3>1, <3>2, <3>3, RequestStarted
  <2>4. ASSUME NEW o \in AllOps, BeginRead(s, o) PROVE CommitStep(t)
    <3>1. StartRequest(s, o)
      BY <2>4 DEF BeginRead
    <3>2. FilesLive(logDB'[s].log) # {}
      BY <3>1, RequestStarted DEF OpenLogDBOK
    <3> DEFINE r == [[NoRequest EXCEPT !.op = o,
                        !.floor = IF o = "select" THEN acked ELSE {}]
                     EXCEPT !.pc = "view"]
    <3>3. req' = [req EXCEPT ![s] = r]
      BY <2>4, <3>2 DEF BeginRead
    <3>4. r.pc = "view"
      BY DEF NoRequest
    <3> HIDE DEF r
    <3> QED BY <1>2, <3>1, <3>3, <3>4, RequestStarted
  <2>5. CASE BeginDrop(s)
    BY <2>5, RequestStarted DEF BeginDrop
  <2> QED BY <1>4, <2>2, <2>3, <2>4, <2>5 DEF Begin
<1>5. ASSUME NEW s \in Servers, CreateView(s) \/ BindView(s) \/ Respond(s)
      PROVE  CommitStep(t)
  <2>1. UNCHANGED logDB
    BY <1>5 DEF CreateView, BindView, Respond
  <2>2. CASE Finish(s)
    BY <1>3, <2>1, <2>2
  <2>3. CASE req' = [req EXCEPT ![s].tmp = View,
                       ![s].pc = IF req[s].op = "select" THEN "bind"
                                 ELSE "import"]
    BY <1>1, <2>1, <2>3 DEF Request
  <2>4. CASE req' = [req EXCEPT ![s].snap = objLog,
                       ![s].pc = IF req[s].op = "select" THEN "answer"
                                 ELSE "copy"]
    BY <1>1, <2>1, <2>4 DEF Request
  <2> QED BY <1>5, <2>2, <2>3, <2>4 DEF CreateView, BindView, Respond
<1>6. ASSUME NEW s \in Servers, LogDDL(s) \/ InsertImport(s) PROVE CommitStep(t)
  <2>1. InsertImport(s)
    BY <1>6 DEF LogDDL, AtImport, SharedInv, StatementOK
  <2>2. /\ req' = [req EXCEPT ![s].pc = "copy"]
        /\ \E db : logDB' = [logDB EXCEPT ![s] = db]
    BY <2>1 DEF InsertImport
  <2> QED BY <1>1, <2>2 DEF Request
<1>7. ASSUME NEW s \in Servers, MergeImport(s) PROVE CommitStep(t)
  <2>1. PICK got \in {objLog, Absent} :
          LET marked == FilesMarkedRemove(Imported(s, got).log, clock, TTL) IN
          /\ ReadLog(got)
          /\ logDB' = [logDB EXCEPT ![s] = Imported(s, got)]
          /\ req' = [req EXCEPT
                       ![s].pending = marked,
                       ![s].pc = IF marked # {} THEN "purge"
                                 ELSE IF req[s].tmp = View THEN "bind" ELSE "copy"]
    BY <1>7 DEF MergeImport
  <2> DEFINE marked == FilesMarkedRemove(Imported(s, got).log, clock, TTL)
  <2>2. logDB'[s] = Imported(s, got) /\ \A u \in Servers \ {s} : logDB'[u] = logDB[u]
    BY <1>1, <2>1
  <2>3. FilesMarkedRemove(logDB'[s].log, clock, TTL) = marked
    BY <2>2
  <2>4. /\ req'[s].pending = marked
        /\ req'[s].pc \in {"purge", "bind", "copy"}
        /\ \A u \in Servers \ {s} : req'[u] = req[u]
    <3> HIDE DEF marked
    <3>1. req' = [req EXCEPT
                    ![s].pending = marked,
                    ![s].pc = IF marked # {} THEN "purge"
                              ELSE IF req[s].tmp = View THEN "bind" ELSE "copy"]
      BY <2>1 DEF marked
    <3> QED BY <1>1, <3>1 DEF Request
  <2> HIDE DEF marked
  <2> QED BY <2>2, <2>3, <2>4
<1>8. ASSUME NEW s \in Servers, Copy(s) PROVE CommitStep(t)
  <2>1. /\ \E db : logDB' = [logDB EXCEPT ![s] = db]
        /\ \E f : req' = [req EXCEPT ![s].pc = "export", ![s].file = f]
    BY <1>8 DEF Copy, SetLogDB
  <2> QED BY <1>1, <1>8, <2>1 DEF Request
<1>9. ASSUME NEW s \in Servers,
             \/ CopyFails(s) \/ Export(s) \/ ExportAnswerLost(s)
             \/ ExportFails(s) \/ DeleteLog(s) \/ Crash(s)
      PROVE  CommitStep(t)
  <2>1. Finish(s) /\ (UNCHANGED logDB \/ logDB' = [logDB EXCEPT ![s] = Absent])
    BY <1>9 DEF CopyFails, Export, ExportAnswerLost, ExportWrites, ExportFails,
                DeleteLog, Crash
  <2> QED BY <1>1, <1>3, <2>1
<1>10. ASSUME NEW s \in Servers, PurgeFile(s) \/ DropFile(s) PROVE CommitStep(t)
  <2>1. /\ req[s].pc = "purge" /\ UNCHANGED logDB
        /\ \E f : req' = [req EXCEPT
                       ![s].pending = @ \ {f},
                       ![s].pc = IF req[s].pc = "purge" /\ req[s].pending = {f}
                                 THEN "export" ELSE @]
    BY <1>10, DeletesOneFile DEF SharedInv, StatementOK
  <2> QED BY <1>1, <2>1 DEF Request
<1>11. CASE Tick \/ Rest \/ UNCHANGED vars
  BY <1>11 DEF Tick, Rest, vars
<1> HIDE DEF CommitStep
<1> QED
  BY <1>4, <1>5, <1>6, <1>7, <1>8, <1>9, <1>10, <1>11 DEF Next, Step

(* Only a purge takes objects away, and only expired ones (Merge).         *)
LEMMA RemovedObjectsExpired ==
  ASSUME SharedTable, SharedInv, VersionsOK, [Next]_vars
  PROVE  /\ stored \ stored' \subseteq FilesMarkedRemove(objLog, clock, TTL)
         /\ clock' \in Nat /\ clock <= clock'
<1>1. clock \in Nat
  BY DEF SharedInv, TypeInv, TypeOK
<1>2. ASSUME NEW s \in Servers, PurgeFile(s) \/ DropFile(s)
      PROVE  stored \ stored' \subseteq FilesMarkedRemove(objLog, clock, TTL)
  <2>1. req[s].pc = "purge" /\ stored \ stored' \subseteq req[s].pending
    BY <1>2, DeletesOneFile DEF SharedInv, StatementOK
  <2>2. req[s].pending \subseteq FilesMarkedRemove(logDB[s].log, clock, TTL)
    BY <2>1 DEF VersionsOK, CommitOK
  <2>3. /\ logDB[s] # Absent /\ logDB[s].log = logDB[s].etag
        /\ Extends(objLog, logDB[s].etag)
    BY <2>1 DEF SharedInv, TypeInv, RequestOK, StatementOK, OpenLogDBOK
  <2>4. objLog \in Log /\ logDB[s].log \in Log
    BY <2>3, SharedLogs
  <2> QED BY <1>1, <2>1, <2>2, <2>3, <2>4, ExpiredGrow
<1>3. ASSUME NEW s \in Servers, Begin(s) PROVE UNCHANGED <<stored, clock>>
  BY <1>3 DEF Begin, BeginCreate, BeginInsert, BeginRead, BeginDrop, StartRequest
<1>4. ASSUME NEW s \in Servers,
             \/ CreateView(s) \/ BindView(s) \/ Respond(s)
             \/ LogDDL(s) \/ InsertImport(s) \/ MergeImport(s)
             \/ Copy(s) \/ CopyFails(s)
             \/ Export(s) \/ ExportAnswerLost(s) \/ ExportFails(s)
             \/ DeleteLog(s) \/ Crash(s)
      PROVE  stored \subseteq stored' /\ UNCHANGED clock
  BY <1>4 DEF CreateView, BindView, Respond, LogDDL, InsertImport, MergeImport,
              AtImport, Copy, CopyFails, WriteParquet, Export, ExportAnswerLost,
              ExportWrites, ExportFails, DeleteLog, Crash
<1>5. ASSUME NEW s \in Servers, PurgeFile(s) \/ DropFile(s) PROVE UNCHANGED clock
  BY <1>5 DEF PurgeFile, DropFile
<1>6. CASE Tick \/ Rest \/ UNCHANGED vars
  BY <1>1, <1>6 DEF Tick, Rest, vars
<1> QED BY <1>1, <1>2, <1>3, <1>4, <1>5, <1>6 DEF Next, Step

(* A version that extends the committed log stays in order. *)
LEMMA VersionKept ==
  ASSUME SharedTable, SharedInv, VersionsOK, [Next]_vars,
         NEW l \in Log, l.add \subseteq Written, Extends(l, objLog),
         VersionOK(l)
  PROVE  RowsApart(content', l) /\ MissingExpired(l, stored', clock')
<1>1. RowsApart(content', l)
  BY WrittenOnce DEF VersionOK, RowsApart, FilesLive
<1>2. /\ objLog \in Log /\ clock \in Nat /\ clock' \in Nat /\ clock <= clock'
      /\ stored \ stored' \subseteq FilesMarkedRemove(objLog, clock, TTL)
  BY SharedLogs, RemovedObjectsExpired DEF SharedInv, TypeInv, TypeOK
<1>3. /\ FilesMarkedRemove(objLog, clock, TTL)
           \subseteq FilesMarkedRemove(l, clock', TTL)
      /\ FilesMarkedRemove(l, clock, TTL)
           \subseteq FilesMarkedRemove(l, clock', TTL)
  BY <1>2, ExpiredGrow, ExtendsReflexive
<1> QED BY <1>1, <1>2, <1>3 DEF VersionOK, MissingExpired

(* A COPY of a request whose import is still the committed log makes a     *)
(* version in order: the INSERT's row is in no other file, a merge leaves  *)
(* one live file, and the bucket has the new object.                       *)
LEMMA CopiedVersion ==
  ASSUME SharedTable, SharedInv, VersionsOK, NEW s \in Servers, Copy(s),
         logDB'[s].etag = objLog
  PROVE  VersionOK(logDB[s].log)'
<1> USE ConstantsAssumption
<1>1. PICK f \in Files :
        /\ WriteParquet(f, NewContent(s, f))
        /\ SetLogDB(s, IF req[s].op = "insert" THEN InsertAdd(logDB[s].log, f)
                       ELSE MergeEvents(logDB[s].log, f, clock),
                    logDB[s].etag)
  BY DEF Copy
<1>2. /\ req[s].pc = "copy" /\ Copyable(s) /\ logDB[s] # Absent
      /\ logDB[s].log = logDB[s].etag /\ UNCHANGED clock /\ clock \in Nat
  BY DEF Copy, SharedInv, TypeInv, TypeOK, RequestOK, StatementOK
<1> DEFINE l == IF req[s].op = "insert" THEN InsertAdd(logDB[s].log, f)
                ELSE MergeEvents(logDB[s].log, f, clock)
           c == NewContent(s, f)
<1>3. logDB'[s].log = l /\ logDB'[s].etag = logDB[s].etag
  BY <1>1 DEF SetLogDB, SharedInv, TypeInv, TypeOK
<1>4. logDB[s].log = objLog /\ objLog \in Log /\ objLog.add \subseteq Written
  BY <1>2, <1>3, SharedLogs
<1>5. /\ c \in Content /\ WriteParquet(f, c)
      /\ req[s].op = "insert" => c.rows = {f}
  BY <1>1, <1>2, CopiedRows
<1>6. stored' = stored \cup {f}
  BY <1>1 DEF WriteParquet
<1> HIDE DEF c
<1>7. /\ f \notin Written /\ content'[f] = c
      /\ \A g \in Written : content'[g] = content[g]
  BY <1>5, NewFile DEF SharedInv
<1>8. RowsApart(content, objLog) /\ MissingExpired(objLog, stored, clock)
  BY DEF VersionsOK, VersionOK
<1>9. CASE req[s].op = "insert"
  <2>1. l = InsertAdd(objLog, f)
    BY <1>4, <1>9
  <2>2. FilesLive(l) = FilesLive(objLog) \cup {f} /\ f \notin objLog.add
    BY <1>4, <1>7, <2>1, InsertAddLive DEF SharedInv, CommittedLogOK
  <2>3. \A g \in FilesLive(objLog) :
          content'[g] = content[g] /\ f \notin content[g].rows
    BY <1>4, <1>7 DEF FilesLive, SharedInv
  <2>4. RowsApart(content', l)
    BY <1>5, <1>7, <1>8, <1>9, <2>2, <2>3 DEF RowsApart
  <2>5. /\ FilesAll(l) = FilesAll(objLog) \cup {f}
        /\ FilesMarkedRemove(l, clock, TTL) = FilesMarkedRemove(objLog, clock, TTL)
    BY <2>1 DEF FilesAll, Removed, InsertAdd, FilesMarkedRemove
  <2>6. MissingExpired(l, stored', clock)
    BY <1>6, <1>8, <2>5 DEF MissingExpired
  <2> QED BY <1>2, <1>3, <2>4, <2>6 DEF VersionOK, RowsApart, MissingExpired
<1>10. CASE req[s].op # "insert"
  <2>1. l = MergeEvents(objLog, f, clock)
    BY <1>4, <1>10
  <2>2. /\ FilesLive(l) = {f} /\ Extends(l, objLog) /\ TombstonesAdded(l)
        /\ l \in Log
    BY <1>2, <1>4, <1>7, <2>1, MergeEventsLive, LogStatements
    DEF SharedInv, CommittedLogOK
  <2>3. RowsApart(content', l)
    BY <2>2 DEF RowsApart
  <2>4. FilesAll(l) \subseteq FilesAll(objLog) \cup {f}
    BY <2>1, <2>2 DEF FilesAll, MergeEvents, TombstonesAdded
  <2>5. FilesMarkedRemove(objLog, clock, TTL) \subseteq FilesMarkedRemove(l, clock, TTL)
    BY <1>2, <1>4, <2>2, ExpiredGrow
  <2>6. MissingExpired(l, stored', clock)
    BY <1>6, <1>8, <2>4, <2>5 DEF MissingExpired
  <2> QED BY <1>2, <1>3, <2>3, <2>6 DEF VersionOK, RowsApart, MissingExpired
<1> QED BY <1>9, <1>10

(* Every step keeps the versions in order. *)
LEMMA VersionsStep ==
  ASSUME SharedTable, SharedInv, SharedInv', VersionsOK, [Next]_vars
  PROVE  VersionsOK'
<1> USE ConstantsAssumption
<1>1. objLog \in Log /\ objLog.add \subseteq Written /\ Extends(objLog, objLog)
  BY SharedLogs, ExtendsReflexive
<1>2. /\ objLog' \in Log /\ Extends(objLog', objLog)
      /\ objLog' # objLog => \E s \in Servers : ExportWrites(s)
  BY <1>1, CommitSteps, ExportCommits
<1>3. VersionOK(objLog)'
  <2>1. PICK l \in Log : /\ l = objLog' /\ l.add \subseteq Written
                         /\ Extends(l, objLog) /\ VersionOK(l)
    <3>1. CASE objLog' = objLog
      BY <1>1, <3>1 DEF VersionsOK
    <3>2. ASSUME NEW s \in Servers, ExportWrites(s)
          PROVE  /\ objLog' = logDB[s].log /\ logDB[s].log.add \subseteq Written
                 /\ VersionOK(logDB[s].log)
      <4>1. /\ logDB[s].etag = objLog /\ objLog' = logDB[s].log
            /\ logDB[s] # Absent
        BY <3>2, ExportCommits
      <4>2. VersionOK(logDB[s].log)
        BY <3>2, <4>1 DEF ExportWrites, VersionsOK, CommitOK
      <4> QED BY <4>1, <4>2, SharedLogs
    <3> QED BY <1>2, <3>1, <3>2
  <2>2. RowsApart(content', l) /\ MissingExpired(l, stored', clock')
    BY <2>1, VersionKept
  <2> QED BY <2>1, <2>2 DEF VersionOK, RowsApart, MissingExpired
<1>4. ASSUME NEW t \in Servers PROVE CommitOK(t)'
  <2>1. CommitStep(t) /\ CommitOK(t) /\ StatementOK(t) /\ RequestOK(t) /\ OpenLogDBOK(t)
    BY CommitStepsOfServer DEF VersionsOK, SharedInv, TypeInv
  <2>2. clock \in Nat /\ clock' \in Nat /\ clock <= clock'
    BY RemovedObjectsExpired DEF SharedInv, TypeInv, TypeOK
  <2>3. ASSUME req'[t].pc = "purge"
        PROVE  req'[t].pending \subseteq FilesMarkedRemove(logDB'[t].log, clock', TTL)
    <3>1. req'[t].pending \subseteq FilesMarkedRemove(logDB'[t].log, clock, TTL)
      BY <2>1, <2>3 DEF CommitStep, CommitOK
    <3>2. logDB'[t] # Absent /\ logDB'[t].log \in Log
      BY <2>3 DEF SharedInv, TypeInv, TypeOK, RequestOK, DB
    <3> QED BY <2>2, <3>1, <3>2, ExpiredGrow, ExtendsReflexive
  <2>4. ASSUME req'[t].pc = "export", logDB'[t].etag = objLog'
        PROVE  VersionOK(logDB[t].log)'
    <3>1. CASE Copy(t)
      <4>1. objLog' = objLog
        BY <3>1 DEF Copy
      <4> QED BY <2>4, <3>1, <4>1, CopiedVersion
    <3>2. CASE req[t].pc \in {"export", "purge"} /\ logDB'[t] = logDB[t]
      <4>1. /\ logDB[t] # Absent /\ logDB[t].etag \in Log
            /\ logDB[t].log \in Log /\ logDB[t].log.add \subseteq Written
            /\ Extends(objLog, logDB[t].etag)
        BY <2>1, <3>2, SharedLogs DEF RequestOK, OpenLogDBOK
      <4>2. objLog' = objLog /\ logDB[t].etag = objLog
        BY <1>1, <1>2, <2>4, <3>2, <4>1, ExtendsAntisymmetric
      <4>3. VersionOK(logDB[t].log) /\ Extends(logDB[t].log, objLog)
        BY <1>1, <2>1, <3>2, <4>1, <4>2 DEF VersionsOK, CommitOK, StatementOK
      <4>4. /\ RowsApart(content', logDB[t].log)
            /\ MissingExpired(logDB[t].log, stored', clock')
        BY <4>1, <4>3, VersionKept
      <4> QED BY <3>2, <4>4 DEF VersionOK, RowsApart, MissingExpired
    <3> QED BY <2>1, <2>4, <3>1, <3>2 DEF CommitStep
  <2> QED BY <2>3, <2>4 DEF CommitOK
<1> QED BY <1>3, <1>4 DEF VersionsOK

(* An existing table starts with a version in order. *)
LEMMA VersionsInit ==
  ASSUME SharedTable, Init
  PROVE  VersionsOK
<1>1. PICK f \in Files, t \in TableIds :
        objLog = InsertAdd(InsertMetaData(EmptyLog, t), f) /\ stored = {f}
  BY DEF Init, SharedTable
<1>2. FilesLive(objLog) = {f} /\ FilesAll(objLog) = {f}
  BY <1>1 DEF FilesLive, FilesAll, Removed, InsertAdd, InsertMetaData, EmptyLog
<1>3. VersionOK(objLog)
  BY <1>1, <1>2 DEF VersionOK, RowsApart, MissingExpired
<1>4. \A s \in Servers : req[s].pc = "idle"
  BY DEF Init, NoRequest
<1> QED BY <1>3, <1>4 DEF VersionsOK, CommitOK

(* The versions are in order in every reachable state. *)
LEMMA VersionsInvariance ==
  ASSUME SharedTable
  PROVE  Spec => []VersionsOK
<1>1. Init => VersionsOK
  BY VersionsInit
<1>2. SharedInv /\ SharedInv' /\ VersionsOK /\ [Next]_vars => VersionsOK'
  BY VersionsStep
<1> QED BY <1>1, <1>2, SharedInvariance, PTL DEF Spec

(* No row is in two live files: whatever INSERTs and VACUUMs interleave, a *)
(* merge is committed only against the version whose rows it copied        *)
(* (merge.sql, Export).                                                    *)
THEOREM NoRowIsTwice ==
  ASSUME SharedTable
  PROVE  Spec => []NoRowTwice
<1>1. VersionsOK => NoRowTwice
  BY DEF VersionsOK, VersionOK, RowsApart, NoRowTwice
<1> QED BY <1>1, VersionsInvariance, PTL

(* An object that the log names leaves the bucket only TTL_SECONDS after a *)
(* committed tombstone: a purge acts on imported rows only (Merge).        *)
THEOREM MissingFilesAreExpired ==
  ASSUME SharedTable
  PROVE  Spec => []MissingFilesExpired
<1>1. VersionsOK => MissingFilesExpired
  BY DEF VersionsOK, VersionOK, MissingExpired, FilesMarkedRemove,
         MissingFilesExpired
<1> QED BY <1>1, VersionsInvariance, PTL

(* Every live file is in the bucket: no purge deletes what a reader of the *)
(* committed log needs, when no failed read is taken for a missing log.    *)
THEOREM LiveFilesArePresent ==
  ASSUME SharedTable
  PROVE  Spec => []LiveFilesPresent
<1>1. VersionsOK => LiveFilesPresent
  BY DEF VersionsOK, VersionOK, MissingExpired, FilesMarkedRemove, FilesAll,
         FilesLive, Removed, LiveFilesPresent
<1> QED BY <1>1, VersionsInvariance, PTL

(* The commit of a VACUUM leaves the rows as they are, since its view      *)
(* reads the files that its tombstones name (Merge, stale_vacuum).         *)
THEOREM MergeKeepsRows ==
  ASSUME SharedTable
  PROVE  Spec => MergePreservesRows
<1>1. SharedInv /\ [Next]_vars =>
        [\A s \in Servers :
           req[s].op = "vacuum" /\ req[s].pc = "export" /\ req'[s].pc = "idle"
             => RowsOf(objLog)' = RowsOf(objLog)]_vars
  <2> SUFFICES ASSUME SharedInv, [Next]_vars, NEW s \in Servers,
                      req[s].op = "vacuum", req[s].pc = "export",
                      req'[s].pc = "idle"
               PROVE  RowsOf(objLog)' = RowsOf(objLog)
    OBVIOUS
  <2>1. ASSUME NEW t \in Servers, ExportWrites(t)
        PROVE  RowsOf(objLog)' = RowsOf(objLog)
    <3>1. t = s
      BY <2>1 DEF ExportWrites, Finish, SharedInv, TypeInv, TypeOK
    <3>2. NewRows(s) = {}
      BY DEF NewRows
    <3> QED BY <2>1, <3>1, <3>2, ExportCommits
  <2> QED BY <2>1, CommitSteps
<1> QED BY <1>1, SharedInvariance, PTL DEF Spec, MergePreservesRows

-----------------------------------------------------------------------------
(***************************************************************************)
(* Schemas.  Nobody writes another metaData row, so every log a server     *)
(* holds, current or stale, describes the same incarnation.                *)
(***************************************************************************)
SchemaOK(s) ==
  /\ logDB[s] # Absent => logDB[s].log.meta = objLog.meta
  /\ req[s].snap # Absent => req[s].snap.meta = objLog.meta
  /\ req[s].pc # "idle" /\ req[s].op = "insert"
       => req[s].tmp = SchemaOf(objLog)

OneSchema ==
  /\ HasTable(objLog)
  /\ \A f \in Written : content[f].table = SchemaOf(objLog)
  /\ \A s \in Servers : SchemaOK(s)

(* What a step may do to the schemas that a server's state names. *)
SchemaStep(t) ==
  /\ logDB'[t] # Absent =>
       \/ logDB[t] # Absent /\ logDB'[t].log.meta = logDB[t].log.meta
       \/ logDB'[t].log.meta = objLog.meta
  /\ req'[t].snap \in {Absent, req[t].snap, objLog}
  /\ req'[t].pc # "idle" /\ req'[t].op = "insert" =>
       \/ /\ req[t].pc # "idle" /\ req[t].op = "insert"
          /\ req'[t].tmp = req[t].tmp
       \/ logDB'[t] # Absent /\ req'[t].tmp = SchemaOf(logDB'[t].log)

(* A server takes its schemas from the committed log or from its own, and  *)
(* builds the rows of an INSERT with the schema of its own.                *)
LEMMA SchemaSteps ==
  ASSUME SharedTable, SharedInv, [Next]_vars, NEW t \in Servers
  PROVE  SchemaStep(t)
<1> USE DEF SchemaStep
<1>1. req \in [Servers -> Request] /\ logDB \in [Servers -> DB \cup {Absent}]
  BY DEF SharedInv, TypeInv, TypeOK
<1>2. ASSUME NEW s \in Servers, NEW o, StartRequest(s, o),
             NEW r, req' = [req EXCEPT ![s] = r],
             r.snap \in {Absent, req[s].snap},
             r.pc # "idle" /\ r.op = "insert" =>
               r.tmp = SchemaOf(logDB'[s].log)
      PROVE  SchemaStep(t)
  <2>1. /\ logDB'[s] \in {logDB[s], [log |-> objLog, etag |-> objLog]}
        /\ logDB'[s] # Absent
        /\ \A u \in Servers \ {s} : logDB'[u] = logDB[u]
    BY <1>2, RequestStarted
  <2> QED BY <1>1, <1>2, <2>1
<1>3. ASSUME NEW s \in Servers, Finish(s),
             UNCHANGED logDB \/ logDB' = [logDB EXCEPT ![s] = Absent]
      PROVE  SchemaStep(t)
  <2>1. NoRequest.snap = Absent /\ NoRequest.pc = "idle"
    BY DEF NoRequest
  <2> QED BY <1>1, <1>3, <2>1 DEF Finish
<1>4. ASSUME NEW s \in Servers, Begin(s) PROVE SchemaStep(t)
  <2>1. ASSUME NEW o \in AllOps, BeginCreate(s, o) PROVE SchemaStep(t)
    BY <2>1, RequestStarted DEF BeginCreate
  <2>2. CASE BeginInsert(s)
    <3> DEFINE r == [NoRequest EXCEPT !.pc = "import", !.op = "insert",
                                      !.tmp = SchemaOf(logDB'[s].log)]
    <3>1. r.snap = Absent /\ r.tmp = SchemaOf(logDB'[s].log)
      BY DEF NoRequest
    <3>2. req' = [req EXCEPT ![s] = req[s]] \/ req' = [req EXCEPT ![s] = r]
      BY <1>1, <2>2 DEF BeginInsert
    <3>3. StartRequest(s, "insert") /\ req[s].pc = "idle"
      BY <2>2 DEF BeginInsert, StartRequest
    <3> HIDE DEF r
    <3> QED BY <1>2, <3>1, <3>2, <3>3
  <2>3. ASSUME NEW o \in AllOps, BeginRead(s, o) PROVE SchemaStep(t)
    <3>1. StartRequest(s, o) /\ o \in {"select", "vacuum"}
      BY <2>3 DEF BeginRead
    <3>2. FilesLive(logDB'[s].log) # {}
      BY <3>1, RequestStarted DEF OpenLogDBOK
    <3> DEFINE r == [[NoRequest EXCEPT !.op = o,
                        !.floor = IF o = "select" THEN acked ELSE {}]
                     EXCEPT !.pc = "view"]
    <3>3. req' = [req EXCEPT ![s] = r]
      BY <2>3, <3>2 DEF BeginRead
    <3>4. r.snap = Absent /\ r.op # "insert"
      BY <3>1 DEF NoRequest
    <3> HIDE DEF r
    <3> QED BY <1>2, <3>1, <3>3, <3>4
  <2>4. CASE BeginDrop(s)
    BY <2>4, RequestStarted DEF BeginDrop
  <2> QED BY <1>4, <2>1, <2>2, <2>3, <2>4 DEF Begin
<1>5. ASSUME NEW s \in Servers, CreateView(s) \/ BindView(s) \/ Respond(s)
      PROVE  SchemaStep(t)
  <2>1. UNCHANGED logDB
    BY <1>5 DEF CreateView, BindView, Respond
  <2>2. CASE Finish(s)
    BY <1>3, <2>1, <2>2
  <2>3. CASE /\ req[s].pc = "view"
             /\ req' = [req EXCEPT ![s].tmp = View,
                          ![s].pc = IF req[s].op = "select" THEN "bind"
                                    ELSE "import"]
    <3>1. req[s].op \in {"select", "vacuum"}
      BY <2>3 DEF SharedInv, TypeInv, RequestOK
    <3> QED BY <1>1, <2>1, <2>3, <3>1 DEF Request
  <2>4. CASE req' = [req EXCEPT ![s].snap = objLog,
                       ![s].pc = IF req[s].op = "select" THEN "answer"
                                 ELSE "copy"]
    BY <1>1, <2>1, <2>4 DEF Request
  <2> QED BY <1>5, <2>2, <2>3, <2>4 DEF CreateView, BindView, Respond
<1>6. ASSUME NEW s \in Servers, LogDDL(s) \/ InsertImport(s) \/ MergeImport(s)
      PROVE  SchemaStep(t)
  <2>1. PICK got \in {objLog, Absent} :
          ReadLog(got) /\ logDB' = [logDB EXCEPT ![s] = Imported(s, got)]
    BY <1>6 DEF LogDDL, InsertImport, MergeImport, AtImport, SharedInv, StatementOK
  <2>2. Imported(s, got) = [log |-> objLog, etag |-> objLog]
    BY <2>1, ImportsCommitted DEF Imported
  <2>3. /\ logDB'[s].log = objLog
        /\ \A u \in Servers \ {s} : logDB'[u] = logDB[u]
    BY <1>1, <2>1, <2>2
  <2>4. \/ req' = [req EXCEPT ![s].pc = "export"]
        \/ req' = [req EXCEPT ![s].pc = "copy"]
        \/ \E marked, next : req' = [req EXCEPT ![s].pending = marked, ![s].pc = next]
    BY <1>6 DEF LogDDL, InsertImport, MergeImport
  <2>5. req[s].pc = "import"
    BY <1>6 DEF LogDDL, InsertImport, MergeImport, AtImport
  <2>6. /\ req'[t].snap = req[t].snap /\ req'[t].op = req[t].op
        /\ req'[t].tmp = req[t].tmp
        /\ t # s => req'[t].pc = req[t].pc
    <3>1. CASE req' = [req EXCEPT ![s].pc = "export"]
      BY <1>1, <3>1 DEF Request
    <3>2. CASE req' = [req EXCEPT ![s].pc = "copy"]
      BY <1>1, <3>2 DEF Request
    <3>3. CASE \E marked, next :
                 req' = [req EXCEPT ![s].pending = marked, ![s].pc = next]
      BY <1>1, <3>3 DEF Request
    <3> QED BY <2>4, <3>1, <3>2, <3>3
  <2> QED BY <2>3, <2>5, <2>6
<1>7. ASSUME NEW s \in Servers, Copy(s) PROVE SchemaStep(t)
  <2>1. PICK f \in Files :
          /\ SetLogDB(s, IF req[s].op = "insert" THEN InsertAdd(logDB[s].log, f)
                         ELSE MergeEvents(logDB[s].log, f, clock),
                      logDB[s].etag)
          /\ req' = [req EXCEPT ![s].pc = "export", ![s].file = f]
    BY <1>7 DEF Copy
  <2>2. logDB[s] # Absent /\ req[s].pc = "copy"
    BY <1>7 DEF Copy, SharedInv, TypeInv, RequestOK
  <2>3. /\ logDB'[s].log.meta = logDB[s].log.meta
        /\ \A u \in Servers \ {s} : logDB'[u] = logDB[u]
    BY <1>1, <2>1 DEF SetLogDB, InsertAdd, MergeEvents
  <2>4. /\ req'[t].snap = req[t].snap /\ req'[t].op = req[t].op
        /\ req'[t].tmp = req[t].tmp
        /\ t # s => req'[t].pc = req[t].pc
    BY <1>1, <2>1 DEF Request
  <2> QED BY <2>2, <2>3, <2>4
<1>8. ASSUME NEW s \in Servers,
             \/ CopyFails(s) \/ Export(s) \/ ExportAnswerLost(s)
             \/ ExportFails(s) \/ DeleteLog(s) \/ Crash(s)
      PROVE  SchemaStep(t)
  <2>1. Finish(s) /\ (UNCHANGED logDB \/ logDB' = [logDB EXCEPT ![s] = Absent])
    BY <1>8 DEF CopyFails, Export, ExportAnswerLost, ExportWrites, ExportFails,
                DeleteLog, Crash
  <2> QED BY <1>3, <2>1
<1>9. ASSUME NEW s \in Servers, PurgeFile(s) \/ DropFile(s) PROVE SchemaStep(t)
  <2>1. /\ UNCHANGED logDB
        /\ \E f : req' = [req EXCEPT
                       ![s].pending = @ \ {f},
                       ![s].pc = IF req[s].pc = "purge" /\ req[s].pending = {f}
                                 THEN "export" ELSE @]
    BY <1>9, DeletesOneFile DEF SharedInv
  <2> QED BY <1>1, <2>1 DEF Request
<1>10. CASE Tick \/ Rest \/ UNCHANGED vars
  BY <1>10 DEF Tick, Rest, vars
<1> HIDE DEF SchemaStep
<1> QED BY <1>4, <1>5, <1>6, <1>7, <1>8, <1>9, <1>10 DEF Next, Step

(* No step changes the metaData rows of the committed log. *)
LEMMA MetaFixed ==
  ASSUME SharedTable, SharedInv, OneSchema, [Next]_vars
  PROVE  objLog'.meta = objLog.meta
<1>1. ASSUME NEW s \in Servers, ExportWrites(s) PROVE objLog'.meta = objLog.meta
  BY <1>1, ExportCommits DEF OneSchema, SchemaOK
<1> QED BY <1>1, CommitSteps

(* Every step keeps the one schema. *)
LEMMA OneSchemaStep ==
  ASSUME SharedTable, SharedInv, SharedInv', OneSchema, [Next]_vars
  PROVE  OneSchema'
<1> USE ConstantsAssumption
<1>1. objLog'.meta = objLog.meta
  BY MetaFixed
<1>2. HasTable(objLog)' /\ SchemaOf(objLog)' = SchemaOf(objLog)
  BY <1>1 DEF OneSchema, HasTable, SchemaOf
<1>3. ASSUME NEW s \in Servers, NEW f \in Files, req[s].pc = "copy", Copyable(s)
      PROVE  NewContent(s, f).table = SchemaOf(objLog)
  <2>1. SchemaOK(s) /\ RequestOK(s) /\ StatementOK(s)
    BY DEF OneSchema, SharedInv, TypeInv
  <2>2. CASE req[s].op = "insert"
    <3> req[s].tmp # View
      BY <1>3, <2>1, <2>2 DEF RequestOK
    <3>1. NewContent(s, f) = [rows |-> {f}, table |-> req[s].tmp]
      BY <2>2 DEF NewContent
    <3>2. NewContent(s, f).table = req[s].tmp
      BY <3>1
    <3>3. req[s].tmp = SchemaOf(objLog)
      BY <1>3, <2>1, <2>2 DEF SchemaOK
    <3> QED BY <3>2, <3>3
  <2>3. CASE req[s].op # "insert"
    <3>1. req[s].tmp = View /\ req[s].snap # Absent
      BY <1>3, <2>1, <2>3 DEF StatementOK, RequestOK
    <3>2. NewContent(s, f).table = SchemaOf(req[s].snap)
      BY <2>3, <3>1 DEF NewContent
    <3> QED BY <2>1, <3>1, <3>2 DEF SchemaOK, SchemaOf
  <2> QED BY <2>2, <2>3
<1>4. \A f \in Written' : content'[f].table = SchemaOf(objLog)
  <2>1. CASE UNCHANGED content
    BY <2>1 DEF Written, OneSchema
  <2>2. ASSUME NEW s \in Servers, NEW f \in Files,
               req[s].pc = "copy", Copyable(s), WriteParquet(f, NewContent(s, f))
        PROVE  \A g \in Written' : content'[g].table = SchemaOf(objLog)
    <3>1. NewContent(s, f) \in Content
      BY <2>2, CopiedRows
    <3>2. /\ content'[f] = NewContent(s, f) /\ Written' = Written \cup {f}
          /\ \A g \in Written : content'[g] = content[g]
      BY <2>2, <3>1, NewFile DEF SharedInv
    <3> QED BY <1>3, <2>2, <3>2 DEF OneSchema
  <2> QED BY <2>1, <2>2, WhoWrites
<1>5. ASSUME NEW t \in Servers PROVE SchemaOK(t)'
  <2>1. SchemaStep(t) /\ SchemaOK(t)
    BY SchemaSteps DEF OneSchema
  <2>2. ASSUME logDB'[t] # Absent PROVE logDB'[t].log.meta = objLog.meta
    BY <2>1, <2>2 DEF SchemaStep, SchemaOK
  <2>3. ASSUME req'[t].snap # Absent PROVE req'[t].snap.meta = objLog.meta
    BY <2>1, <2>3 DEF SchemaStep, SchemaOK
  <2>4. ASSUME req'[t].pc # "idle", req'[t].op = "insert"
        PROVE  req'[t].tmp = SchemaOf(objLog)
    BY <2>1, <2>2, <2>4 DEF SchemaStep, SchemaOK, SchemaOf
  <2> QED BY <1>1, <1>2, <2>2, <2>3, <2>4 DEF SchemaOK
<1> QED BY <1>2, <1>4, <1>5 DEF OneSchema

(* The first version has one schema. *)
LEMMA OneSchemaInit ==
  ASSUME SharedTable, Init
  PROVE  OneSchema
<1> USE ConstantsAssumption
<1>1. PICK f \in Files, t \in TableIds :
        /\ objLog = InsertAdd(InsertMetaData(EmptyLog, t), f)
        /\ content = [g \in Files |->
                        IF g = f THEN [rows |-> {f}, table |-> t] ELSE Absent]
  BY DEF Init, SharedTable
<1>2. objLog.meta = <<t>>
  BY <1>1 DEF InsertAdd, InsertMetaData, EmptyLog
<1>3. HasTable(objLog) /\ SchemaOf(objLog) = t
  BY <1>2 DEF HasTable, SchemaOf
<1>4. \A g \in Written : content[g].table = t
  BY <1>1 DEF Written
<1>5. \A s \in Servers : logDB[s] = Absent /\ req[s].snap = Absent /\ req[s].pc = "idle"
  BY DEF Init, NoRequest
<1> QED BY <1>3, <1>4, <1>5 DEF OneSchema, SchemaOK

(* Every reachable state has the one schema. *)
LEMMA SchemaInvariance ==
  ASSUME SharedTable
  PROVE  Spec => []OneSchema
<1>1. Init => OneSchema
  BY OneSchemaInit
<1>2. SharedInv /\ SharedInv' /\ OneSchema /\ [Next]_vars => OneSchema'
  BY OneSchemaStep
<1> QED BY <1>1, <1>2, SharedInvariance, PTL DEF Spec

(* Every live file has the schema that the log describes: the temporary    *)
(* table that an INSERT fills is made from a log, however old, of the same *)
(* incarnation (CreateTempTable, Insert).                                  *)
THEOREM FilesMatchTheTable ==
  ASSUME SharedTable
  PROVE  Spec => []FilesMatchTable
<1>1. SharedInv /\ OneSchema => FilesMatchTable
  BY SharedLogs DEF OneSchema, FilesMatchTable, FilesLive
<1> QED BY <1>1, SchemaInvariance, SharedInvariance, PTL

-----------------------------------------------------------------------------
(***************************************************************************)
(* The table.                                                              *)
(***************************************************************************)

(* Rows whose INSERT was acknowledged are never lost (Log.Insert, Export): *)
(* whatever the number of servers and failures, the log lists their files  *)
(* and the bucket holds them, on a table that is not being created or      *)
(* dropped and whose log can be read.                                      *)
THEOREM AckedRowsAreDurable ==
  ASSUME SharedTable
  PROVE  Spec => []AckedRowsDurable
<1>1. SharedInv /\ LiveFilesPresent => AckedRowsDurable
  <2> SUFFICES ASSUME SharedInv, LiveFilesPresent PROVE AckedRowsDurable
    OBVIOUS
  <2>1. objLog # Absent /\ acked \subseteq RowsOf(objLog)
    BY DEF SharedInv, CommittedLogOK, AckedRowsListed
  <2>2. FilesLive(objLog) \cap stored = FilesLive(objLog)
    BY <2>1 DEF LiveFilesPresent
  <2> QED BY <2>1, <2>2 DEF AckedRowsDurable, RowsHeld, RowsOf
<1> QED BY <1>1, SharedInvariance, LiveFilesArePresent, PTL

(* The servers implement the abstract table, which stays whole: every      *)
(* INSERT, SELECT and VACUUM takes effect at one instant, its Export, or   *)
(* not at all, and no reader finds a file of the table missing (Merge).    *)
THEOREM SharedTableImplementsTable ==
  ASSUME SharedTable
  PROVE  Spec => ImplementsTable
<1> USE ConstantsAssumption
<1> DEFINE dropping == \E s \in Servers : req[s].pc = "unlink"
<1>1. Init => T!Init
  <2> SUFFICES ASSUME Init PROVE T!Init
    OBVIOUS
  <2>1. PICK f \in Files, t \in TableIds :
          /\ objLog = InsertAdd(InsertMetaData(EmptyLog, t), f)
          /\ acked = {f} /\ stored = {f}
          /\ content = [g \in Files |->
                          IF g = f THEN [rows |-> {f}, table |-> t] ELSE Absent]
    BY DEF Init, SharedTable
  <2>2. objLog # Absent
    BY SharedInit DEF SharedInv, CommittedLogOK
  <2>3. FilesLive(objLog) = {f} /\ content[f].rows = {f} /\ objLog.meta = <<t>>
    BY <2>1 DEF FilesLive, Removed, InsertAdd, InsertMetaData, EmptyLog
  <2>4. RowsOf(objLog) = {f} /\ Readable /\ SchemaOf(objLog) = t
    BY <2>1, <2>2, <2>3 DEF RowsOf, Readable, SchemaOf
  <2>5. ~dropping
    BY DEF Init, NoRequest
  <2> QED BY <2>1, <2>2, <2>4, <2>5 DEF T!Init
<1>2. SharedInv /\ SharedInv' /\ LiveFilesPresent /\ LiveFilesPresent'
        /\ OneSchema /\ [Next]_vars => [T!Next]_(T!vars)
  <2> SUFFICES ASSUME SharedInv, SharedInv', LiveFilesPresent,
                      LiveFilesPresent', OneSchema, [Next]_vars
               PROVE  [T!Next]_(T!vars)
    OBVIOUS
  <2>1. objLog # Absent /\ objLog' # Absent
    BY DEF SharedInv, CommittedLogOK
  <2>2. Readable /\ Readable'
    BY <2>1 DEF LiveFilesPresent, Readable
  <2>3. SchemaOf(objLog)' = SchemaOf(objLog)
    BY MetaFixed DEF SchemaOf
  <2>4. ~dropping /\ ~dropping'
    BY DEF SharedInv, StatementOK
  <2> HIDE DEF dropping
  <2>5. CASE UNCHANGED <<objLog, acked>> /\ RowsOf(objLog)' = RowsOf(objLog)
    BY <2>1, <2>2, <2>3, <2>4, <2>5 DEF T!vars, dropping
  <2>6. ASSUME NEW s \in Servers, ExportWrites(s),
               acked' \in {acked, acked \cup NewRows(s)}
        PROVE  [T!Next]_(T!vars)
    <3>1. /\ RowsOf(objLog)' = RowsOf(objLog) \cup NewRows(s)
          /\ NewRows(s) \cap RowsOf(objLog) = {}
      BY <2>6, ExportCommits
    <3>2. CASE req[s].op = "insert"
      <4>1. req[s].file \in Files
        BY <2>6, <3>2 DEF ExportWrites, SharedInv, TypeInv, RequestOK
      <4>2. T!Insert(req[s].file)
        BY <2>1, <2>2, <2>3, <2>4, <2>6, <3>1, <3>2
        DEF T!Insert, NewRows, dropping
      <4> QED BY <4>1, <4>2 DEF T!Next
    <3>3. CASE req[s].op # "insert"
      BY <2>1, <2>2, <2>3, <2>4, <2>6, <3>1, <3>3 DEF T!vars, NewRows, dropping
    <3> QED BY <3>2, <3>3
  <2> QED BY <2>5, <2>6, CommitSteps
<1> QED
  BY <1>1, <1>2, SharedInvariance, LiveFilesArePresent, SchemaInvariance, PTL
  DEF Spec, ImplementsTable, T!Spec

=============================================================================
