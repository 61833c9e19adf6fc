--------------------------- MODULE HandlersProofs ---------------------------
(***************************************************************************)
(* Proofs about Handlers: types for every mix of requests, and, when the   *)
(* first request of a process and every VACUUM run alone, that the name in *)
(* the DATA database keeps writers apart, so that the requests of the      *)
(* process behave as one table.  Runs cold_start and vacuum_window show    *)
(* why each assumption is needed.                                          *)
(***************************************************************************)
EXTENDS Handlers, DeltaLogProofs

-----------------------------------------------------------------------------
(***************************************************************************)
(* Types.  TypeOK alone is not inductive: a statement runs on the LOG      *)
(* database that an earlier one opened, copies the content of the files a  *)
(* log lists, and reads fields of the request that only some steps fill.   *)
(***************************************************************************)
Written == {f \in Files : content[f] # Absent}

LogDBTyped(k) ==
  /\ dbs[k].log # Absent => dbs[k].log.add \subseteq Written
  /\ dbs[k].protocol => dbs[k].log # Absent

(* What a request has set up when it is at pc. *)
HandlerTyped(h) ==
  LET r == req[h] IN
  /\ r.pc # "idle" => r.op \in AllOps
  /\ r.pc \notin {"idle", "openData", "useData", "files", "table", "openLog"}
       => logDB # Absent
  /\ r.db # Absent => logDB # Absent
  /\ r.pc \in {"setvar", "delete", "rows", "write"} => r.got # Absent
  /\ r.pc \in {"delete", "rows"} => r.into # Absent
  /\ r.pc = "rows" => dbs[r.into].log # Absent
  /\ r.pc \in {"expired", "purge"} => r.op = "vacuum"
  /\ r.pc \in {"expired", "purge", "copy", "record", "events"} => r.db # Absent
  /\ r.pc = "record" => r.file # Absent
  /\ r.pc \in {"etag", "events", "write"} /\ r.op = "insert" => r.file # Absent
  /\ r.file # Absent => r.file \in Written
  /\ r.got # Absent => r.got.add \subseteq Written

TypeInv ==
  /\ TypeOK
  /\ objLog.add \subseteq Written
  /\ \A k \in Handlers : LogDBTyped(k)
  /\ \A h \in Handlers : HandlerTyped(h)

(* A LOG database keeps its table, which lists written files only. *)
DBsStep ==
  /\ dbs' \in [Handlers -> DB]
  /\ \A k \in Handlers :
       /\ dbs[k].log # Absent => dbs'[k].log # Absent
       /\ dbs'[k].log # Absent => dbs'[k].log.add \subseteq Written
       /\ dbs'[k].protocol => dbs'[k].log # Absent

(* A request that has not begun has the shape of one. *)
LEMMA NoRequestType ==
  /\ NoRequest \in Request /\ NoRequest.pc = "idle" /\ ~NoRequest.first
  /\ NoRequest.db = Absent /\ NoRequest.file = Absent /\ NoRequest.got = Absent
BY DEF NoRequest, Request

(* A LOG database before its log_json exists has the shape of one. *)
LEMMA FreshDBType == FreshDB \in DB /\ FreshDB.log = Absent /\ FreshDB.protocol = FALSE
BY ConstantsAssumption DEF FreshDB, DB

(* What the type invariant says of one handler and one LOG database. *)
LEMMA Typed ==
  ASSUME TypeInv
  PROVE  /\ req \in [Handlers -> Request] /\ dbs \in [Handlers -> DB]
         /\ names \in [Handlers -> Handlers \cup {Absent}]
         /\ dataDB \in Handlers \cup {Absent} /\ logDB \in Handlers \cup {Absent}
         /\ \A h \in Handlers : req[h] \in Request /\ HandlerTyped(h)
         /\ \A k \in Handlers : dbs[k] \in DB /\ LogDBTyped(k)
         /\ objLog \in Log /\ objLog.add \subseteq Written
BY DEF TypeInv, TypeOK

(* Statements that leave the LOG databases alone. *)
LEMMA SameDBs ==
  ASSUME TypeInv, UNCHANGED dbs
  PROVE  DBsStep
BY Typed DEF DBsStep, LogDBTyped

(* A statement that replaces the rows of log_json. *)
LEMMA ExecuteTyped ==
  ASSUME TypeInv, NEW h \in Handlers, NEW k \in Handlers,
         NEW l \in Log \cup {Absent}, NEW b \in BOOLEAN, Execute(h, k, l, b),
         dbs[k].log # Absent \/ b => l # Absent,
         l # Absent => l.add \subseteq Written
  PROVE  /\ DBsStep
         /\ dbs'[k].log = l /\ dbs'[k].protocol = b
         /\ \A j \in Handlers \ {k} : dbs'[j] = dbs[j]
<1>1. /\ dbs \in [Handlers -> DB] /\ dbs[k] \in DB
      /\ \A j \in Handlers : LogDBTyped(j)
  BY Typed
<1>2. PICK c \in Conns :
        dbs' = [dbs EXCEPT ![k].top = c, ![k].log = l, ![k].protocol = b]
  BY <1>1 DEF Execute, ConnOf, DB
<1> DEFINE d == [dbs[k] EXCEPT !.top = c, !.log = l, !.protocol = b]
<1>3. d \in DB /\ d.log = l /\ d.protocol = b
  BY <1>1 DEF DB
<1>4. dbs' = [dbs EXCEPT ![k] = d]
  BY <1>1, <1>2 DEF DB
<1> HIDE DEF d
<1>5. /\ dbs' \in [Handlers -> DB] /\ dbs'[k] = d
      /\ \A j \in Handlers \ {k} : dbs'[j] = dbs[j]
  BY <1>1, <1>3, <1>4
<1> QED BY <1>1, <1>3, <1>5 DEF DBsStep, LogDBTyped

(* A query leaves the rows of every log_json alone. *)
LEMMA QueryTyped ==
  ASSUME TypeInv, NEW h \in Handlers, NEW k \in Handlers, Query(h, k)
  PROVE  DBsStep /\ \A j \in Handlers : dbs'[j].log = dbs[j].log
<1>1. /\ dbs[k] \in DB /\ LogDBTyped(k)
      /\ dbs[k].log \in Log \cup {Absent} /\ dbs[k].protocol \in BOOLEAN
  BY Typed DEF DB
<1> QED BY <1>1, ExecuteTyped DEF Query, LogDBTyped

(* A step of one handler preserves the invariant when it does so for the   *)
(* handler's request, the LOG databases and the bucket.                    *)
LEMMA OneHandlerTyped ==
  ASSUME TypeInv, NEW h \in Handlers,
         TypeOK', DBsStep, Written \subseteq Written', objLog'.add \subseteq Written',
         logDB # Absent => logDB' # Absent,
         \A g \in Handlers \ {h} : req'[g] = req[g],
         HandlerTyped(h)'
  PROVE  TypeInv'
<1>1. \A k \in Handlers : LogDBTyped(k)'
  BY DEF DBsStep, LogDBTyped
<1>2. ASSUME NEW g \in Handlers \ {h} PROVE HandlerTyped(g)'
  <2>1. /\ HandlerTyped(g) /\ req'[g] = req[g] /\ req[g] \in Request
    BY Typed
  <2>2. req[g].pc = "rows" => dbs'[req[g].into].log # Absent
    BY <2>1 DEF HandlerTyped, DBsStep, Request
  <2> QED BY <2>1, <2>2 DEF HandlerTyped
<1> QED BY <1>1, <1>2 DEF TypeInv

(* A step that changes neither the bucket nor the open databases. *)
LEMMA LocalTyped ==
  ASSUME TypeInv, NEW h \in Handlers, UNCHANGED <<bucket, handles>>, DBsStep,
         {requests', faults', crashes'} \subseteq Nat,
         req' \in [Handlers -> Request], names' \in [Handlers -> Handlers \cup {Absent}],
         \A g \in Handlers \ {h} : req'[g] = req[g],
         HandlerTyped(h)'
  PROVE  TypeInv'
<1>1. TypeOK'
  BY DEF TypeInv, TypeOK, DBsStep, bucket, handles
<1>2. Written' = Written /\ objLog' = objLog /\ logDB' = logDB
  BY DEF Written, bucket, handles
<1> QED BY <1>1, <1>2, Typed, OneHandlerTyped

(* A request that ends leaves nothing behind. *)
LEMMA FinishTyped ==
  ASSUME TypeInv, NEW h \in Handlers, Finish(h)
  PROVE  /\ req' \in [Handlers -> Request] /\ req'[h] = NoRequest
         /\ \A g \in Handlers \ {h} : req'[g] = req[g]
         /\ names' \in [Handlers -> Handlers \cup {Absent}]
         /\ HandlerTyped(h)'
<1> USE ConstantsAssumption
<1>1. /\ req' \in [Handlers -> Request] /\ req'[h] = NoRequest
      /\ \A g \in Handlers \ {h} : req'[g] = req[g]
      /\ names' \in [Handlers -> Handlers \cup {Absent}]
  BY Typed, NoRequestType DEF Finish
<1>2. HandlerTyped(h)'
  BY <1>1, NoRequestType DEF HandlerTyped
<1> QED BY <1>1, <1>2

(* The program counters. *)
Counters ==
  {"idle", "openData", "useData", "files", "table", "openLog", "init", "name",
   "answer", "read", "setvar", "delete", "rows", "expired", "purge", "copy",
   "record", "etag", "events", "write"}

(* A request may be at any program counter. *)
LEMMA PcType ==
  ASSUME NEW r \in Request, NEW pc \in Counters
  PROVE  [r EXCEPT !.pc = pc] \in Request
BY DEF Request, Counters

(* Control moves and the rest of the request stays. *)
LEMMA GotoTyped ==
  ASSUME TypeInv, NEW h \in Handlers, NEW pc \in Counters, Goto(h, pc)
  PROVE  /\ req' \in [Handlers -> Request]
         /\ req'[h] = [req[h] EXCEPT !.pc = pc] /\ req'[h].pc = pc
         /\ \A g \in Handlers \ {h} : req'[g] = req[g]
         /\ names' \in [Handlers -> Handlers \cup {Absent}]
<1> DEFINE r == [req[h] EXCEPT !.pc = pc]
<1>1. req \in [Handlers -> Request] /\ req[h] \in Request
  BY Typed
<1>2. r \in Request /\ r.pc = pc
  BY <1>1 DEF Counters, Request
<1>3. req' = [req EXCEPT ![h] = r]
  BY <1>1 DEF Goto
<1> HIDE DEF r
<1>4. /\ req' \in [Handlers -> Request] /\ req'[h] = r
      /\ \A g \in Handlers \ {h} : req'[g] = req[g]
  BY <1>1, <1>2, <1>3
<1> QED BY <1>2, <1>4, Typed DEF Goto, r

(* A request that begins has no LOG database yet. *)
LEMMA BeginTyped ==
  ASSUME TypeInv, NEW h \in Handlers, NEW op \in AllOps, Begin(h, op)
  PROVE  TypeInv'
<1> USE ConstantsAssumption
<1>1. PICK b \in BOOLEAN, pc \in {"openData", "files", "table"} :
        req' = [req EXCEPT ![h] = [NoRequest EXCEPT
                  !.op = op, !.alone = b, !.data = dataDB, !.pc = pc]]
  BY DEF Begin, Start
<1>2. /\ UNCHANGED <<bucket, handles, names, dbs, faults, crashes>>
      /\ requests' = requests + 1
  BY DEF Begin
<1> DEFINE r == [NoRequest EXCEPT !.op = op, !.alone = b, !.data = dataDB, !.pc = pc]
<1>3. /\ r \in Request /\ r.pc = pc /\ r.op = op
      /\ r.db = Absent /\ r.got = Absent /\ r.file = Absent
  <2>1. dataDB \in Handlers \cup {Absent} /\ op \in AllOps \cup {Absent}
    BY Typed
  <2>2. r \in Request
    BY <2>1, NoRequestType DEF Request
  <2> QED BY <2>2 DEF NoRequest
<1> HIDE DEF r
<1>4. /\ req' \in [Handlers -> Request] /\ req'[h] = r
      /\ \A g \in Handlers \ {h} : req'[g] = req[g]
  BY <1>1, <1>3, Typed DEF r
<1>5. HandlerTyped(h)'
  BY <1>3, <1>4 DEF HandlerTyped
<1>6. {requests', faults', crashes'} \subseteq Nat
  BY <1>2 DEF TypeInv, TypeOK
<1>7. names' \in [Handlers -> Handlers \cup {Absent}]
  BY <1>2, Typed
<1> QED BY <1>2, <1>4, <1>5, <1>6, <1>7, SameDBs, LocalTyped

(* Opening the two databases. *)
LEMMA OpenTyped ==
  ASSUME TypeInv, NEW h \in Handlers,
         \/ OpenData(h) \/ UseData(h) \/ NoLogDB(h) \/ OpenLog(h) \/ InitLog(h)
  PROVE  TypeInv'
<1> USE ConstantsAssumption
<1>1. /\ req \in [Handlers -> Request] /\ req[h] \in Request /\ HandlerTyped(h)
      /\ {requests, faults, crashes} \subseteq Nat
  BY Typed DEF TypeInv, TypeOK
<1>2. CASE OpenData(h)
  <2>1. /\ req[h].pc = "openData" /\ dataDB' = h /\ Goto(h, "useData")
        /\ UNCHANGED <<bucket, logDB, dbs, bounds>>
    BY <1>2 DEF OpenData
  <2>2. /\ req' \in [Handlers -> Request] /\ req'[h] = [req[h] EXCEPT !.pc = "useData"]
        /\ \A g \in Handlers \ {h} : req'[g] = req[g]
        /\ names' \in [Handlers -> Handlers \cup {Absent}]
    BY <2>1, GotoTyped DEF Counters
  <2>3. TypeOK' /\ Written' = Written /\ objLog' = objLog
    BY <2>1, <2>2 DEF TypeInv, TypeOK, Written, bucket, bounds
  <2>4. HandlerTyped(h)'
    BY <1>1, <2>1, <2>2, <2>3 DEF HandlerTyped, Request
  <2> QED BY <2>1, <2>2, <2>3, <2>4, SameDBs, Typed, OneHandlerTyped
<1>3. CASE UseData(h)
  <2>1. /\ req[h].pc = "useData" /\ UNCHANGED <<bucket, handles, names, dbs, bounds>>
        /\ req' = [req EXCEPT ![h].data = dataDB, ![h].pc = Start(req[h].op)]
    BY <1>3 DEF UseData
  <2> DEFINE r == [req[h] EXCEPT !.data = dataDB, !.pc = Start(req[h].op)]
  <2>2. r \in Request /\ r.pc \in {"files", "table"}
    <3>1. /\ Start(req[h].op) \in {"files", "table"}
          /\ dataDB \in Handlers \cup {Absent}
      BY Typed DEF Start
    <3>2. PICK pc \in {"files", "table"} : pc = Start(req[h].op)
      BY <3>1
    <3>3. r = [req[h] EXCEPT !.data = dataDB, !.pc = pc]
      BY <3>2
    <3> HIDE DEF r
    <3> QED BY <1>1, <3>1, <3>3 DEF Request
  <2>3. req' = [req EXCEPT ![h] = r]
    BY <1>1, <2>1 DEF Request
  <2>4. /\ r.op = req[h].op /\ r.db = req[h].db
        /\ r.file = req[h].file /\ r.got = req[h].got
    BY <1>1 DEF Request
  <2> HIDE DEF r
  <2>5. /\ req' \in [Handlers -> Request] /\ req'[h] = r
        /\ \A g \in Handlers \ {h} : req'[g] = req[g]
    BY <1>1, <2>2, <2>3
  <2>6. HandlerTyped(h)'
    BY <1>1, <2>1, <2>2, <2>4, <2>5 DEF HandlerTyped, bucket, handles, Written
  <2> QED BY <1>1, <2>1, <2>5, <2>6, SameDBs, Typed, LocalTyped DEF bounds
<1>4. CASE NoLogDB(h)
  <2>1. /\ req[h].pc \in {"files", "table"} /\ Goto(h, "openLog")
        /\ UNCHANGED <<bucket, handles, dbs, bounds>>
    BY <1>4 DEF NoLogDB
  <2>2. /\ req' \in [Handlers -> Request] /\ req'[h] = [req[h] EXCEPT !.pc = "openLog"]
        /\ \A g \in Handlers \ {h} : req'[g] = req[g]
        /\ names' \in [Handlers -> Handlers \cup {Absent}]
    BY <2>1, GotoTyped DEF Counters
  <2>3. HandlerTyped(h)'
    BY <1>1, <2>1, <2>2 DEF HandlerTyped, Request, bucket, handles, Written
  <2> QED BY <1>1, <2>1, <2>2, <2>3, SameDBs, LocalTyped DEF bounds
<1>5. CASE OpenLog(h) /\ Goto(h, "init") /\ logDB' = h
  <2>1. /\ req[h].pc = "openLog" /\ logDB' = h /\ Goto(h, "init")
        /\ UNCHANGED <<bucket, dataDB, dbs, bounds>>
    BY <1>5 DEF OpenLog
  <2>2. /\ req' \in [Handlers -> Request] /\ req'[h] = [req[h] EXCEPT !.pc = "init"]
        /\ \A g \in Handlers \ {h} : req'[g] = req[g]
        /\ names' \in [Handlers -> Handlers \cup {Absent}]
    BY <2>1, GotoTyped DEF Counters
  <2>3. TypeOK' /\ Written' = Written /\ objLog' = objLog
    BY <2>1, <2>2 DEF TypeInv, TypeOK, Written, bucket, bounds
  <2>4. HandlerTyped(h)'
    BY <1>1, <2>1, <2>2, <2>3 DEF HandlerTyped, Request
  <2> QED BY <2>1, <2>2, <2>3, <2>4, SameDBs, Typed, OneHandlerTyped
<1>6. CASE InitLog(h)
  <2>1. /\ req[h].pc = "init" /\ UNCHANGED <<bucket, handles, names, bounds>>
        /\ req' = [req EXCEPT ![h].pc = "read", ![h].first = TRUE, ![h].db = logDB]
    BY <1>6 DEF InitLog
  <2>2. logDB \in Handlers /\ logDB # Absent
    BY <1>1, <2>1, Typed DEF HandlerTyped
  <2> DEFINE r == [req[h] EXCEPT !.pc = "read", !.first = TRUE, !.db = logDB]
  <2>3. /\ r \in Request /\ r.pc = "read" /\ r.op = req[h].op
        /\ r.file = req[h].file /\ r.got = req[h].got
    BY ZenonT(40), <1>1, <2>2 DEF Request
  <2>4. req' = [req EXCEPT ![h] = r]
    BY <1>1, <2>1 DEF Request
  <2> HIDE DEF r
  <2>5. /\ req' \in [Handlers -> Request] /\ req'[h] = r
        /\ \A g \in Handlers \ {h} : req'[g] = req[g]
    BY <1>1, <2>3, <2>4
  <2>6. DBsStep
    <3>1. dbs \in [Handlers -> DB] /\ dbs[h] \in DB
      BY Typed
    <3>2. PICK c \in Conns :
            dbs' = [dbs EXCEPT ![h].top = c, ![h].log = EmptyLog,
                               ![h].protocol = TRUE, ![h].etag[c] = Absent]
      BY <1>6, <3>1 DEF InitLog, ConnOf, DB
    <3> DEFINE d == [dbs[h] EXCEPT !.top = c, !.log = EmptyLog,
                                   !.protocol = TRUE, !.etag[c] = Absent]
    <3>3. d \in DB /\ d.log = EmptyLog
      BY <3>1, EmptyLogType DEF DB
    <3>4. dbs' = [dbs EXCEPT ![h] = d]
      BY <3>1, <3>2 DEF DB
    <3> HIDE DEF d
    <3>5. EmptyLog # Absent /\ EmptyLog.add = {}
      BY EmptyLogType
    <3> QED BY <3>1, <3>3, <3>4, <3>5, Typed DEF DBsStep, LogDBTyped
  <2>7. HandlerTyped(h)'
    BY <1>1, <2>1, <2>2, <2>3, <2>5 DEF HandlerTyped, bucket, handles, Written
  <2> QED BY <1>1, <2>1, <2>5, <2>6, <2>7, Typed, LocalTyped DEF bounds
<1>7. CASE /\ OpenLog(h) /\ logDB # Absent /\ UNCHANGED <<logDB, names>>
           /\ req' = [req EXCEPT ![h].pc = "read", ![h].first = TRUE, ![h].db = logDB]
  <2>1. req[h].pc = "openLog" /\ UNCHANGED <<bucket, handles, dbs, bounds>>
    BY <1>7 DEF OpenLog, handles
  <2> DEFINE r == [req[h] EXCEPT !.pc = "read", !.first = TRUE, !.db = logDB]
  <2>2. /\ r \in Request /\ r.pc = "read" /\ r.op = req[h].op
        /\ r.file = req[h].file /\ r.got = req[h].got
    <3>1. logDB \in Handlers
      BY <1>7, Typed
    <3> QED BY ZenonT(40), <1>1, <3>1 DEF Request
  <2>3. req' = [req EXCEPT ![h] = r]
    BY <1>1, <1>7 DEF Request
  <2> HIDE DEF r
  <2>4. /\ req' \in [Handlers -> Request] /\ req'[h] = r
        /\ \A g \in Handlers \ {h} : req'[g] = req[g]
    BY <1>1, <2>2, <2>3
  <2>5. HandlerTyped(h)'
    BY <1>1, <1>7, <2>1, <2>2, <2>4 DEF HandlerTyped, bucket, handles, Written
  <2> QED BY <1>1, <1>7, <2>1, <2>4, <2>5, SameDBs, Typed, LocalTyped DEF bounds
<1>8. OpenLog(h) =>
        \/ Goto(h, "init") /\ logDB' = h
        \/ /\ logDB # Absent /\ UNCHANGED <<logDB, names>>
           /\ req' = [req EXCEPT ![h].pc = "read", ![h].first = TRUE, ![h].db = logDB]
  BY DEF OpenLog
<1> QED BY <1>2, <1>3, <1>4, <1>5, <1>6, <1>7, <1>8

(* The request of one handler changes. *)
LEMMA Becomes ==
  ASSUME TypeInv, NEW h \in Handlers, NEW r \in Request, req' = [req EXCEPT ![h] = r]
  PROVE  /\ req' \in [Handlers -> Request] /\ req'[h] = r
         /\ \A g \in Handlers \ {h} : req'[g] = req[g]
BY Typed

(* The database a query runs on is one that was opened. *)
LEMMA QueryDBType ==
  ASSUME TypeInv, NEW h \in Handlers
  PROVE  QueryDB(h) \in Handlers \cup {Absent} /\ (QueryDB(h) # Absent => logDB # Absent)
BY Typed DEF QueryDB, HandlerTyped, Request

(* CreateViewOfParquet and CreateTempTable. *)
LEMMA NameTyped ==
  ASSUME TypeInv, NEW h \in Handlers,
         ListLiveFiles(h) \/ FindMetaData(h) \/ TakeName(h) \/ Respond(h)
  PROVE  TypeInv'
<1> USE ConstantsAssumption
<1>1. /\ req \in [Handlers -> Request] /\ req[h] \in Request /\ HandlerTyped(h)
      /\ {requests, faults, crashes} \subseteq Nat
      /\ names \in [Handlers -> Handlers \cup {Absent}]
  BY Typed DEF TypeInv, TypeOK
<1>2. UNCHANGED <<bucket, handles, bounds>>
  BY DEF ListLiveFiles, FindMetaData, TakeName, Respond
<1>3. DBsStep
  BY SameDBs, QueryTyped, QueryDBType DEF ListLiveFiles, FindMetaData, TakeName, Respond
<1>4. {requests', faults', crashes'} \subseteq Nat
  BY <1>1, <1>2 DEF bounds
<1>5. CASE Finish(h)
  BY <1>2, <1>3, <1>4, <1>5, FinishTyped, LocalTyped
<1>6. ASSUME NEW pc \in {"table", "name", "answer", "read"}, req[h].pc # "idle",
             logDB # Absent, NEW v \in BOOLEAN, NEW db \in {req[h].db, Absent},
             req' = [req EXCEPT ![h] = [req[h] EXCEPT !.view = v, !.db = db, !.pc = pc]],
             names' \in [Handlers -> Handlers \cup {Absent}]
      PROVE  TypeInv'
  <2> DEFINE r == [req[h] EXCEPT !.view = v, !.db = db, !.pc = pc]
  <2>1. /\ r \in Request /\ r.pc = pc /\ r.op = req[h].op
        /\ r.file = req[h].file /\ r.got = req[h].got
    <3>1. req[h].db \in Handlers \cup {Absent} /\ pc \in Counters
      BY <1>1 DEF Request, Counters
    <3>2. db \in Handlers \cup {Absent}
      BY <3>1
    <3> DEFINE q == [req[h] EXCEPT !.view = v, !.db = db]
    <3>3. r = [q EXCEPT !.pc = pc]
      OBVIOUS
    <3>5. q \in Request
      BY <1>1, <3>2 DEF Request
    <3> HIDE DEF q
    <3>4. /\ r.pc = pc /\ r.op = req[h].op
          /\ r.file = req[h].file /\ r.got = req[h].got
      BY <1>1 DEF Request
    <3> QED BY <3>1, <3>3, <3>4, <3>5, PcType
  <2> HIDE DEF r
  <2>2. /\ req' \in [Handlers -> Request] /\ req'[h] = r
        /\ \A g \in Handlers \ {h} : req'[g] = req[g]
    BY <1>6, <2>1, Becomes DEF r
  <2>3. HandlerTyped(h)'
    BY <1>1, <1>2, <1>6, <2>1, <2>2 DEF HandlerTyped, bucket, handles, Written
  <2> QED BY <1>2, <1>3, <1>4, <1>6, <2>2, <2>3, LocalTyped
<1>7. CASE ListLiveFiles(h) /\ ~Finish(h)
  <2>1. req[h].pc = "files" /\ QueryDB(h) # Absent /\ names' = names
        /\ \/ req' = [req EXCEPT ![h].pc = "name", ![h].view = TRUE, ![h].db = Absent]
           \/ req' = [req EXCEPT ![h].pc = "table", ![h].db = Absent]
    BY <1>7 DEF ListLiveFiles
  <2>2. CASE req' = [req EXCEPT ![h].pc = "name", ![h].view = TRUE, ![h].db = Absent]
    <3>1. req' = [req EXCEPT ![h] = [req[h] EXCEPT !.view = TRUE, !.db = Absent,
                                                   !.pc = "name"]]
      BY <1>1, <2>2 DEF Request
    <3> QED BY <1>1, <1>6, <2>1, <3>1, QueryDBType
  <2>3. CASE req' = [req EXCEPT ![h].pc = "table", ![h].db = Absent]
    <3>1. req' = [req EXCEPT ![h] = [req[h] EXCEPT !.view = req[h].view, !.db = Absent,
                                                   !.pc = "table"]]
      BY <1>1, <2>3 DEF Request
    <3>2. req[h].view \in BOOLEAN
      BY <1>1 DEF Request
    <3> QED BY <1>1, <1>6, <2>1, <3>1, <3>2, QueryDBType
  <2> QED BY <2>1, <2>2, <2>3
<1>8. ASSUME NEW pc \in {"name", "answer", "read"}, req[h].pc # "idle",
             logDB # Absent, req' = [req EXCEPT ![h].pc = pc],
             names' \in [Handlers -> Handlers \cup {Absent}]
      PROVE  TypeInv'
  <2>1. req[h].view \in BOOLEAN
    BY <1>1 DEF Request
  <2>2. req' = [req EXCEPT ![h] = [req[h] EXCEPT !.view = req[h].view, !.db = req[h].db,
                                                 !.pc = pc]]
    BY <1>1, <1>8 DEF Request
  <2> QED BY <1>6, <1>8, <2>1, <2>2
<1>9. CASE FindMetaData(h) /\ ~Finish(h)
  <2>1. req[h].pc = "table" /\ QueryDB(h) # Absent
        /\ \E pc \in {"name", "read"} : Goto(h, pc)
    BY <1>9 DEF FindMetaData
  <2> QED BY <1>1, <1>8, <2>1, QueryDBType DEF Goto
<1>10. CASE TakeName(h) /\ ~Finish(h)
  <2>1. /\ req[h].pc = "name" /\ names' = [names EXCEPT ![req[h].data] = h]
        /\ req' = [req EXCEPT ![h].pc = IF req[h].op = "select" THEN "answer" ELSE "read"]
    BY <1>10 DEF TakeName
  <2>2. PICK pc \in {"answer", "read"} : req' = [req EXCEPT ![h].pc = pc]
    BY <2>1
  <2>3. logDB # Absent /\ names' \in [Handlers -> Handlers \cup {Absent}]
    BY <1>1, <2>1 DEF HandlerTyped
  <2> QED BY <1>8, <2>1, <2>2, <2>3
<1> QED BY <1>5, <1>7, <1>9, <1>10 DEF Respond

(* Import. *)
LEMMA ImportTyped ==
  ASSUME TypeInv, NEW h \in Handlers,
         ReadLog(h) \/ SetVariable(h) \/ DeleteRows(h) \/ LoadRows(h)
  PROVE  TypeInv'
<1> USE ConstantsAssumption
<1>1. /\ req \in [Handlers -> Request] /\ req[h] \in Request /\ HandlerTyped(h)
      /\ {requests, faults, crashes} \subseteq Nat
      /\ names \in [Handlers -> Handlers \cup {Absent}]
      /\ logDB \in Handlers /\ logDB # Absent
      /\ objLog \in Log /\ objLog # Absent /\ objLog.add \subseteq Written
  BY Typed DEF TypeInv, TypeOK, HandlerTyped, ReadLog, SetVariable, DeleteRows, LoadRows
<1>2. UNCHANGED <<bucket, handles, bounds>>
  BY DEF ReadLog, SetVariable, DeleteRows, LoadRows
<1>3. {requests', faults', crashes'} \subseteq Nat
  BY <1>1, <1>2 DEF bounds
<1>4. CASE ReadLog(h)
  <2> DEFINE r == [req[h] EXCEPT !.pc = "setvar", !.got = objLog]
  <2>1. req[h].pc = "read" /\ UNCHANGED <<names, dbs>>
    BY <1>4 DEF ReadLog
  <2>2. /\ r \in Request /\ r.pc = "setvar" /\ r.got = objLog
        /\ r.op = req[h].op /\ r.file = req[h].file
    BY ZenonT(40), <1>1 DEF Request
  <2>3. req' = [req EXCEPT ![h] = r]
    BY <1>1, <1>4 DEF ReadLog, Request
  <2> HIDE DEF r
  <2>4. /\ req' \in [Handlers -> Request] /\ req'[h] = r
        /\ \A g \in Handlers \ {h} : req'[g] = req[g]
    BY <2>2, <2>3, Becomes
  <2>5. HandlerTyped(h)'
    BY <1>1, <1>2, <2>1, <2>2, <2>4 DEF HandlerTyped, bucket, handles, Written
  <2> QED BY <1>1, <1>2, <1>3, <2>1, <2>4, <2>5, SameDBs, LocalTyped
<1>5. CASE SetVariable(h)
  <2> DEFINE r == [req[h] EXCEPT !.pc = "delete", !.into = logDB]
  <2>1. req[h].pc = "setvar" /\ req[h].got # Absent /\ UNCHANGED names
    BY <1>1, <1>5 DEF SetVariable, HandlerTyped
  <2>2. /\ r \in Request /\ r.pc = "delete" /\ r.into = logDB
        /\ r.op = req[h].op /\ r.file = req[h].file /\ r.got = req[h].got
    BY ZenonT(40), <1>1 DEF Request
  <2>3. req' = [req EXCEPT ![h] = r]
    BY <1>1, <1>5 DEF SetVariable, Request
  <2> HIDE DEF r
  <2>4. /\ req' \in [Handlers -> Request] /\ req'[h] = r
        /\ \A g \in Handlers \ {h} : req'[g] = req[g]
    BY <2>2, <2>3, Becomes
  <2>5. HandlerTyped(h)'
    BY <1>1, <1>2, <2>1, <2>2, <2>4 DEF HandlerTyped, bucket, handles, Written
  <2>6. DBsStep
    <3>1. dbs \in [Handlers -> DB] /\ dbs[logDB] \in DB
      BY <1>1, Typed
    <3>2. PICK c \in Conns :
            dbs' = [dbs EXCEPT ![logDB].top = c, ![logDB].etag[c] = req[h].got]
      BY <1>5, <3>1 DEF SetVariable, ConnOf, DB
    <3> DEFINE d == [dbs[logDB] EXCEPT !.top = c, !.etag[c] = req[h].got]
    <3>3. d \in DB /\ d.log = dbs[logDB].log /\ d.protocol = dbs[logDB].protocol
      <4>1. req[h].got \in Log \cup {Absent}
        BY <1>1 DEF Request
      <4> QED BY <3>1, <4>1 DEF DB
    <3>4. dbs' = [dbs EXCEPT ![logDB] = d]
      BY <3>1, <3>2 DEF DB
    <3> HIDE DEF d
    <3> QED BY <1>1, <3>1, <3>3, <3>4, Typed DEF DBsStep, LogDBTyped
  <2> QED BY <1>1, <1>2, <1>3, <2>1, <2>4, <2>5, <2>6, LocalTyped
<1>6. CASE DeleteRows(h)
  <2> DEFINE k == req[h].into
  <2>1. /\ req[h].pc = "delete" /\ k \in Handlers /\ req[h].got # Absent
        /\ dbs[k].log \in Log \cup {Absent}
    BY <1>1, <1>6, Typed DEF DeleteRows, HandlerTyped, Request, DB
  <2>2. CASE dbs[k].log # Absent /\ Execute(h, k, EmptyLog, FALSE) /\ Goto(h, "rows")
    <3>1. EmptyLog \in Log /\ EmptyLog # Absent /\ EmptyLog.add = {}
      BY EmptyLogType
    <3> DEFINE l == EmptyLog
               b == FALSE
    <3>2. DBsStep /\ dbs'[k].log # Absent
      <4>1. Execute(h, k, l, b) /\ b \in BOOLEAN /\ l \in Log \cup {Absent}
            /\ l # Absent /\ l.add \subseteq Written
        BY <2>2, <3>1
      <4> HIDE DEF l, b, k
      <4> QED BY <2>1, <4>1, ExecuteTyped
    <3>3. /\ req' \in [Handlers -> Request] /\ req'[h] = [req[h] EXCEPT !.pc = "rows"]
          /\ \A g \in Handlers \ {h} : req'[g] = req[g]
          /\ names' \in [Handlers -> Handlers \cup {Absent}]
      BY <2>2, GotoTyped DEF Counters
    <3>4. HandlerTyped(h)'
      BY <1>1, <1>2, <2>1, <3>2, <3>3 DEF HandlerTyped, bucket, handles, Written, Request
    <3> QED BY <1>2, <1>3, <3>2, <3>3, <3>4, LocalTyped
  <2>3. CASE Finish(h) /\ UNCHANGED dbs
    BY <1>2, <1>3, <2>3, FinishTyped, SameDBs, LocalTyped
  <2>4. CASE /\ UNCHANGED <<dbs, names>>
             /\ req' = [req EXCEPT ![h].pc = Start(req[h].op), ![h].first = FALSE]
    <3>1. PICK pc \in {"files", "table"} : pc = Start(req[h].op)
      BY DEF Start
    <3> DEFINE r == [req[h] EXCEPT !.first = FALSE, !.pc = pc]
    <3>2. /\ r \in Request /\ r.pc = pc /\ r.op = req[h].op
          /\ r.file = req[h].file /\ r.got = req[h].got
      <4> DEFINE q == [req[h] EXCEPT !.first = FALSE]
      <4>1. pc \in Counters
        BY DEF Counters
      <4>2. r = [q EXCEPT !.pc = pc]
        OBVIOUS
      <4>4. q \in Request
        BY <1>1 DEF Request
      <4>3. /\ r.pc = pc /\ r.op = req[h].op
            /\ r.file = req[h].file /\ r.got = req[h].got
        BY <1>1 DEF Request
      <4> HIDE DEF q
      <4> QED BY <4>1, <4>2, <4>3, <4>4, PcType
    <3>3. req' = [req EXCEPT ![h] = r]
      BY <1>1, <2>4, <3>1 DEF Request
    <3> HIDE DEF r
    <3>4. /\ req' \in [Handlers -> Request] /\ req'[h] = r
          /\ \A g \in Handlers \ {h} : req'[g] = req[g]
      BY <3>2, <3>3, Becomes
    <3>5. HandlerTyped(h)'
      BY <1>1, <1>2, <2>1, <3>2, <3>4 DEF HandlerTyped, bucket, handles, Written
    <3> QED BY <1>1, <1>2, <1>3, <2>4, <3>4, <3>5, SameDBs, LocalTyped
  <2> QED BY <1>6, <2>2, <2>3, <2>4 DEF DeleteRows
<1>7. CASE LoadRows(h)
  <2> DEFINE k == req[h].into
             l == InsertRows(dbs[k].log, req[h].got)
             db == IF req[h].first THEN req[h].db ELSE logDB
             pc == IF req[h].first THEN Start(req[h].op)
                   ELSE IF req[h].op = "vacuum" THEN "expired" ELSE "copy"
  <2>1. /\ req[h].pc = "rows" /\ k \in Handlers /\ UNCHANGED names
        /\ req[h].got \in Log /\ req[h].got.add \subseteq Written
        /\ dbs[k].log \in Log /\ dbs[k].log.add \subseteq Written
    BY <1>1, <1>7, Typed DEF LoadRows, HandlerTyped, Request, DB, LogDBTyped
  <2>2. l \in Log /\ l.add \subseteq Written
    BY <2>1 DEF InsertRows, Log
  <2>3. DBsStep
    <3>1. Execute(h, k, l, TRUE)
      BY <1>7 DEF LoadRows
    <3> HIDE DEF l
    <3> QED BY <2>1, <2>2, <3>1, ExecuteTyped
  <2>4. /\ pc \in {"files", "table", "expired", "copy"}
        /\ pc = "expired" => req[h].op = "vacuum"
        /\ db \in Handlers \cup {Absent}
        /\ pc \in {"expired", "copy"} => db = logDB
    BY <1>1 DEF Start, Request
  <2>5. req' = [req EXCEPT ![h].first = FALSE, ![h].db = db, ![h].pc = pc]
    BY <1>1, <1>7 DEF LoadRows, Request
  <2> HIDE DEF db, pc, l
  <2> DEFINE r == [req[h] EXCEPT !.first = FALSE, !.db = db, !.pc = pc]
  <2>6. /\ r \in Request /\ r.pc = pc /\ r.db = db /\ r.op = req[h].op
        /\ r.file = req[h].file /\ r.got = req[h].got
    <3> DEFINE q == [req[h] EXCEPT !.first = FALSE, !.db = db]
    <3>1. pc \in Counters /\ db \in Handlers \cup {Absent}
      BY <2>4 DEF Counters
    <3>2. r = [q EXCEPT !.pc = pc]
      OBVIOUS
    <3>4. q \in Request
      BY <1>1, <3>1 DEF Request
    <3>3. /\ r.pc = pc /\ r.db = db /\ r.op = req[h].op
          /\ r.file = req[h].file /\ r.got = req[h].got
      BY <1>1 DEF Request
    <3> HIDE DEF q
    <3> QED BY <3>1, <3>2, <3>3, <3>4, PcType
  <2>7. req' = [req EXCEPT ![h] = r]
    BY <1>1, <2>5 DEF Request
  <2> HIDE DEF r
  <2>8. /\ req' \in [Handlers -> Request] /\ req'[h] = r
        /\ \A g \in Handlers \ {h} : req'[g] = req[g]
    BY <2>6, <2>7, Becomes
  <2>9. HandlerTyped(h)'
    BY <1>1, <1>2, <2>1, <2>4, <2>6, <2>8 DEF HandlerTyped, bucket, handles, Written
  <2> QED BY <1>1, <1>2, <1>3, <2>1, <2>3, <2>8, <2>9, LocalTyped
<1> QED BY <1>4, <1>5, <1>6, <1>7

(* Insert and Merge. *)
LEMMA CopyTyped ==
  ASSUME TypeInv, NEW h \in Handlers,
         ListExpired(h) \/ PurgeFile(h) \/ Copy(h) \/ Record(h)
  PROVE  TypeInv'
<1> USE ConstantsAssumption
<1>1. /\ req \in [Handlers -> Request] /\ req[h] \in Request /\ HandlerTyped(h)
      /\ {requests, faults, crashes} \subseteq Nat
      /\ names \in [Handlers -> Handlers \cup {Absent}]
      /\ logDB \in Handlers /\ logDB # Absent
      /\ objLog \in Log /\ objLog.add \subseteq Written
  BY Typed DEF TypeInv, TypeOK, HandlerTyped, ListExpired, PurgeFile, Copy, Record
<1>2. UNCHANGED <<handles, bounds>> /\ {requests', faults', crashes'} \subseteq Nat
  BY <1>1 DEF ListExpired, PurgeFile, Copy, Record, bounds
<1>3. CASE ListExpired(h)
  <2> DEFINE marked == FilesMarkedRemove(dbs[logDB].log, 0, 0)
             pc == IF marked # {} THEN "purge" ELSE "copy"
  <2>1. /\ req[h].pc = "expired" /\ DBsStep /\ UNCHANGED bucket
        /\ dbs[logDB].log \in Log \cup {Absent}
    BY <1>1, <1>3, QueryTyped, Typed DEF ListExpired, DB
  <2>2. CASE Finish(h)
    BY <1>2, <2>1, <2>2, FinishTyped, LocalTyped
  <2>3. CASE /\ dbs[logDB].log # Absent /\ names' = names
             /\ req' = [req EXCEPT ![h].pending = marked, ![h].pc = pc]
    <3>1. marked \in SUBSET Files
      BY <2>1, <2>3, LogQueries
    <3>2. pc \in {"purge", "copy"} /\ pc \in Counters
      BY DEF Counters
    <3> HIDE DEF marked, pc
    <3> DEFINE q == [req[h] EXCEPT !.pending = marked]
               r == [q EXCEPT !.pc = pc]
    <3>3. q \in Request
      BY <1>1, <3>1 DEF Request
    <3>4. /\ q.op = req[h].op /\ q.db = req[h].db
          /\ q.file = req[h].file /\ q.got = req[h].got
      BY <1>1 DEF Request
    <3>5. req' = [req EXCEPT ![h] = r]
      BY <1>1, <2>3 DEF Request
    <3> HIDE DEF q
    <3>6. /\ r \in Request /\ r.pc = pc /\ r.op = req[h].op /\ r.db = req[h].db
          /\ r.file = req[h].file /\ r.got = req[h].got
      <4>1. r \in Request
        BY <3>2, <3>3, PcType
      <4>2. /\ r.pc = pc /\ r.op = q.op /\ r.db = q.db
            /\ r.file = q.file /\ r.got = q.got
        BY <3>3 DEF Request
      <4> QED BY <3>4, <4>1, <4>2
    <3> HIDE DEF r
    <3>7. /\ req' \in [Handlers -> Request] /\ req'[h] = r
          /\ \A g \in Handlers \ {h} : req'[g] = req[g]
      BY <3>5, <3>6, Becomes
    <3>8. HandlerTyped(h)'
      BY <1>1, <1>2, <2>1, <3>2, <3>6, <3>7 DEF HandlerTyped, bucket, handles, Written
    <3> QED BY <1>1, <1>2, <2>1, <2>3, <3>7, <3>8, LocalTyped
  <2> QED BY <1>3, <2>2, <2>3 DEF ListExpired
<1>4. CASE PurgeFile(h)
  <2>1. PICK f \in req[h].pending :
          /\ stored' = stored \ {f}
          /\ req' = [req EXCEPT ![h].pending = @ \ {f},
                       ![h].pc = IF req[h].pending = {f} THEN "etag" ELSE @]
    BY <1>4 DEF PurgeFile
  <2>2. /\ req[h].pc = "purge" /\ UNCHANGED <<objLog, content, acked, names, dbs>>
    BY <1>4 DEF PurgeFile
  <2> DEFINE pc == IF req[h].pending = {f} THEN "etag" ELSE "purge"
             q == [req[h] EXCEPT !.pending = @ \ {f}]
             r == [q EXCEPT !.pc = pc]
  <2>3. pc \in {"etag", "purge"} /\ pc \in Counters
    BY DEF Counters
  <2>4. /\ q \in Request /\ q.op = req[h].op /\ q.db = req[h].db
        /\ q.file = req[h].file /\ q.got = req[h].got
    <3>1. req[h].pending \ {f} \in SUBSET Files
      BY <1>1 DEF Request
    <3> QED BY <1>1, <3>1 DEF Request
  <2>5. req' = [req EXCEPT ![h] = r]
    BY <1>1, <2>1, <2>2 DEF Request
  <2> HIDE DEF q, pc
  <2>6. /\ r \in Request /\ r.pc = pc /\ r.op = req[h].op /\ r.db = req[h].db
        /\ r.file = req[h].file /\ r.got = req[h].got
    <3>1. r \in Request
      BY <2>3, <2>4, PcType
    <3>2. /\ r.pc = pc /\ r.op = q.op /\ r.db = q.db /\ r.file = q.file /\ r.got = q.got
      BY <2>4 DEF Request
    <3> QED BY <2>4, <3>1, <3>2
  <2> HIDE DEF r
  <2>7. /\ req' \in [Handlers -> Request] /\ req'[h] = r
        /\ \A g \in Handlers \ {h} : req'[g] = req[g]
    BY <2>5, <2>6, Becomes
  <2>8. TypeOK' /\ Written' = Written
    BY <1>2, <2>1, <2>2, <2>7 DEF TypeInv, TypeOK, Written, handles
  <2>9. HandlerTyped(h)'
    BY <1>1, <1>2, <2>2, <2>3, <2>6, <2>7, <2>8 DEF HandlerTyped, handles
  <2> QED BY <1>1, <1>2, <2>2, <2>7, <2>8, <2>9, SameDBs, OneHandlerTyped DEF handles
<1>5. CASE Copy(h)
  <2>1. req[h].pc = "copy" /\ UNCHANGED <<objLog, acked, dbs>>
    BY <1>5 DEF Copy
  <2>2. CASE Finish(h) /\ UNCHANGED <<stored, content>>
    BY <1>2, <2>1, <2>2, FinishTyped, SameDBs, LocalTyped DEF bucket
  <2>3. ASSUME NEW f \in Files, NEW R,
               R = IF req[h].op = "insert" THEN {f}
                   ELSE IF req[h].view THEN RowsOf(objLog) ELSE {},
               content[f] = Absent,
               content' = [content EXCEPT ![f] = [rows |-> R]],
               stored' = stored \cup {f}, names' = names,
               req' = [req EXCEPT ![h].pc = "record", ![h].file = f]
        PROVE  TypeInv'
    <3>1. [rows |-> R] \in Content /\ [rows |-> R] # Absent
      <4>1. \A g \in Written : content[g].rows \subseteq Files
        BY DEF TypeInv, TypeOK, Written, Content
      <4>2. R \subseteq Files
        BY <1>1, <2>3, <4>1, LogQueries DEF RowsOf
      <4>3. [rows |-> R] \in Content
        BY <4>2 DEF Content
      <4> QED BY <4>3
    <3> DEFINE r == [req[h] EXCEPT !.pc = "record", !.file = f]
    <3>2. /\ r \in Request /\ r.pc = "record" /\ r.op = req[h].op /\ r.db = req[h].db
          /\ r.file = f /\ r.got = req[h].got
      BY ZenonT(40), <1>1 DEF Request
    <3>3. req' = [req EXCEPT ![h] = r]
      BY ZenonT(40), <1>1, <2>3 DEF Request
    <3> HIDE DEF r
    <3>4. /\ req' \in [Handlers -> Request] /\ req'[h] = r
          /\ \A g \in Handlers \ {h} : req'[g] = req[g]
      BY <3>2, <3>3, Becomes
    <3>5. /\ content' \in [Files -> Content \cup {Absent}]
          /\ Written \subseteq Written' /\ f \in Written'
      BY <2>3, <3>1 DEF TypeInv, TypeOK, Written
    <3>6. TypeOK'
      BY <1>2, <2>1, <2>3, <3>4, <3>5 DEF TypeInv, TypeOK, handles
    <3>7. HandlerTyped(h)'
      BY <1>1, <1>2, <2>1, <3>2, <3>4, <3>5 DEF HandlerTyped, handles
    <3> QED BY <1>1, <1>2, <2>1, <3>4, <3>5, <3>6, <3>7, SameDBs, OneHandlerTyped
            DEF handles
  <2> QED BY <1>5, <2>2, <2>3 DEF Copy
<1>6. CASE Record(h)
  <2> DEFINE k == req[h].db
             l == dbs[k].log
             m == IF req[h].op = "insert" THEN InsertAdd(l, req[h].file)
                  ELSE MergeEvents(l, req[h].file, 0)
             b == dbs[k].protocol
  <2>1. /\ req[h].pc = "record" /\ UNCHANGED bucket
        /\ k \in Handlers /\ req[h].file \in Files /\ req[h].file \in Written
        /\ l \in Log \cup {Absent} /\ b \in BOOLEAN
        /\ l # Absent => l.add \subseteq Written
    BY <1>1, <1>6, Typed DEF Record, HandlerTyped, Request, DB, LogDBTyped
  <2>2. CASE Finish(h) /\ UNCHANGED dbs
    BY <1>2, <2>1, <2>2, FinishTyped, SameDBs, LocalTyped
  <2>3. CASE l # Absent /\ Execute(h, k, m, b) /\ Goto(h, "etag")
    <3>1. m \in Log /\ m # Absent /\ m.add \subseteq Written
      <4> HIDE DEF l
      <4>1. l \in Log /\ l.add \subseteq Written
        BY <2>1, <2>3
      <4>2. m \in Log
        BY <2>1, <4>1, LogStatements
      <4>3. m.add = l.add \cup {req[h].file}
        BY DEF InsertAdd, MergeEvents
      <4> QED BY <2>1, <4>1, <4>2, <4>3
    <3> HIDE DEF m, b
    <3>2. DBsStep
      BY <2>1, <2>3, <3>1, ExecuteTyped
    <3>3. /\ req' \in [Handlers -> Request] /\ req'[h] = [req[h] EXCEPT !.pc = "etag"]
          /\ \A g \in Handlers \ {h} : req'[g] = req[g]
          /\ names' \in [Handlers -> Handlers \cup {Absent}]
      BY <2>3, GotoTyped DEF Counters
    <3>4. HandlerTyped(h)'
      BY <1>1, <1>2, <2>1, <3>3 DEF HandlerTyped, bucket, handles, Written, Request
    <3> QED BY <1>2, <2>1, <3>2, <3>3, <3>4, LocalTyped
  <2> QED BY <1>6, <2>2, <2>3 DEF Record
<1> QED BY <1>3, <1>4, <1>5, <1>6

(* Export. *)
LEMMA ExportTyped ==
  ASSUME TypeInv, NEW h \in Handlers,
         ReadEtag(h) \/ ReadEvents(h) \/ WriteLog(h) \/ WriteFails(h)
  PROVE  TypeInv'
<1> USE ConstantsAssumption
<1>1. /\ req \in [Handlers -> Request] /\ req[h] \in Request /\ HandlerTyped(h)
      /\ {requests, faults, crashes} \subseteq Nat
      /\ names \in [Handlers -> Handlers \cup {Absent}]
      /\ logDB \in Handlers /\ logDB # Absent
      /\ objLog \in Log /\ objLog.add \subseteq Written
  BY Typed DEF TypeInv, TypeOK, HandlerTyped, ReadEtag, ReadEvents, WriteLog, WriteFails
<1>2. UNCHANGED handles /\ {requests', faults', crashes'} \subseteq Nat
  BY <1>1 DEF ReadEtag, ReadEvents, WriteLog, WriteFails, Fault, bounds
<1>3. CASE ReadEtag(h)
  <2>1. dbs \in [Handlers -> DB] /\ dbs[logDB] \in DB
    BY <1>1, Typed
  <2>2. PICK c \in Conns :
          /\ dbs' = [dbs EXCEPT ![logDB].top = c]
          /\ req' = [req EXCEPT ![h].pc = "events", ![h].db = logDB,
                                ![h].etag = dbs[logDB].etag[c]]
    BY <1>3, <2>1 DEF ReadEtag, ConnOf, DB
  <2>3. req[h].pc = "etag" /\ UNCHANGED <<bucket, names>>
    BY <1>3 DEF ReadEtag
  <2> DEFINE e == dbs[logDB].etag[c]
  <2>4. e \in Log \cup {Absent}
    BY <2>1 DEF DB
  <2>5. DBsStep
    <3> DEFINE d == [dbs[logDB] EXCEPT !.top = c]
    <3>1. d \in DB /\ d.log = dbs[logDB].log /\ d.protocol = dbs[logDB].protocol
      BY <2>1 DEF DB
    <3>2. dbs' = [dbs EXCEPT ![logDB] = d]
      BY <2>1, <2>2 DEF DB
    <3> HIDE DEF d
    <3> QED BY <1>1, <2>1, <3>1, <3>2, Typed DEF DBsStep, LogDBTyped
  <2> HIDE DEF e
  <2> DEFINE r == [req[h] EXCEPT !.pc = "events", !.db = logDB, !.etag = e]
  <2>6. /\ r \in Request /\ r.pc = "events" /\ r.op = req[h].op /\ r.db = logDB
        /\ r.file = req[h].file /\ r.got = req[h].got
    BY ZenonT(40), <1>1, <2>4 DEF Request
  <2>7. req' = [req EXCEPT ![h] = r]
    BY <1>1, <2>2 DEF Request, e
  <2> HIDE DEF r
  <2>8. /\ req' \in [Handlers -> Request] /\ req'[h] = r
        /\ \A g \in Handlers \ {h} : req'[g] = req[g]
    BY <2>6, <2>7, Becomes
  <2>9. HandlerTyped(h)'
    BY <1>1, <1>2, <2>3, <2>6, <2>8 DEF HandlerTyped, bucket, handles, Written
  <2> QED BY <1>1, <1>2, <2>3, <2>5, <2>8, <2>9, LocalTyped
<1>4. CASE ReadEvents(h)
  <2> DEFINE k == req[h].db
             l == dbs[k].log
  <2>1. /\ req[h].pc = "events" /\ UNCHANGED bucket /\ k \in Handlers /\ DBsStep
        /\ l \in Log \cup {Absent} /\ LogDBTyped(k)
    BY <1>1, <1>4, QueryTyped, Typed DEF ReadEvents, HandlerTyped, Request, DB
  <2>2. CASE Finish(h)
    BY <1>2, <2>1, <2>2, FinishTyped, LocalTyped
  <2>3. CASE ~Finish(h)
    <3>1. /\ l \notin {Absent, EmptyLog} \/ dbs[k].protocol
          /\ req' = [req EXCEPT ![h].pc = "write", ![h].got = l]
          /\ names' = names
      BY <1>4, <2>3 DEF ReadEvents
    <3>2. l # Absent /\ l \in Log /\ l.add \subseteq Written
      BY <2>1, <3>1 DEF LogDBTyped
    <3> HIDE DEF l
    <3> DEFINE r == [req[h] EXCEPT !.pc = "write", !.got = l]
    <3>3. /\ r \in Request /\ r.pc = "write" /\ r.op = req[h].op /\ r.db = req[h].db
          /\ r.file = req[h].file /\ r.got = l
      BY ZenonT(40), <1>1, <3>2 DEF Request
    <3>4. req' = [req EXCEPT ![h] = r]
      BY <1>1, <3>1 DEF Request
    <3> HIDE DEF r
    <3>5. /\ req' \in [Handlers -> Request] /\ req'[h] = r
          /\ \A g \in Handlers \ {h} : req'[g] = req[g]
      BY <3>3, <3>4, Becomes
    <3>6. HandlerTyped(h)'
      BY <1>1, <1>2, <2>1, <3>2, <3>3, <3>5 DEF HandlerTyped, bucket, handles, Written
    <3> QED BY <1>1, <1>2, <2>1, <3>1, <3>5, <3>6, LocalTyped
  <2> QED BY <2>2, <2>3
<1>5. CASE WriteLog(h)
  <2>1. /\ req[h].pc = "write" /\ objLog' = req[h].got /\ Finish(h)
        /\ acked' \in {acked, acked \cup {req[h].file}}
        /\ req[h].op # "insert" => acked' = acked
        /\ UNCHANGED <<stored, content, dbs>>
    BY <1>5 DEF WriteLog
  <2>2. /\ req[h].got \in Log /\ req[h].got.add \subseteq Written
        /\ req[h].op = "insert" => req[h].file \in Files
    BY <1>1, <2>1 DEF HandlerTyped, Request
  <2>3. acked' \in SUBSET Files
    BY <2>1, <2>2 DEF TypeInv, TypeOK
  <2>4. /\ req' \in [Handlers -> Request] /\ HandlerTyped(h)'
        /\ \A g \in Handlers \ {h} : req'[g] = req[g]
        /\ names' \in [Handlers -> Handlers \cup {Absent}]
    BY <2>1, FinishTyped
  <2>5. TypeOK' /\ Written' = Written
    BY <1>2, <2>1, <2>2, <2>3, <2>4 DEF TypeInv, TypeOK, Written, handles
  <2> QED BY <1>2, <2>1, <2>2, <2>4, <2>5, SameDBs, OneHandlerTyped DEF handles
<1>6. CASE WriteFails(h)
  <2>1. Finish(h) /\ UNCHANGED <<bucket, dbs>>
    BY <1>6 DEF WriteFails
  <2> QED BY <1>2, <2>1, FinishTyped, SameDBs, LocalTyped
<1> QED BY <1>3, <1>4, <1>5, <1>6

ColdProcess ==
  /\ Cold(dataDB, logDB, names, dbs, req)
  /\ objLog \in Log /\ objLog.add \subseteq Written
  /\ stored \in SUBSET Files /\ acked \in SUBSET Files
  /\ content \in [Files -> Content \cup {Absent}]
  /\ {requests, faults, crashes} \subseteq Nat

(* A process that has just started has handles and requests of no one. *)
LEMMA ColdTyped == ColdProcess => TypeInv
<1> USE ConstantsAssumption
<1> SUFFICES ASSUME ColdProcess PROVE TypeInv
  OBVIOUS
<1>1. /\ dataDB = Absent /\ logDB = Absent
      /\ names \in [Handlers -> Handlers \cup {Absent}]
      /\ dbs \in [Handlers -> DB] /\ req \in [Handlers -> Request]
      /\ \A h \in Handlers : req[h] = NoRequest /\ dbs[h] = FreshDB
  BY NoRequestType, FreshDBType DEF ColdProcess, Cold
<1>2. TypeOK
  BY <1>1 DEF ColdProcess, TypeOK
<1>3. \A h \in Handlers : HandlerTyped(h) /\ LogDBTyped(h)
  BY <1>1, NoRequestType, FreshDBType DEF HandlerTyped, LogDBTyped
<1> QED BY <1>1, <1>2, <1>3 DEF ColdProcess, TypeInv

(* The bucket holds a table with one file. *)
LEMMA InitTyped == Init => TypeInv
<1> USE ConstantsAssumption
<1> SUFFICES ASSUME Init PROVE ColdProcess
  BY ColdTyped
<1>1. PICK f \in Files, t \in TableIds :
        /\ objLog = InsertAdd(InsertMetaData(EmptyLog, t), f)
        /\ stored = {f} /\ acked = {f}
        /\ content = [g \in Files |-> IF g = f THEN [rows |-> {f}] ELSE Absent]
  BY DEF Init
<1>2. objLog \in Log /\ objLog.add = {f}
  BY <1>1, LogStatements, EmptyLogType DEF InsertAdd, InsertMetaData
<1>3. [rows |-> {f}] \in Content /\ [rows |-> {f}] # Absent
  BY DEF Content
<1>4. content \in [Files -> Content \cup {Absent}] /\ f \in Written
  BY <1>1, <1>3 DEF Written
<1>5. Cold(dataDB, logDB, names, dbs, req) /\ {requests, faults, crashes} \subseteq Nat
  BY DEF Init
<1>6. stored \in SUBSET Files /\ acked \in SUBSET Files
  BY <1>1
<1> QED BY <1>2, <1>4, <1>5, <1>6 DEF ColdProcess

(* Every step preserves the type invariant. *)
LEMMA TypedStep ==
  ASSUME TypeInv, [Next]_vars
  PROVE  TypeInv'
<1>1. ASSUME NEW h \in Handlers, Step(h) PROVE TypeInv'
  BY <1>1, OpenTyped, NameTyped, ImportTyped, CopyTyped, ExportTyped DEF Step
<1>2. CASE Crash
  <2>1. /\ Cold(dataDB, logDB, names, dbs, req)' /\ UNCHANGED bucket
        /\ {requests', faults', crashes'} \subseteq Nat
    BY <1>2 DEF Crash, TypeInv, TypeOK, Cold
  <2>2. ColdProcess'
    BY <2>1 DEF ColdProcess, TypeInv, TypeOK, bucket, Written
  <2> QED BY <2>2, ColdTyped, PTL
<1>3. CASE UNCHANGED vars
  <2>1. UNCHANGED <<bucket, handles, names, dbs, req, bounds>>
    BY <1>3 DEF vars
  <2> QED BY <2>1 DEF TypeInv, TypeOK, HandlerTyped, LogDBTyped, Written,
          bucket, handles, bounds
<1> QED BY <1>1, <1>2, <1>3, BeginTyped DEF Next, Rest

(* The type invariant is one of every behaviour. *)
LEMMA TypeInvariance == Spec => []TypeInv
<1>1. TypeInv /\ [Next]_vars => TypeInv'
  BY TypedStep
<1> QED BY InitTyped, <1>1, PTL DEF Spec

(* Every variable keeps its type, in whatever order the requests of a      *)
(* process run their statements, also on databases that are being opened.  *)
THEOREM HandlersTypeCorrect == Spec => []TypeOK
<1>1. TypeInv => TypeOK
  BY DEF TypeInv
<1> QED BY <1>1, TypeInvariance, PTL

-----------------------------------------------------------------------------
(***************************************************************************)
(* The inductive invariant.  A request that joins others finds the process *)
(* warm: one DATA database, in which the writer holds the name of the      *)
(* table, and one LOG database, whose rows are the committed log and then  *)
(* that log with the rows of the writer's statement.                       *)
(***************************************************************************)
QuietVacuum == WarmUp = TRUE /\ "vacuum" \in Alone

Warm == dataDB # Absent /\ logDB # Absent

(* The requests that run beside others started on a warm process. *)
Scheduled ==
  /\ \A h \in Active : req[h].alone => Active = {h}
  /\ ~Warm => \A h \in Active : req[h].alone

(* A handler that is past TakeName. *)
Holding(h) == req[h].pc \in {"answer", "read"} \/ Rewriting(h)

Looking(h) == req[h].pc \in {"files", "table", "name"}

JoinedOK(h) ==
  LET r == req[h] IN
  r.pc # "idle" /\ ~r.alone =>
    /\ r.op # "vacuum" /\ ~r.first
    /\ r.data = dataDB
    /\ Looking(h) \/ (Holding(h) /\ names[dataDB] = h)

LogJson == dbs[logDB].log

(* The log that a writer leaves in log_json and writes. *)
NewLog(h) ==
  LET r == req[h] IN
  IF r.file = Absent THEN objLog
  ELSE IF r.op = "insert" THEN InsertAdd(objLog, r.file)
  ELSE MergeEvents(objLog, r.file, 0)

(* The file of a request holds its rows, and no log lists it. *)
FileOK(h) ==
  LET r == req[h] IN
  r.file # Absent =>
    /\ r.file \notin objLog.add
    /\ r.pc \in {"record", "etag", "events", "write"}
    /\ IF r.op = "insert"
       THEN content[r.file].rows = {r.file} /\ r.file \notin RowsOf(objLog)
       ELSE content[r.file].rows = RowsOf(objLog)

(* What log_json and the request hold when the request is at pc. *)
WriterOK(h) ==
  LET r == req[h] IN
  /\ r.pc \in {"idle", "openLog"} => r.db = Absent
  /\ r.pc = "openLog" => logDB = Absent
  /\ r.pc = "init" => logDB = h
  /\ r.first => r.pc \in {"read", "setvar", "delete", "rows"}
  /\ r.db # Absent => r.db = logDB
  /\ r.pc = "table" => r.op # "vacuum"
  /\ Holding(h) /\ ~r.first /\ r.op = "vacuum" => r.view
  /\ r.pc = "name" /\ r.op = "vacuum" => r.view
  /\ Holding(h) /\ ~r.first /\ r.pc # "answer" => r.op \in {"insert", "vacuum"}
  /\ r.pc = "read" /\ r.first => LogJson # Absent
  /\ r.pc \in {"setvar", "delete"} => LogJson # Absent
  /\ r.pc \in {"delete", "rows"} => r.into = logDB
  /\ r.pc \in {"setvar", "delete", "rows"} => r.got = objLog
  /\ r.pc = "rows" => LogJson = EmptyLog
  /\ r.pc \in {"expired", "purge", "copy", "record"} => LogJson = objLog
  /\ r.pc \in {"etag", "events", "write"} => LogJson = NewLog(h)
  /\ r.pc = "write" => r.got = LogJson

(* A request that opens a database or fills a new one. *)
Opening(h) == req[h].pc = "init" \/ req[h].first

(* log_json lists a file when no request is changing it. *)
Settled ==
  logDB # Absent /\ (\A h \in Handlers : ~Opening(h) /\ ~Rewriting(h))
    => LogJson # Absent /\ FilesLive(LogJson) # {}

(* The committed log lists the rows of the table, each of them once. *)
VersionOK ==
  /\ HasTable(objLog)
  /\ FilesLive(objLog) # {}
  /\ TombstonesAdded(objLog)
  /\ acked \subseteq RowsOf(objLog)
  /\ \A f, g \in FilesLive(objLog) : f # g => content[f].rows \cap content[g].rows = {}
  /\ \A f \in Written : content[f].rows \subseteq Written

HandlerOK(h) == JoinedOK(h) /\ WriterOK(h) /\ FileOK(h)

HInv ==
  /\ TypeInv
  /\ Scheduled
  /\ VersionOK
  /\ Settled
  /\ \A h \in Handlers : HandlerOK(h)

-----------------------------------------------------------------------------
(***************************************************************************)
(* What a step of one request does to the others.                          *)
(***************************************************************************)

(* The requests beside a writer, or a reader that answers, still look.     *)
LEMMA Exclusive ==
  ASSUME HInv, NEW h \in Handlers, NEW g \in Handlers \ {h}, Holding(h)
  PROVE  req[g].pc = "idle" \/ Looking(g)
<1>1. /\ JoinedOK(g) /\ JoinedOK(h)
      /\ h \in Active
  BY DEF HInv, HandlerOK, Active, Holding, Rewriting
<1>2. SUFFICES ASSUME g \in Active PROVE Looking(g)
  BY DEF Active
<1>3. ~req[g].alone /\ ~req[h].alone
  BY <1>1, <1>2 DEF HInv, Scheduled
<1>4. ~Looking(h)
  BY DEF Looking, Holding, Rewriting
<1> QED BY <1>1, <1>2, <1>3, <1>4 DEF JoinedOK, Active

(* Only a request that runs alone opens a database. *)
LEMMA OpenersAlone ==
  ASSUME HInv, NEW h \in Handlers,
         \/ req[h].pc \in {"openData", "useData", "openLog", "init"}
         \/ req[h].first
         \/ req[h].pc # "idle" /\ (logDB = Absent \/ req[h].op = "vacuum")
  PROVE  req[h].alone /\ Active = {h}
<1>1. JoinedOK(h) /\ WriterOK(h)
  BY DEF HInv, HandlerOK
<1>2. h \in Active
  BY <1>1 DEF WriterOK, Active
<1>3. req[h].alone
  BY <1>1, <1>2 DEF JoinedOK, Looking, Holding, Rewriting, HInv, Scheduled, Warm, Active
<1> QED BY <1>2, <1>3 DEF HInv, Scheduled

(* A request beside the one that takes a step keeps what it relies on.     *)
LEMMA OthersOK ==
  ASSUME HInv, NEW h \in Handlers, NEW g \in Handlers \ {h}, req'[g] = req[g],
         \/ req[g].pc = "idle"
         \/ /\ UNCHANGED handles
            /\ names[dataDB] = g => names'[dataDB] = g
            /\ \/ Looking(g)
               \/ /\ UNCHANGED <<objLog, content>>
                  /\ logDB # Absent => LogJson' = LogJson
  PROVE  HandlerOK(g)'
<1>1. HandlerOK(g) /\ HandlerTyped(g)
  BY Typed DEF HInv
<1>2. CASE req[g].pc = "idle"
  <2>1. JoinedOK(g)'
    BY <1>2 DEF JoinedOK
  <2>2. WriterOK(g)'
    BY <1>1, <1>2 DEF HandlerOK, WriterOK, Holding, Rewriting
  <2>3. FileOK(g)'
    BY <1>1, <1>2 DEF HandlerOK, FileOK
  <2> QED BY <2>1, <2>2, <2>3 DEF HandlerOK
<1>3. ASSUME UNCHANGED handles, names[dataDB] = g => names'[dataDB] = g
      PROVE  JoinedOK(g)'
  BY <1>1, <1>3 DEF HandlerOK, JoinedOK, Looking, Holding, Rewriting, handles
<1>4. CASE UNCHANGED handles /\ (names[dataDB] = g => names'[dataDB] = g) /\ Looking(g)
  <2>1. WriterOK(g)'
    BY <1>1, <1>4 DEF HandlerOK, WriterOK, Holding, Rewriting, Looking, handles
  <2>2. FileOK(g)'
    BY <1>1, <1>4 DEF HandlerOK, FileOK, Looking
  <2> QED BY <1>3, <1>4, <2>1, <2>2 DEF HandlerOK
<1>5. CASE /\ UNCHANGED handles /\ UNCHANGED <<objLog, content>>
           /\ names[dataDB] = g => names'[dataDB] = g
           /\ logDB # Absent => LogJson' = LogJson
  <2>1. NewLog(g)' = NewLog(g) /\ RowsOf(objLog)' = RowsOf(objLog)
    BY <1>5 DEF NewLog, RowsOf
  <2>2. FileOK(g)'
    BY <1>1, <1>5, <2>1 DEF HandlerOK, FileOK
  <2>3. LogJson' = LogJson \/ (logDB = Absent /\ logDB' = Absent)
    BY <1>5 DEF handles
  <2>4. WriterOK(g)'
    BY <1>1, <1>5, <2>1, <2>3
       DEF HandlerOK, HandlerTyped, WriterOK, Holding, Rewriting, handles
  <2> QED BY <1>3, <1>5, <2>2, <2>4 DEF HandlerOK
<1> QED BY <1>2, <1>4, <1>5

-----------------------------------------------------------------------------
(***************************************************************************)
(* The parts of the invariant put together, for three kinds of step.       *)
(***************************************************************************)

(* A step of h that keeps the request, or ends it. *)
Continues(h) ==
  /\ req[h].pc # "idle"
  /\ \A g \in Handlers \ {h} : req'[g] = req[g]
  /\ req'[h].pc = "idle" \/ req'[h].alone = req[h].alone

(* The step of h takes the name from no other request. *)
LeavesNames(h) ==
  \A g \in Handlers \ {h} :
    req[g].pc # "idle" /\ names[dataDB] = g => names'[dataDB] = g

Listed == LogJson # Absent /\ FilesLive(LogJson) # {}

Filling(h) == Opening(h) \/ Rewriting(h)

(* Requests stay scheduled when none begins and no database is closed. *)
LEMMA StaysScheduled ==
  ASSUME HInv, NEW h \in Handlers, Continues(h), Warm => Warm'
  PROVE  Scheduled'
BY DEF HInv, Scheduled, Continues, Active

(* The committed log does not change. *)
LEMMA SameVersion ==
  ASSUME VersionOK, UNCHANGED <<objLog, content, acked>>
  PROVE  VersionOK'
BY DEF VersionOK, RowsOf, Written

(* Control moves, the request ends, or local variables are set: no         *)
(* database is opened, no log_json changes, nor the log in the bucket.     *)
LEMMA LocalStep ==
  ASSUME HInv, TypeInv', NEW h \in Handlers, Continues(h), LeavesNames(h),
         UNCHANGED <<objLog, content, acked, handles>>,
         \A k \in Handlers : dbs'[k].log = dbs[k].log,
         HandlerOK(h)',
         Filling(h) => Filling(h)' \/ Listed
  PROVE  HInv'
<1>1. logDB # Absent => LogJson' = LogJson
  BY Typed DEF HInv, LogJson, handles
<1>2. \A g \in Handlers : HandlerOK(g)'
  <2>1. ASSUME NEW g \in Handlers \ {h} PROVE HandlerOK(g)'
    BY <1>1, OthersOK DEF Continues, LeavesNames
  <2> QED BY <2>1
<1>3. Scheduled'
  BY StaysScheduled DEF Warm, handles
<1>4. Settled'
  <2>1. CASE Filling(h)'
    BY <2>1 DEF Settled, Filling
  <2>2. CASE ~Filling(h)
    BY <1>1, <2>2 DEF HInv, Settled, Filling, Continues, Opening, Rewriting, handles
  <2>3. CASE Listed
    BY <1>1, <2>3 DEF Settled, Listed, handles
  <2> QED BY <2>1, <2>2, <2>3
<1> QED BY <1>2, <1>3, <1>4, SameVersion DEF HInv

(* A writer changes log_json, the committed log or the new file. *)
LEMMA WriterStep ==
  ASSUME HInv, TypeInv', NEW h \in Handlers, Continues(h), LeavesNames(h),
         Holding(h), UNCHANGED handles, VersionOK', HandlerOK(h)',
         Filling(h)' \/ Listed'
  PROVE  HInv'
<1>1. \A g \in Handlers : HandlerOK(g)'
  <2>1. ASSUME NEW g \in Handlers \ {h} PROVE HandlerOK(g)'
    <3>1. req[g].pc = "idle" \/ Looking(g)
      BY Exclusive DEF Active
    <3> QED BY <3>1, OthersOK DEF Continues, LeavesNames
  <2> QED BY <2>1
<1>2. Scheduled'
  BY StaysScheduled DEF Warm, handles
<1>3. Settled'
  BY DEF Settled, Filling, Listed
<1> QED BY <1>1, <1>2, <1>3 DEF HInv

(* A request that runs alone opens a database. *)
LEMMA OpenStep ==
  ASSUME HInv, TypeInv', NEW h \in Handlers, Continues(h), Active = {h},
         Warm => Warm', UNCHANGED <<objLog, content, acked>>,
         HandlerOK(h)', Settled'
  PROVE  HInv'
<1>1. \A g \in Handlers : HandlerOK(g)'
  <2>1. ASSUME NEW g \in Handlers \ {h} PROVE HandlerOK(g)'
    BY OthersOK DEF Continues, Active
  <2> QED BY <2>1
<1> QED BY <1>1, StaysScheduled, SameVersion DEF HInv

(* A request that has ended relies on nothing. *)
LEMMA EndedOK ==
  ASSUME NEW h \in Handlers, req'[h] = NoRequest
  PROVE  HandlerOK(h)'
BY NoRequestType
   DEF HandlerOK, JoinedOK, WriterOK, FileOK, Holding, Rewriting

(* A request that ends gives back its own name only. *)
LEMMA FinishOK ==
  ASSUME HInv, NEW h \in Handlers, req[h].pc # "idle", Finish(h)
  PROVE  Continues(h) /\ LeavesNames(h) /\ HandlerOK(h)'
<1>1. /\ req'[h] = NoRequest
      /\ \A g \in Handlers \ {h} : req'[g] = req[g]
  BY FinishTyped DEF HInv
<1>2. LeavesNames(h)
  <2> SUFFICES ASSUME NEW g \in Handlers \ {h}, g \in Active, names[dataDB] = g
               PROVE  names'[dataDB] = g
    BY DEF LeavesNames, Active
  <2>1. h \in Active /\ h # g
    BY DEF Active
  <2>2. dataDB \in Handlers
    BY <2>1, Typed DEF HInv, Scheduled, Warm
  <2> QED BY <2>1, <2>2 DEF Finish
<1> QED BY <1>1, <1>2, EndedOK, NoRequestType DEF Continues

(* A statement that ends without a trace, after a query or before one. *)
LEMMA FinishStep ==
  ASSUME HInv, TypeInv', NEW h \in Handlers, req[h].pc # "idle", Finish(h),
         UNCHANGED <<objLog, content, acked, handles>>,
         \A k \in Handlers : dbs'[k].log = dbs[k].log,
         Filling(h) => Listed
  PROVE  HInv'
BY FinishOK, LocalStep

(* With names as they were no name is taken. *)
LEMMA SameNames ==
  ASSUME UNCHANGED <<names, handles>>, NEW h \in Handlers
  PROVE  LeavesNames(h)
BY DEF LeavesNames, handles

-----------------------------------------------------------------------------
(***************************************************************************)
(* Every step preserves the invariant.  First the steps up to the name.    *)
(***************************************************************************)

(* The request that is at pc, as the invariant describes it. *)
LEMMA Request_h ==
  ASSUME HInv, NEW h \in Handlers
  PROVE  /\ req \in [Handlers -> Request] /\ req[h] \in Request
         /\ HandlerTyped(h) /\ JoinedOK(h) /\ WriterOK(h) /\ FileOK(h)
         /\ req[h].pc \notin {"idle", "openData", "useData", "files", "table", "openLog"}
              => logDB \in Handlers /\ logDB # Absent
         /\ objLog \in Log /\ objLog # Absent
         /\ \A k \in Handlers : dbs[k] \in DB /\ dbs[k].log \in Log \cup {Absent}
BY Typed, ConstantsAssumption DEF HInv, HandlerOK, HandlerTyped, DB

(* A request that still looks for the name, or for a database. *)
LEMMA LookingOK ==
  ASSUME HInv, NEW h \in Handlers,
         req[h].pc \in {"openData", "useData", "files", "table"},
         req'[h].pc \in {"useData", "files", "table", "openLog", "name"},
         req'[h].op = req[h].op, req'[h].alone = req[h].alone,
         req'[h].first = req[h].first, req'[h].file = req[h].file,
         req'[h].db \in {req[h].db, Absent}, logDB' = logDB,
         req'[h].pc = "openLog" =>
           logDB = Absent /\ req[h].db = Absent /\ req[h].alone,
         req'[h].pc = "table" => req[h].op # "vacuum",
         req'[h].pc = "name" /\ req[h].op = "vacuum" => req'[h].view,
         req[h].alone \/ (Looking(h)' /\ req'[h].data = req[h].data /\ dataDB' = dataDB)
  PROVE  HandlerOK(h)' /\ ~Filling(h) /\ ~Filling(h)'
<1>1. JoinedOK(h) /\ WriterOK(h) /\ FileOK(h)
  BY DEF HInv, HandlerOK
<1>2. ~req[h].first /\ req[h].file = Absent
  BY <1>1 DEF WriterOK, FileOK
<1>3. JoinedOK(h)'
  BY <1>1, <1>2 DEF JoinedOK
<1>4. WriterOK(h)'
  BY <1>1, <1>2 DEF WriterOK, Holding, Rewriting
<1>5. FileOK(h)'
  BY <1>2 DEF FileOK
<1>6. ~Filling(h) /\ ~Filling(h)'
  BY <1>2 DEF Filling, Opening, Rewriting
<1> QED BY <1>3, <1>4, <1>5, <1>6 DEF HandlerOK

(* The DATA database is opened, by a request that runs alone. *)
LEMMA OpenDataKeeps ==
  ASSUME HInv, TypeInv', NEW h \in Handlers, OpenData(h)
  PROVE  HInv'
<1>1. /\ req[h].pc = "openData" /\ dataDB' = h /\ UNCHANGED <<bucket, logDB, dbs>>
      /\ req' = [req EXCEPT ![h].pc = "useData"]
  BY DEF OpenData, Goto
<1>2. /\ Continues(h) /\ req'[h].pc = "useData" /\ req'[h].op = req[h].op
      /\ req'[h].alone = req[h].alone /\ req'[h].first = req[h].first
      /\ req'[h].file = req[h].file /\ req'[h].db = req[h].db
  BY <1>1, Request_h DEF Request, Continues
<1>3. req[h].alone /\ Active = {h}
  BY <1>1, OpenersAlone
<1>4. HandlerOK(h)' /\ ~Filling(h) /\ ~Filling(h)'
  BY <1>1, <1>2, <1>3, LookingOK
<1>5. Settled'
  BY <1>1, <1>2, <1>4
     DEF HInv, Settled, Filling, Opening, Rewriting, Continues, LogJson
<1>6. Warm => Warm'
  BY <1>1, ConstantsAssumption DEF Warm
<1> QED BY <1>1, <1>2, <1>3, <1>4, <1>5, <1>6, OpenStep DEF bucket

(* The first request learns of the DATA database it has opened. *)
LEMMA UseDataKeeps ==
  ASSUME HInv, TypeInv', NEW h \in Handlers, UseData(h)
  PROVE  HInv'
<1>1. /\ req[h].pc = "useData" /\ UNCHANGED <<bucket, handles, names, dbs>>
      /\ req' = [req EXCEPT ![h].data = dataDB, ![h].pc = Start(req[h].op)]
  BY DEF UseData
<1>2. /\ Continues(h) /\ req'[h].pc = Start(req[h].op) /\ req'[h].op = req[h].op
      /\ req'[h].alone = req[h].alone /\ req'[h].first = req[h].first
      /\ req'[h].file = req[h].file /\ req'[h].db = req[h].db
  BY <1>1, Request_h DEF Request, Continues
<1>3. /\ req'[h].pc \in {"files", "table"}
      /\ req'[h].pc = "table" => req[h].op # "vacuum"
  BY <1>2 DEF Start
<1>4. req[h].alone
  BY <1>1, OpenersAlone
<1>5. HandlerOK(h)' /\ ~Filling(h)
  BY <1>1, <1>2, <1>3, <1>4, LookingOK DEF handles
<1> QED BY <1>1, <1>2, <1>5, SameNames, LocalStep DEF bucket

(* A request that finds no LOG database runs alone. *)
LEMMA NoLogDBKeeps ==
  ASSUME HInv, TypeInv', NEW h \in Handlers, NoLogDB(h)
  PROVE  HInv'
<1>1. /\ req[h].pc \in {"files", "table"} /\ QueryDB(h) = Absent
      /\ UNCHANGED <<bucket, handles, names, dbs>>
      /\ req' = [req EXCEPT ![h].pc = "openLog"]
  BY DEF NoLogDB, Goto
<1>2. /\ Continues(h) /\ req'[h].pc = "openLog" /\ req'[h].op = req[h].op
      /\ req'[h].alone = req[h].alone /\ req'[h].first = req[h].first
      /\ req'[h].file = req[h].file /\ req'[h].db = req[h].db
  BY <1>1, Request_h DEF Request, Continues
<1>3. req[h].db = Absent /\ logDB = Absent
  BY <1>1 DEF QueryDB
<1>4. req[h].alone
  BY <1>1, <1>3, OpenersAlone
<1>5. HandlerOK(h)' /\ ~Filling(h)
  BY <1>1, <1>2, <1>3, <1>4, LookingOK DEF handles
<1> QED BY <1>1, <1>2, <1>5, SameNames, LocalStep DEF bucket

(* The LOG database is published, by a request that runs alone. *)
LEMMA OpenLogKeeps ==
  ASSUME HInv, TypeInv', NEW h \in Handlers, OpenLog(h)
  PROVE  HInv'
<1>1. /\ req[h].pc = "openLog" /\ logDB' = h /\ UNCHANGED <<bucket, dataDB, dbs>>
      /\ req' = [req EXCEPT ![h].pc = "init"]
  <2>1. req[h].pc = "openLog" /\ logDB = Absent
    BY Request_h DEF OpenLog, WriterOK
  <2> QED BY <2>1 DEF OpenLog, Goto
<1>2. /\ Continues(h) /\ req'[h].pc = "init" /\ req'[h].op = req[h].op
      /\ req'[h].alone = req[h].alone /\ req'[h].first = req[h].first
      /\ req'[h].file = req[h].file /\ req'[h].db = req[h].db
  BY <1>1, Request_h DEF Request, Continues
<1>3. req[h].alone /\ Active = {h}
  BY <1>1, OpenersAlone
<1>4. ~req[h].first /\ req[h].file = Absent /\ req[h].db = Absent
  BY <1>1, Request_h DEF WriterOK, FileOK
<1>5. JoinedOK(h)' /\ FileOK(h)'
  BY <1>2, <1>3, <1>4 DEF JoinedOK, FileOK
<1>6. WriterOK(h)'
  BY <1>1, <1>2, <1>4 DEF WriterOK, Holding, Rewriting
<1>7. Settled'
  BY <1>2 DEF Settled, Opening
<1>8. Warm => Warm'
  BY <1>1, ConstantsAssumption DEF Warm
<1> QED BY <1>1, <1>2, <1>3, <1>5, <1>6, <1>7, <1>8, OpenStep DEF bucket, HandlerOK

(* log_json is created; the import that fills it is the first one. *)
LEMMA InitLogKeeps ==
  ASSUME HInv, TypeInv', NEW h \in Handlers, InitLog(h)
  PROVE  HInv'
<1>1. /\ req[h].pc = "init" /\ UNCHANGED <<bucket, handles, names>>
      /\ req' = [req EXCEPT ![h].pc = "read", ![h].first = TRUE, ![h].db = logDB]
  BY DEF InitLog
<1>2. /\ Continues(h) /\ req'[h].pc = "read" /\ req'[h].op = req[h].op
      /\ req'[h].alone = req[h].alone /\ req'[h].first
      /\ req'[h].file = req[h].file /\ req'[h].db = logDB
  BY <1>1, Request_h DEF Request, Continues
<1>3. req[h].alone /\ Active = {h} /\ req[h].file = Absent /\ logDB = h
  BY <1>1, Request_h, OpenersAlone DEF FileOK, WriterOK
<1>4. dbs'[h].log = EmptyLog
  BY Request_h, Typed DEF InitLog, HInv, DB
<1>5. JoinedOK(h)' /\ FileOK(h)'
  BY <1>2, <1>3 DEF JoinedOK, FileOK
<1>6. EmptyLog # Absent
  BY EmptyLogType, ConstantsAssumption
<1>7. logDB' = h /\ LogJson' # Absent
  BY <1>1, <1>3, <1>4, <1>6 DEF LogJson, handles
<1>8. WriterOK(h)'
  BY <1>1, <1>2, <1>3, <1>7 DEF WriterOK, Holding, Rewriting
<1>9. Settled'
  BY <1>2 DEF Settled, Opening
<1> QED BY <1>1, <1>2, <1>3, <1>5, <1>8, <1>9, OpenStep
        DEF bucket, handles, Warm, HandlerOK

(* log_json lists a file unless a request is filling it. *)
LEMMA ListedBefore ==
  ASSUME HInv, NEW h \in Handlers, Holding(h) \/ Active = {h}, ~Filling(h),
         logDB # Absent
  PROVE  Listed
<1>1. ASSUME NEW g \in Handlers \ {h} PROVE ~Opening(g) /\ ~Rewriting(g)
  <2>1. req[g].pc = "idle" \/ Looking(g)
    BY Exclusive DEF Active
  <2>2. WriterOK(g)
    BY DEF HInv, HandlerOK
  <2> QED BY <2>1, <2>2 DEF Opening, Rewriting, Looking, WriterOK
<1> QED BY <1>1 DEF HInv, Settled, Filling, Listed

(* CreateViewOfParquet and CreateTempTable look at log_json. *)
LEMMA ListLiveFilesKeeps ==
  ASSUME HInv, TypeInv', NEW h \in Handlers, ListLiveFiles(h)
  PROVE  HInv'
<1>1. /\ req[h].pc = "files" /\ UNCHANGED <<bucket, handles>>
      /\ \A k \in Handlers : dbs'[k].log = dbs[k].log
  BY QueryTyped, QueryDBType DEF ListLiveFiles, HInv
<1>2. QueryDB(h) = logDB /\ logDB # Absent
  BY Request_h, QueryDBType DEF HInv, ListLiveFiles, WriterOK, QueryDB
<1>3. ~Filling(h)
  BY <1>1, Request_h DEF Filling, Opening, Rewriting, WriterOK
<1>4. CASE Finish(h)
  BY <1>1, <1>3, <1>4, FinishStep DEF bucket
<1>5. CASE names' = names /\
           req' = [req EXCEPT ![h].pc = "name", ![h].view = TRUE, ![h].db = Absent]
  <2>1. /\ Continues(h) /\ req'[h].pc = "name" /\ req'[h].op = req[h].op
        /\ req'[h].alone = req[h].alone /\ req'[h].first = req[h].first
        /\ req'[h].file = req[h].file /\ req'[h].db = Absent
        /\ req'[h].view /\ req'[h].data = req[h].data
    BY <1>1, <1>5, Request_h DEF Request, Continues
  <2>2. HandlerOK(h)'
    BY <1>1, <2>1, LookingOK DEF handles, Looking
  <2> QED BY <1>1, <1>3, <1>5, <2>1, <2>2, SameNames, LocalStep DEF bucket
<1>6. CASE /\ FilesLive(dbs[logDB].log) = {} /\ names' = names
           /\ req' = [req EXCEPT ![h].pc = "table", ![h].db = Absent]
  <2>1. /\ Continues(h) /\ req'[h].pc = "table" /\ req'[h].op = req[h].op
        /\ req'[h].alone = req[h].alone /\ req'[h].first = req[h].first
        /\ req'[h].file = req[h].file /\ req'[h].db = Absent
        /\ req'[h].data = req[h].data
    BY <1>1, <1>6, Request_h DEF Request, Continues
  <2>2. req[h].op # "vacuum"
    BY <1>1, <1>2, <1>3, <1>6, OpenersAlone, ListedBefore DEF Listed, LogJson
  <2>3. HandlerOK(h)'
    BY <1>1, <2>1, <2>2, LookingOK DEF handles, Looking
  <2> QED BY <1>1, <1>3, <1>6, <2>1, <2>3, SameNames, LocalStep DEF bucket
<1> QED BY <1>2, <1>4, <1>5, <1>6 DEF ListLiveFiles

(* A VACUUM finds files, so only INSERT and SELECT ask for the metadata. *)
LEMMA FindMetaDataKeeps ==
  ASSUME HInv, TypeInv', NEW h \in Handlers, FindMetaData(h)
  PROVE  HInv'
<1>1. /\ req[h].pc = "table" /\ UNCHANGED <<bucket, handles>>
      /\ \A k \in Handlers : dbs'[k].log = dbs[k].log
  BY QueryTyped, QueryDBType DEF FindMetaData, HInv
<1>2. ~Filling(h) /\ req[h].op # "vacuum"
  BY <1>1, Request_h DEF Filling, Opening, Rewriting, WriterOK
<1>3. CASE Finish(h)
  BY <1>1, <1>2, <1>3, FinishStep DEF bucket
<1>4. CASE Goto(h, "name")
  <2>1. /\ Continues(h) /\ req'[h].pc = "name" /\ req'[h].op = req[h].op
        /\ req'[h].alone = req[h].alone /\ req'[h].first = req[h].first
        /\ req'[h].file = req[h].file /\ req'[h].db = req[h].db
        /\ req'[h].data = req[h].data /\ names' = names
    BY <1>1, <1>4, Request_h DEF Request, Continues, Goto
  <2>2. HandlerOK(h)'
    BY <1>1, <1>2, <2>1, LookingOK DEF handles, Looking
  <2> QED BY <1>1, <1>2, <2>1, <2>2, SameNames, LocalStep DEF bucket
<1> QED BY <1>2, <1>3, <1>4 DEF FindMetaData

(* The name is taken when no other request has it. *)
LEMMA TakeNameKeeps ==
  ASSUME HInv, TypeInv', NEW h \in Handlers, TakeName(h)
  PROVE  HInv'
<1>1. req[h].pc = "name" /\ UNCHANGED <<bucket, handles, dbs>> /\ h \in Active
  BY DEF TakeName, Active
<1>2. ~Filling(h)
  BY <1>1, Request_h DEF Filling, Opening, Rewriting, WriterOK
<1>3. CASE Finish(h)
  BY <1>1, <1>2, <1>3, FinishStep DEF bucket
<1>4. CASE /\ names[req[h].data] = Absent /\ names' = [names EXCEPT ![req[h].data] = h]
           /\ req' = [req EXCEPT ![h].pc = IF req[h].op = "select" THEN "answer" ELSE "read"]
  <2>1. /\ Continues(h) /\ req'[h].op = req[h].op
        /\ req'[h].pc = IF req[h].op = "select" THEN "answer" ELSE "read"
        /\ req'[h].alone = req[h].alone /\ req'[h].first = req[h].first
        /\ req'[h].file = req[h].file /\ req'[h].db = req[h].db
        /\ req'[h].data = req[h].data /\ req'[h].view = req[h].view
    BY <1>1, <1>4, Request_h DEF Request, Continues
  <2>2. ~req[h].alone => req[h].data = dataDB /\ dataDB \in Handlers
    BY <1>1, Request_h, Typed DEF HInv, JoinedOK, Scheduled, Warm
  <2>3. LeavesNames(h)
    <3>1. CASE req[h].alone
      BY <1>1, <3>1 DEF HInv, Scheduled, LeavesNames, Active
    <3>2. CASE ~req[h].alone
      BY <1>4, <2>2, <3>2, ConstantsAssumption DEF LeavesNames
    <3> QED BY <3>1, <3>2
  <2>4. JoinedOK(h)'
    <3>1. ~req[h].alone => names'[dataDB] = h
      BY <1>4, <2>2, Typed DEF HInv
    <3> QED BY <1>1, <2>1, <2>2, <3>1, Request_h DEF JoinedOK, Holding, handles
  <2>5. ~req[h].first /\ req[h].file = Absent /\ req[h].op \in AllOps
        /\ (req[h].op = "vacuum" => req[h].view)
    BY <1>1, Request_h DEF WriterOK, FileOK, HandlerTyped
  <2>6. WriterOK(h)'
    BY <1>1, <2>1, <2>5, Request_h DEF WriterOK, Holding, Rewriting, AllOps, handles
  <2>7. HandlerOK(h)'
    BY <2>1, <2>4, <2>5, <2>6 DEF HandlerOK, FileOK
  <2> QED BY <1>1, <1>2, <2>1, <2>3, <2>7, LocalStep DEF bucket
<1> QED BY <1>3, <1>4 DEF TakeName, NameFree

(* A SELECT answers and gives the name back. *)
LEMMA RespondKeeps ==
  ASSUME HInv, TypeInv', NEW h \in Handlers, Respond(h)
  PROVE  HInv'
<1>1. req[h].pc = "answer" /\ UNCHANGED <<bucket, handles, dbs>> /\ Finish(h)
  BY DEF Respond
<1>2. ~Filling(h)
  BY <1>1, Request_h DEF Filling, Opening, Rewriting, WriterOK
<1> QED BY <1>1, <1>2, FinishStep DEF bucket

-----------------------------------------------------------------------------
(***************************************************************************)
(* Import.                                                                 *)
(***************************************************************************)

(* A request that has the name keeps it from one step to the next.         *)
LEMMA HolderOK ==
  ASSUME HInv, NEW h \in Handlers, Holding(h), Holding(h)',
         req'[h].op = req[h].op, req'[h].alone = req[h].alone,
         req'[h].data = req[h].data, req'[h].first => req[h].first,
         UNCHANGED <<handles, names>>
  PROVE  JoinedOK(h)' /\ LeavesNames(h)
<1>1. JoinedOK(h) /\ ~Looking(h)
  BY Request_h DEF Holding, Rewriting, Looking
<1> QED BY <1>1, SameNames DEF JoinedOK, Holding, Rewriting, handles

(* importPersistedLog reads the committed log. *)
LEMMA ReadLogKeeps ==
  ASSUME HInv, TypeInv', NEW h \in Handlers, ReadLog(h)
  PROVE  HInv'
<1>1. /\ req[h].pc = "read" /\ UNCHANGED <<bucket, handles, names, dbs>>
      /\ req' = [req EXCEPT ![h].pc = "setvar", ![h].got = objLog]
  BY DEF ReadLog
<1>2. /\ Continues(h) /\ req'[h].pc = "setvar" /\ req'[h].op = req[h].op
      /\ req'[h].alone = req[h].alone /\ req'[h].first = req[h].first
      /\ req'[h].file = req[h].file /\ req'[h].db = req[h].db
      /\ req'[h].data = req[h].data /\ req'[h].view = req[h].view
      /\ req'[h].got = objLog
  BY <1>1, Request_h DEF Request, Continues
<1>3. JoinedOK(h)' /\ Filling(h)'
  BY <1>1, <1>2, HolderOK DEF Holding, Rewriting, Filling
<1>4. LogJson # Absent
  <2>1. CASE req[h].first
    BY <1>1, <2>1, Request_h DEF WriterOK
  <2>2. CASE ~req[h].first
    BY <1>1, <2>2, Request_h, ListedBefore
       DEF Holding, Filling, Opening, Rewriting, Listed
  <2> QED BY <2>1, <2>2
<1>5. req[h].file = Absent
  BY <1>1, Request_h DEF FileOK
<1>6. WriterOK(h)' /\ FileOK(h)'
  BY <1>1, <1>2, <1>4, <1>5, Request_h
     DEF WriterOK, FileOK, Holding, Rewriting, LogJson, bucket, handles
<1> QED BY <1>1, <1>2, <1>3, <1>6, SameNames, LocalStep DEF bucket, HandlerOK

(* The ETag is kept in a variable of one connection. *)
LEMMA SetVariableKeeps ==
  ASSUME HInv, TypeInv', NEW h \in Handlers, SetVariable(h)
  PROVE  HInv'
<1>1. /\ req[h].pc = "setvar" /\ UNCHANGED <<bucket, handles, names>>
      /\ req' = [req EXCEPT ![h].pc = "delete", ![h].into = logDB]
  BY DEF SetVariable
<1>2. /\ Continues(h) /\ req'[h].pc = "delete" /\ req'[h].op = req[h].op
      /\ req'[h].alone = req[h].alone /\ req'[h].first = req[h].first
      /\ req'[h].file = req[h].file /\ req'[h].db = req[h].db
      /\ req'[h].data = req[h].data /\ req'[h].view = req[h].view
      /\ req'[h].got = req[h].got /\ req'[h].into = logDB
  BY <1>1, Request_h DEF Request, Continues
<1>3. \A k \in Handlers : dbs'[k].log = dbs[k].log
  BY Request_h, Typed DEF SetVariable, HInv, DB
<1>4. JoinedOK(h)' /\ Filling(h)'
  BY <1>1, <1>2, HolderOK DEF Holding, Rewriting, Filling
<1>5. LogJson' = LogJson /\ req[h].file = Absent
  BY <1>1, <1>3, Request_h DEF LogJson, handles, FileOK
<1>6. WriterOK(h)' /\ FileOK(h)'
  BY <1>1, <1>2, <1>5, Request_h
     DEF WriterOK, FileOK, Holding, Rewriting, bucket, handles
<1> QED BY <1>1, <1>2, <1>3, <1>4, <1>6, SameNames, LocalStep DEF bucket, HandlerOK

(* A statement of the writer on log_json leaves the rows it says. *)
LEMMA WriterExecutes ==
  ASSUME HInv, NEW h \in Handlers, logDB \in Handlers, UNCHANGED logDB,
         NEW l \in Log, NEW b \in BOOLEAN, Execute(h, logDB, l, b),
         l.add \subseteq Written
  PROVE  LogJson' = l
<1>1. l \in Log \cup {Absent} /\ l # Absent
  BY ConstantsAssumption
<1>2. dbs'[logDB].log = l
  BY <1>1, ExecuteTyped DEF HInv
<1> QED BY <1>2 DEF LogJson

(* The rows are deleted; nobody else is looking for files it could miss. *)
LEMMA DeleteRowsKeeps ==
  ASSUME HInv, TypeInv', NEW h \in Handlers, DeleteRows(h)
  PROVE  HInv'
<1>1. /\ req[h].pc = "delete" /\ UNCHANGED <<bucket, handles>>
      /\ req[h].into = logDB /\ LogJson # Absent /\ logDB \in Handlers
  BY Request_h DEF DeleteRows, WriterOK
<1>2. /\ Execute(h, logDB, EmptyLog, FALSE)
      /\ req' = [req EXCEPT ![h].pc = "rows"] /\ names' = names
  BY <1>1 DEF DeleteRows, Goto, LogJson
<1>3. /\ Continues(h) /\ req'[h].pc = "rows" /\ req'[h].op = req[h].op
      /\ req'[h].alone = req[h].alone /\ req'[h].first = req[h].first
      /\ req'[h].file = req[h].file /\ req'[h].db = req[h].db
      /\ req'[h].data = req[h].data /\ req'[h].view = req[h].view
      /\ req'[h].got = req[h].got /\ req'[h].into = req[h].into
  BY <1>1, <1>2, Request_h DEF Request, Continues
<1>4. JoinedOK(h)' /\ LeavesNames(h) /\ Filling(h)' /\ Holding(h)
  BY <1>1, <1>2, <1>3, HolderOK DEF Holding, Rewriting, Filling
<1>5. LogJson' = EmptyLog
  <2>1. EmptyLog \in Log /\ EmptyLog.add \subseteq Written
    BY EmptyLogType
  <2> DEFINE l == EmptyLog
             b == FALSE
  <2>2. b \in BOOLEAN /\ Execute(h, logDB, l, b) /\ l \in Log /\ l.add \subseteq Written
    BY <1>2, <2>1
  <2>3. UNCHANGED logDB
    BY <1>1 DEF handles
  <2> HIDE DEF l, b
  <2>4. LogJson' = l
    BY <1>1, <2>2, <2>3, WriterExecutes
  <2> QED BY <2>4 DEF l
<1>6. WriterOK(h)' /\ FileOK(h)'
  BY <1>1, <1>3, <1>5, Request_h
     DEF WriterOK, FileOK, Holding, Rewriting, bucket, handles
<1>7. VersionOK'
  BY <1>1, SameVersion DEF HInv, bucket
<1> QED BY <1>1, <1>3, <1>4, <1>6, <1>7, WriterStep DEF HandlerOK

(* Rows inserted into an empty log_json are the rows of the log. *)
LEMMA InsertRowsIntoEmpty ==
  ASSUME NEW l \in Log
  PROVE  InsertRows(EmptyLog, l) = l
<1>1. << >> \o l.meta = l.meta
  BY DEF Log
<1>2. {} \cup l.add = l.add /\ {} \cup l.remove = l.remove
  OBVIOUS
<1> QED BY <1>1, <1>2 DEF InsertRows, EmptyLog, Log

(* log_json holds the committed log. *)
LEMMA LoadRowsKeeps ==
  ASSUME HInv, TypeInv', NEW h \in Handlers, LoadRows(h)
  PROVE  HInv'
<1>1. /\ req[h].pc = "rows" /\ UNCHANGED <<bucket, handles, names>>
      /\ req[h].into = logDB /\ LogJson = EmptyLog /\ req[h].got = objLog
      /\ logDB \in Handlers /\ logDB # Absent
      /\ req[h].db \in {logDB, Absent} /\ req[h].file = Absent
  BY Request_h DEF LoadRows, WriterOK, FileOK
<1>2. LogJson' = objLog
  <2>1. Execute(h, logDB, objLog, TRUE)
    BY <1>1, Request_h, InsertRowsIntoEmpty DEF LoadRows, LogJson
  <2> DEFINE b == TRUE
  <2>2. b \in BOOLEAN /\ Execute(h, logDB, objLog, b) /\ objLog.add \subseteq Written
    BY <2>1, Typed DEF HInv
  <2>3. UNCHANGED logDB
    BY <1>1 DEF handles
  <2> HIDE DEF b
  <2> QED BY <1>1, <2>2, <2>3, Request_h, WriterExecutes
<1>3. VersionOK'
  BY <1>1, SameVersion DEF HInv, bucket
<1>4. Holding(h)
  BY <1>1 DEF Holding, Rewriting
<1>5. CASE req[h].first
  <2>1. /\ Continues(h) /\ req'[h].pc = Start(req[h].op) /\ req'[h].op = req[h].op
        /\ req'[h].alone = req[h].alone /\ ~req'[h].first
        /\ req'[h].file = req[h].file /\ req'[h].db = req[h].db
    BY <1>1, <1>5, Request_h DEF Request, Continues, LoadRows
  <2>2. /\ req'[h].pc \in {"files", "table"}
        /\ req'[h].pc = "table" => req[h].op # "vacuum"
    BY <2>1 DEF Start
  <2>3. req[h].alone
    BY <1>5, OpenersAlone
  <2>4. JoinedOK(h)' /\ FileOK(h)'
    BY <1>1, <2>1, <2>3 DEF JoinedOK, FileOK
  <2>5. WriterOK(h)'
    BY <1>1, <2>1, <2>2 DEF WriterOK, Holding, Rewriting, handles
  <2>6. Listed'
    BY <1>1, <1>2, <1>3, Request_h DEF Listed, VersionOK, bucket
  <2> QED BY <1>1, <1>3, <1>4, <2>1, <2>4, <2>5, <2>6, SameNames, WriterStep
          DEF HandlerOK
<1>6. CASE ~req[h].first
  <2>1. /\ Continues(h) /\ req'[h].op = req[h].op
        /\ req'[h].pc = IF req[h].op = "vacuum" THEN "expired" ELSE "copy"
        /\ req'[h].alone = req[h].alone /\ ~req'[h].first
        /\ req'[h].file = req[h].file /\ req'[h].db = logDB
        /\ req'[h].data = req[h].data /\ req'[h].view = req[h].view
    BY <1>1, <1>6, Request_h DEF Request, Continues, LoadRows
  <2>2. JoinedOK(h)' /\ Filling(h)'
    BY <1>1, <1>4, <2>1, HolderOK DEF Holding, Rewriting, Filling
  <2>3. WriterOK(h)' /\ FileOK(h)'
    BY <1>1, <1>2, <1>4, <1>6, <2>1, Request_h
       DEF WriterOK, FileOK, Holding, Rewriting, bucket, handles
  <2> QED BY <1>1, <1>3, <1>4, <2>1, <2>2, <2>3, SameNames, WriterStep
          DEF HandlerOK
<1> QED BY <1>5, <1>6

-----------------------------------------------------------------------------
(***************************************************************************)
(* Insert and Merge.                                                       *)
(***************************************************************************)

(* The log a writer makes lists the rows of the committed log and, if it   *)
(* is that of an INSERT, its own row.                                      *)
LEMMA NewLogLive ==
  ASSUME HInv, NEW h \in Handlers
  PROVE  /\ NewLog(h) \in Log /\ Extends(NewLog(h), objLog)
         /\ TombstonesAdded(NewLog(h)) /\ HasTable(NewLog(h))
         /\ FilesLive(NewLog(h)) =
              IF req[h].file = Absent THEN FilesLive(objLog)
              ELSE IF req[h].op = "insert" THEN FilesLive(objLog) \cup {req[h].file}
              ELSE {req[h].file}
         /\ FilesLive(NewLog(h)) # {}
<1> DEFINE f == req[h].file
<1>1. /\ objLog \in Log /\ TombstonesAdded(objLog) /\ HasTable(objLog)
      /\ FilesLive(objLog) # {}
      /\ f # Absent => f \in Files /\ f \notin objLog.add
  BY Request_h DEF HInv, VersionOK, FileOK, Request
<1>2. CASE f = Absent
  BY <1>1, <1>2, ExtendsReflexive DEF NewLog
<1>3. CASE f # Absent /\ req[h].op = "insert"
  BY <1>1, <1>3, LogStatements, InsertAddLive DEF NewLog, HasTable, InsertAdd
<1>4. CASE f # Absent /\ req[h].op # "insert"
  <2> DEFINE l == MergeEvents(objLog, f, 0)
  <2>1. NewLog(h) = l /\ l.meta = objLog.meta
    BY <1>4 DEF NewLog, MergeEvents
  <2>2. l \in Log
    BY <1>1, <1>4, LogStatements
  <2>3. Extends(l, objLog) /\ TombstonesAdded(l) /\ FilesLive(l) = {f}
    BY <1>1, <1>4, MergeEventsLive
  <2> HIDE DEF l
  <2> QED BY <1>1, <1>4, <2>1, <2>2, <2>3 DEF HasTable
<1> QED BY <1>2, <1>3, <1>4

(* Since the import log_json lists a file. *)
LEMMA ListedAfter ==
  ASSUME HInv, NEW h \in Handlers,
         req[h].pc \in {"expired", "purge", "copy", "record", "etag", "events", "write"}
  PROVE  Listed
<1>1. LogJson \in {objLog, NewLog(h)}
  BY Request_h DEF WriterOK
<1>2. objLog \in Log /\ FilesLive(objLog) # {}
  BY Request_h DEF HInv, VersionOK
<1> QED BY <1>1, <1>2, NewLogLive, ConstantsAssumption DEF Listed

(* The expired tombstones of log_json are those of the committed log. *)
LEMMA ListExpiredKeeps ==
  ASSUME HInv, TypeInv', NEW h \in Handlers, ListExpired(h)
  PROVE  HInv'
<1>1. /\ req[h].pc = "expired" /\ UNCHANGED <<bucket, handles>>
      /\ \A k \in Handlers : dbs'[k].log = dbs[k].log
      /\ logDB \in Handlers /\ LogJson = objLog /\ req[h].file = Absent
  BY Request_h, QueryTyped DEF ListExpired, HInv, WriterOK, FileOK
<1>2. Listed /\ Holding(h)
  BY <1>1, ListedAfter DEF Holding, Rewriting
<1>3. CASE Finish(h)
  BY <1>1, <1>2, <1>3, FinishStep DEF bucket
<1>4. CASE ~Finish(h)
  <2>1. /\ names' = names /\ Continues(h) /\ req'[h].op = req[h].op
        /\ req'[h].pc \in {"purge", "copy"}
        /\ req'[h].alone = req[h].alone /\ req'[h].first = req[h].first
        /\ req'[h].file = req[h].file /\ req'[h].db = req[h].db
        /\ req'[h].data = req[h].data /\ req'[h].view = req[h].view
    BY <1>1, <1>4, Request_h DEF Request, Continues, ListExpired
  <2>2. JoinedOK(h)'
    BY <1>1, <1>2, <2>1, HolderOK DEF Holding, Rewriting
  <2>3. LogJson' = LogJson
    BY <1>1 DEF LogJson, handles
  <2>4. WriterOK(h)' /\ FileOK(h)'
    BY <1>1, <2>1, <2>3, Request_h
       DEF WriterOK, FileOK, Holding, Rewriting, bucket, handles
  <2> QED BY <1>1, <1>2, <2>1, <2>2, <2>4, SameNames, LocalStep DEF bucket, HandlerOK
<1> QED BY <1>3, <1>4

(* Purging deletes objects, no rows of the log. *)
LEMMA PurgeFileKeeps ==
  ASSUME HInv, TypeInv', NEW h \in Handlers, PurgeFile(h)
  PROVE  HInv'
<1>1. /\ req[h].pc = "purge" /\ UNCHANGED <<objLog, content, acked, handles, names, dbs>>
      /\ logDB \in Handlers /\ LogJson = objLog /\ req[h].file = Absent
  BY Request_h DEF PurgeFile, WriterOK, FileOK
<1>2. Listed /\ Holding(h)
  BY <1>1, ListedAfter DEF Holding, Rewriting
<1>3. /\ Continues(h) /\ req'[h].op = req[h].op
      /\ req'[h].pc \in {"purge", "etag"}
      /\ req'[h].alone = req[h].alone /\ req'[h].first = req[h].first
      /\ req'[h].file = req[h].file /\ req'[h].db = req[h].db
      /\ req'[h].data = req[h].data /\ req'[h].view = req[h].view
  BY <1>1, Request_h DEF Request, Continues, PurgeFile
<1>4. JoinedOK(h)'
  BY <1>1, <1>2, <1>3, HolderOK DEF Holding, Rewriting
<1>5. LogJson' = LogJson /\ NewLog(h)' = objLog'
  BY <1>1, <1>3 DEF LogJson, handles, NewLog
<1>6. WriterOK(h)' /\ FileOK(h)'
  BY <1>1, <1>3, <1>5, Request_h DEF WriterOK, FileOK, Holding, Rewriting, handles
<1> QED BY <1>1, <1>2, <1>3, <1>4, <1>6, SameNames, LocalStep DEF HandlerOK

(* The new file holds the row of the INSERT, or those of the table. *)
LEMMA CopyKeeps ==
  ASSUME HInv, TypeInv', NEW h \in Handlers, Copy(h)
  PROVE  HInv'
<1>1. /\ req[h].pc = "copy" /\ UNCHANGED <<objLog, acked, handles, dbs>>
      /\ logDB \in Handlers /\ LogJson = objLog /\ req[h].file = Absent
      /\ ~req[h].first /\ req[h].op \in {"insert", "vacuum"}
      /\ req[h].op = "vacuum" => req[h].view
      /\ Holding(h)
  BY Request_h DEF Copy, WriterOK, FileOK, Holding, Rewriting
<1>2. CASE Finish(h) /\ UNCHANGED <<stored, content>>
  BY <1>1, <1>2, ListedAfter, FinishStep
<1>3. ASSUME NEW f \in Files, NEW R, names' = names, content[f] = Absent,
             R = IF req[h].op = "insert" THEN {f} ELSE RowsOf(objLog),
             content' = [content EXCEPT ![f] = [rows |-> R]],
             req' = [req EXCEPT ![h].pc = "record", ![h].file = f]
      PROVE  HInv'
  <2>1. /\ Continues(h) /\ req'[h].pc = "record" /\ req'[h].op = req[h].op
        /\ req'[h].alone = req[h].alone /\ req'[h].first = req[h].first
        /\ req'[h].file = f /\ req'[h].db = req[h].db
        /\ req'[h].data = req[h].data /\ req'[h].view = req[h].view
    BY <1>1, <1>3, Request_h DEF Request, Continues
  <2>2. /\ content \in [Files -> Content \cup {Absent}] /\ f \notin Written
        /\ FilesLive(objLog) \subseteq objLog.add /\ objLog.add \subseteq Written
        /\ RowsOf(objLog) \subseteq Written
    <3>1. /\ content \in [Files -> Content \cup {Absent}] /\ f \notin Written
          /\ FilesLive(objLog) \subseteq objLog.add /\ objLog.add \subseteq Written
      BY <1>3, Request_h, LogQueries, Typed DEF HInv, TypeInv, TypeOK, Written
    <3> QED BY <3>1 DEF HInv, VersionOK, RowsOf
  <2>3. /\ \A g \in Written : content'[g] = content[g]
        /\ content'[f].rows = R
        /\ Written' \subseteq Written \cup {f}
        /\ Written \cup {f} \subseteq Written'
    <3>1. content'[f] = [rows |-> R] /\ \A g \in Files \ {f} : content'[g] = content[g]
      BY <1>3, <2>2
    <3>2. [rows |-> R] \in Content
      BY <1>3, <2>2 DEF Content, Written
    <3>3. [rows |-> R] # Absent
      BY <3>2, ConstantsAssumption
    <3> QED BY <2>2, <3>1, <3>3 DEF Written
  <2>4. RowsOf(objLog)' = RowsOf(objLog)
    BY <1>1, <2>2, <2>3 DEF RowsOf
  <2>5. VersionOK'
    <3>1. \A g \in Written' : content'[g].rows \subseteq Written'
      BY <1>3, <2>2, <2>3 DEF HInv, VersionOK
    <3>2. acked' \subseteq RowsOf(objLog)'
      BY <1>1, <2>4 DEF HInv, VersionOK
    <3>3. \A e, g \in FilesLive(objLog') :
             e # g => content'[e].rows \cap content'[g].rows = {}
      BY <1>1, <2>2, <2>3 DEF HInv, VersionOK
    <3> QED BY <1>1, <3>1, <3>2, <3>3 DEF HInv, VersionOK
  <2>6. JoinedOK(h)' /\ Filling(h)' /\ LeavesNames(h)
    BY <1>1, <1>3, <2>1, HolderOK DEF Holding, Rewriting, Filling
  <2>7. FileOK(h)'
    <3>1. f \notin objLog.add /\ f \notin RowsOf(objLog)
      BY <2>2
    <3> QED BY <1>1, <1>3, <2>1, <2>3, <2>4, <3>1 DEF FileOK
  <2>8. WriterOK(h)'
    BY <1>1, <2>1, Request_h DEF WriterOK, Holding, Rewriting, LogJson, handles
  <2> QED BY <1>1, <2>1, <2>5, <2>6, <2>7, <2>8, WriterStep DEF HandlerOK
<1>4. ASSUME NEW f \in Files, content[f] = Absent, names' = names,
             content' = [content EXCEPT ![f] = [rows |->
                           IF req[h].op = "insert" THEN {f}
                           ELSE IF req[h].view THEN RowsOf(objLog) ELSE {}]],
             req' = [req EXCEPT ![h].pc = "record", ![h].file = f]
      PROVE  HInv'
  <2> DEFINE R == IF req[h].op = "insert" THEN {f} ELSE RowsOf(objLog)
  <2>1. content' = [content EXCEPT ![f] = [rows |-> R]]
    BY <1>1, <1>4
  <2> QED BY <1>3, <1>4, <2>1
<1> QED BY <1>2, <1>4 DEF Copy

(* The writer's events are added to the rows of the committed log. *)
LEMMA RecordKeeps ==
  ASSUME HInv, TypeInv', NEW h \in Handlers, Record(h)
  PROVE  HInv'
<1>1. /\ req[h].pc = "record" /\ UNCHANGED <<bucket, handles>>
      /\ logDB \in Handlers /\ LogJson = objLog /\ objLog \in Log /\ objLog # Absent
      /\ req[h].db = logDB /\ req[h].file # Absent
      /\ req[h].file \in Written
  BY Request_h DEF Record, WriterOK, HandlerTyped
<1>2. /\ Execute(h, logDB, NewLog(h), dbs[logDB].protocol)
      /\ req' = [req EXCEPT ![h].pc = "etag"] /\ names' = names
  BY <1>1 DEF Record, Goto, LogJson, NewLog
<1>3. /\ Continues(h) /\ req'[h].pc = "etag" /\ req'[h].op = req[h].op
      /\ req'[h].alone = req[h].alone /\ req'[h].first = req[h].first
      /\ req'[h].file = req[h].file /\ req'[h].db = req[h].db
      /\ req'[h].data = req[h].data /\ req'[h].view = req[h].view
  BY <1>1, <1>2, Request_h DEF Request, Continues
<1>4. JoinedOK(h)' /\ LeavesNames(h) /\ Filling(h)' /\ Holding(h)
  BY <1>1, <1>2, <1>3, HolderOK DEF Holding, Rewriting, Filling
<1>5. LogJson' = NewLog(h)
  <2>1. NewLog(h) \in Log /\ NewLog(h).add \subseteq Written
    BY <1>1, NewLogLive, Typed DEF HInv, NewLog, InsertAdd, MergeEvents
  <2> DEFINE b == dbs[logDB].protocol
  <2>2. b \in BOOLEAN
    BY <1>1, Request_h DEF DB
  <2>3. UNCHANGED logDB /\ Execute(h, logDB, NewLog(h), b)
    BY <1>1, <1>2 DEF handles
  <2> HIDE DEF b
  <2> QED BY <1>1, <2>1, <2>2, <2>3, WriterExecutes
<1>6. NewLog(h)' = NewLog(h) /\ RowsOf(objLog)' = RowsOf(objLog)
  BY <1>1, <1>3 DEF NewLog, RowsOf, bucket
<1>7. FileOK(h)'
  BY <1>1, <1>3, <1>6, Request_h DEF FileOK, bucket
<1>8. WriterOK(h)'
  BY <1>1, <1>3, <1>5, <1>6, Request_h DEF WriterOK, Holding, Rewriting, handles
<1>9. VersionOK'
  BY <1>1, SameVersion DEF HInv, bucket
<1> QED BY <1>1, <1>3, <1>4, <1>7, <1>8, <1>9, WriterStep DEF HandlerOK

-----------------------------------------------------------------------------
(***************************************************************************)
(* Export.                                                                 *)
(***************************************************************************)

(* What a request that exports has made of log_json. *)
LEMMA Exports ==
  ASSUME HInv, NEW h \in Handlers, req[h].pc \in {"etag", "events", "write"}
  PROVE  /\ LogJson = NewLog(h) /\ Listed /\ Holding(h)
         /\ logDB \in Handlers /\ ~req[h].first
         /\ req[h].op \in {"insert", "vacuum"}
BY Request_h, ListedAfter DEF WriterOK, Holding, Rewriting

(* The ETag is read through whatever connection is free. *)
LEMMA ReadEtagKeeps ==
  ASSUME HInv, TypeInv', NEW h \in Handlers, ReadEtag(h)
  PROVE  HInv'
<1>1. req[h].pc = "etag" /\ UNCHANGED <<bucket, handles, names>>
  BY DEF ReadEtag
<1>2. /\ \A k \in Handlers : dbs'[k].log = dbs[k].log
      /\ Continues(h) /\ req'[h].pc = "events" /\ req'[h].op = req[h].op
      /\ req'[h].alone = req[h].alone /\ req'[h].first = req[h].first
      /\ req'[h].file = req[h].file /\ req'[h].db = logDB
      /\ req'[h].data = req[h].data /\ req'[h].view = req[h].view
  BY <1>1, Request_h, Typed DEF Request, Continues, ReadEtag, HInv, DB
<1>3. JoinedOK(h)' /\ Filling(h)'
  BY <1>1, <1>2, Exports, HolderOK DEF Holding, Rewriting, Filling
<1>4. LogJson' = LogJson /\ NewLog(h)' = NewLog(h) /\ RowsOf(objLog)' = RowsOf(objLog)
  BY <1>1, <1>2, Exports DEF LogJson, handles, NewLog, bucket, RowsOf
<1>5. WriterOK(h)'
  BY <1>1, <1>2, <1>4, Request_h, Exports
     DEF WriterOK, Holding, Rewriting, handles
<1>6. FileOK(h)'
  BY <1>1, <1>2, <1>4, Request_h DEF FileOK, bucket
<1> QED BY <1>1, <1>2, <1>3, <1>5, <1>6, SameNames, LocalStep DEF bucket, HandlerOK

(* log_json is read as the writer left it. *)
LEMMA ReadEventsKeeps ==
  ASSUME HInv, TypeInv', NEW h \in Handlers, ReadEvents(h)
  PROVE  HInv'
<1>1. /\ req[h].pc = "events" /\ UNCHANGED <<bucket, handles>>
      /\ req[h].db = logDB /\ logDB \in Handlers
      /\ \A k \in Handlers : dbs'[k].log = dbs[k].log
  BY Request_h, QueryTyped DEF ReadEvents, HInv, HandlerTyped, WriterOK
<1>2. CASE Finish(h)
  BY <1>1, <1>2, Exports, FinishStep DEF bucket
<1>3. CASE names' = names /\ req' = [req EXCEPT ![h].pc = "write", ![h].got = LogJson]
  <2>1. /\ Continues(h) /\ req'[h].pc = "write" /\ req'[h].op = req[h].op
        /\ req'[h].alone = req[h].alone /\ req'[h].first = req[h].first
        /\ req'[h].file = req[h].file /\ req'[h].db = req[h].db
        /\ req'[h].data = req[h].data /\ req'[h].view = req[h].view
        /\ req'[h].got = LogJson
    BY <1>1, <1>3, Request_h DEF Request, Continues
  <2>2. JoinedOK(h)' /\ Filling(h)'
    BY <1>1, <1>3, <2>1, Exports, HolderOK DEF Holding, Rewriting, Filling
  <2>3. LogJson' = LogJson /\ NewLog(h)' = NewLog(h) /\ RowsOf(objLog)' = RowsOf(objLog)
    BY <1>1, <2>1 DEF LogJson, handles, NewLog, bucket, RowsOf
  <2>4. WriterOK(h)'
    BY <1>1, <2>1, <2>3, Request_h, Exports
       DEF WriterOK, Holding, Rewriting, handles
  <2>5. FileOK(h)'
    BY <1>1, <2>1, <2>3, Request_h DEF FileOK, bucket
  <2> QED BY <1>1, <1>3, <2>1, <2>2, <2>4, <2>5, SameNames, LocalStep
          DEF bucket, HandlerOK
<1> QED BY <1>1, <1>2, <1>3 DEF ReadEvents, LogJson

(* The object is not written: the table and log_json stay. *)
LEMMA WriteFailsKeeps ==
  ASSUME HInv, TypeInv', NEW h \in Handlers, WriteFails(h)
  PROVE  HInv'
<1>1. req[h].pc = "write" /\ UNCHANGED <<bucket, handles, dbs>> /\ Finish(h)
  BY DEF WriteFails
<1> QED BY <1>1, Exports, FinishStep DEF bucket

(* The rows of the log a writer makes: an INSERT adds its own to them, a   *)
(* merge keeps them.                                                       *)
LEMMA NewRows ==
  ASSUME HInv, NEW h \in Handlers
  PROVE  /\ RowsOf(NewLog(h)) =
              IF req[h].file # Absent /\ req[h].op = "insert"
              THEN RowsOf(objLog) \cup {req[h].file} ELSE RowsOf(objLog)
         /\ \A f, g \in FilesLive(NewLog(h)) :
              f # g => content[f].rows \cap content[g].rows = {}
<1>1. \A f, g \in FilesLive(objLog) : f # g => content[f].rows \cap content[g].rows = {}
  BY DEF HInv, VersionOK
<1>2. CASE req[h].file = Absent
  BY <1>1, <1>2 DEF NewLog
<1>3. CASE req[h].file # Absent /\ req[h].op = "insert"
  <2>1. /\ content[req[h].file].rows = {req[h].file}
        /\ req[h].file \notin RowsOf(objLog)
    BY <1>3, Request_h DEF FileOK
  <2>2. FilesLive(NewLog(h)) = FilesLive(objLog) \cup {req[h].file}
    BY <1>3, NewLogLive
  <2>3. RowsOf(NewLog(h)) = RowsOf(objLog) \cup {req[h].file}
    BY <2>1, <2>2 DEF RowsOf
  <2>4. \A f \in FilesLive(objLog) : req[h].file \notin content[f].rows
    BY <2>1 DEF RowsOf
  <2> QED BY <1>1, <1>3, <2>1, <2>2, <2>3, <2>4
<1>4. CASE req[h].file # Absent /\ req[h].op # "insert"
  <2>1. content[req[h].file].rows = RowsOf(objLog)
    BY <1>4, Request_h DEF FileOK
  <2>2. FilesLive(NewLog(h)) = {req[h].file}
    BY <1>4, NewLogLive
  <2>3. RowsOf(NewLog(h)) = content[req[h].file].rows
    BY <2>2 DEF RowsOf
  <2> QED BY <1>4, <2>1, <2>2, <2>3
<1> QED BY <1>2, <1>3, <1>4

(* What WriteLog makes of the table. *)
LEMMA WriteLogRows ==
  ASSUME HInv, NEW h \in Handlers, WriteLog(h)
  PROVE  /\ objLog' = NewLog(h) /\ content' = content
         /\ RowsOf(objLog)' = RowsOf(NewLog(h))
         /\ \/ /\ req[h].op = "insert" /\ req[h].file \in Files
               /\ req[h].file \notin RowsOf(objLog)
               /\ RowsOf(objLog)' = RowsOf(objLog) \cup {req[h].file}
               /\ acked' \in {acked, acked \cup {req[h].file}}
            \/ RowsOf(objLog)' = RowsOf(objLog) /\ acked' = acked
<1>1. /\ req[h].pc = "write" /\ objLog' = req[h].got /\ content' = content
      /\ acked' \in {acked, acked \cup {req[h].file}}
      /\ req[h].op # "insert" => acked' = acked
  BY DEF WriteLog
<1>2. objLog' = NewLog(h)
  BY <1>1, Request_h DEF WriterOK
<1>3. RowsOf(objLog)' = RowsOf(NewLog(h))
  BY <1>1, <1>2 DEF RowsOf
<1>4. req[h].op = "insert" =>
        req[h].file # Absent /\ req[h].file \in Files /\ req[h].file \notin RowsOf(objLog)
  BY <1>1, Request_h DEF HandlerTyped, FileOK, Request
<1> QED BY <1>1, <1>2, <1>3, <1>4, NewRows

(* The committed log becomes what log_json holds. *)
LEMMA WriteLogKeeps ==
  ASSUME HInv, TypeInv', NEW h \in Handlers, WriteLog(h)
  PROVE  HInv'
<1>1. req[h].pc = "write" /\ Finish(h) /\ UNCHANGED <<stored, handles, dbs>>
  BY DEF WriteLog
<1>2. objLog' = NewLog(h) /\ content' = content
  BY WriteLogRows
<1>3. VersionOK'
  <2>1. HasTable(objLog') /\ FilesLive(objLog') # {} /\ TombstonesAdded(objLog')
    BY <1>2, NewLogLive
  <2>2. acked' \subseteq RowsOf(objLog)'
    BY WriteLogRows DEF HInv, VersionOK
  <2>3. \A f, g \in FilesLive(objLog') :
          f # g => content'[f].rows \cap content'[g].rows = {}
    BY <1>2, NewRows
  <2>4. \A f \in Written' : content'[f].rows \subseteq Written'
    BY <1>2 DEF HInv, VersionOK, Written
  <2> QED BY <2>1, <2>2, <2>3, <2>4 DEF VersionOK
<1>4. Listed' /\ Holding(h)
  BY <1>1, Exports DEF Listed, LogJson, handles
<1> QED BY <1>1, <1>3, <1>4, FinishOK, WriterStep

-----------------------------------------------------------------------------
(***************************************************************************)
(* Requests begin, the process restarts.                                   *)
(***************************************************************************)

(* A request joins others only on a warm process, and VACUUM never does.   *)
LEMMA BeginKeeps ==
  ASSUME QuietVacuum, HInv, TypeInv', NEW h \in Handlers, NEW op \in AllOps,
         Begin(h, op)
  PROVE  HInv'
<1> DEFINE cold == dataDB = Absent \/ logDB = Absent
           alone == op \in Alone \/ (WarmUp /\ cold)
           pc == IF dataDB = Absent THEN "openData" ELSE Start(op)
<1>1. /\ req[h].pc = "idle" /\ UNCHANGED <<bucket, handles, names, dbs>>
      /\ \A g \in Active : ~req[g].alone
      /\ alone => Active = {}
      /\ req' = [req EXCEPT ![h] = [NoRequest EXCEPT
                  !.op = op, !.alone = alone, !.data = dataDB, !.pc = pc]]
  BY DEF Begin
<1>2. /\ ~alone => op # "vacuum" /\ Warm
      /\ ~Warm => alone
  BY DEF QuietVacuum, Warm
<1>3. /\ pc \in {"openData", "files", "table"}
      /\ Warm => pc \in {"files", "table"}
      /\ pc = "table" => op # "vacuum"
  BY DEF Start, Warm
<1>4. /\ req'[h].pc = pc /\ req'[h].op = op /\ req'[h].alone = alone
      /\ req'[h].data = dataDB /\ req'[h].db = Absent
      /\ req'[h].file = Absent /\ ~req'[h].first
      /\ \A g \in Handlers \ {h} : req'[g] = req[g]
  BY <1>1, Request_h DEF NoRequest
<1> HIDE DEF alone, pc, cold
<1>5. HandlerOK(h)'
  <2>1. JoinedOK(h)'
    BY <1>1, <1>2, <1>3, <1>4 DEF JoinedOK, Looking, handles
  <2>2. WriterOK(h)'
    BY <1>3, <1>4 DEF WriterOK, Holding, Rewriting
  <2> QED BY <1>4, <2>1, <2>2 DEF HandlerOK, FileOK
<1>6. ASSUME NEW g \in Handlers \ {h} PROVE HandlerOK(g)'
  <2>1. UNCHANGED LogJson
    BY <1>1 DEF LogJson, handles
  <2> QED BY <1>1, <1>4, <2>1, OthersOK DEF bucket, handles
<1>7. Scheduled'
  <2>1. Active' = Active \cup {h}
    BY <1>3, <1>4 DEF Active
  <2>2. ASSUME NEW g \in Active', req'[g].alone PROVE Active' = {g}
    <3>1. g = h
      BY <1>1, <1>4, <2>1, <2>2 DEF Active
    <3>2. alone
      BY <1>4, <2>2, <3>1
    <3> QED BY <1>1, <2>1, <3>1, <3>2
  <2>3. ASSUME ~Warm' PROVE \A g \in Active' : req'[g].alone
    <3>1. ~Warm /\ alone
      BY <1>1, <1>2, <2>3 DEF Warm, handles
    <3> QED BY <1>1, <1>4, <2>1, <3>1
  <2> QED BY <2>2, <2>3 DEF Scheduled
<1>8. Settled'
  <2>1. ~Opening(h) /\ ~Rewriting(h)
    BY <1>1, Request_h DEF Opening, Rewriting, WriterOK
  <2>2. LogJson' = LogJson /\ logDB' = logDB
    BY <1>1 DEF LogJson, handles
  <2> QED BY <1>4, <2>1, <2>2 DEF HInv, Settled, Opening, Rewriting
<1>9. VersionOK'
  BY <1>1, SameVersion DEF HInv, bucket
<1> QED BY <1>5, <1>6, <1>7, <1>8, <1>9 DEF HInv

(* A process that has just started finds the table as it was committed.    *)
LEMMA ColdKeeps ==
  Cold(dataDB, logDB, names, dbs, req) /\ TypeInv /\ VersionOK => HInv
<1> SUFFICES ASSUME Cold(dataDB, logDB, names, dbs, req), TypeInv, VersionOK
             PROVE  HInv
  OBVIOUS
<1>1. \A h \in Handlers : req[h] = NoRequest
  BY DEF Cold
<1>2. Scheduled /\ Settled
  BY <1>1, NoRequestType DEF Cold, Scheduled, Active, Settled
<1>3. \A h \in Handlers : HandlerOK(h)
  BY <1>1, NoRequestType
     DEF HandlerOK, JoinedOK, WriterOK, FileOK, Holding, Rewriting
<1> QED BY <1>2, <1>3 DEF HInv

(* The invariant holds of a process that starts on a table with a row.     *)
LEMMA InitHInv == Init => HInv
<1> SUFFICES ASSUME Init PROVE HInv
  OBVIOUS
<1>1. PICK f \in Files, t \in TableIds :
        /\ objLog = InsertAdd(InsertMetaData(EmptyLog, t), f)
        /\ stored = {f} /\ acked = {f}
        /\ content = [g \in Files |-> IF g = f THEN [rows |-> {f}] ELSE Absent]
  BY DEF Init
<1>2. HasTable(objLog)
  BY <1>1 DEF InsertAdd, InsertMetaData, EmptyLog, HasTable
<1>3. FilesLive(objLog) = {f} /\ TombstonesAdded(objLog)
  BY <1>1 DEF InsertAdd, InsertMetaData, EmptyLog, FilesLive, Removed, TombstonesAdded
<1>4. content[f].rows = {f} /\ Written = {f}
  <2>1. [rows |-> {f}] \in Content
    BY DEF Content
  <2>2. [rows |-> {f}] # Absent
    BY <2>1, ConstantsAssumption
  <2> QED BY <1>1, <2>2 DEF Written
<1>5. RowsOf(objLog) = {f}
  BY <1>3, <1>4 DEF RowsOf
<1>6. VersionOK
  BY <1>1, <1>2, <1>3, <1>4, <1>5 DEF VersionOK
<1>7. Cold(dataDB, logDB, names, dbs, req)
  BY DEF Init
<1> QED BY <1>6, <1>7, ColdKeeps, InitTyped

(* Every step preserves the invariant. *)
LEMMA HInvStep ==
  ASSUME QuietVacuum
  PROVE  HInv /\ [Next]_vars => HInv'
<1> SUFFICES ASSUME HInv, [Next]_vars PROVE HInv'
  OBVIOUS
<1>1. TypeInv'
  BY TypedStep DEF HInv
<1>2. ASSUME NEW h \in Handlers, NEW op \in AllOps, Begin(h, op) PROVE HInv'
  BY <1>1, <1>2, BeginKeeps
<1>3. ASSUME NEW h \in Handlers, Step(h) PROVE HInv'
  <2>1. CASE OpenData(h) \/ UseData(h) \/ NoLogDB(h) \/ OpenLog(h) \/ InitLog(h)
    BY <1>1, <2>1, OpenDataKeeps, UseDataKeeps, NoLogDBKeeps, OpenLogKeeps, InitLogKeeps
  <2>2. CASE ListLiveFiles(h) \/ FindMetaData(h) \/ TakeName(h) \/ Respond(h)
    BY <1>1, <2>2, ListLiveFilesKeeps, FindMetaDataKeeps, TakeNameKeeps, RespondKeeps
  <2>3. CASE ReadLog(h) \/ SetVariable(h) \/ DeleteRows(h) \/ LoadRows(h)
    BY <1>1, <2>3, ReadLogKeeps, SetVariableKeeps, DeleteRowsKeeps, LoadRowsKeeps
  <2>4. CASE ListExpired(h) \/ PurgeFile(h) \/ Copy(h) \/ Record(h)
    BY <1>1, <2>4, ListExpiredKeeps, PurgeFileKeeps, CopyKeeps, RecordKeeps
  <2>5. CASE ReadEtag(h) \/ ReadEvents(h) \/ WriteLog(h) \/ WriteFails(h)
    BY <1>1, <2>5, ReadEtagKeeps, ReadEventsKeeps, WriteLogKeeps, WriteFailsKeeps
  <2> QED BY <1>3, <2>1, <2>2, <2>3, <2>4, <2>5 DEF Step
<1>4. CASE Crash
  <2>1. Cold(dataDB, logDB, names, dbs, req)' /\ UNCHANGED bucket
    BY <1>4 DEF Crash, Cold
  <2>2. VersionOK'
    BY <2>1, SameVersion DEF HInv, bucket
  <2> QED BY <1>1, <2>1, <2>2, ColdKeeps, PTL
<1>5. CASE UNCHANGED vars
  <2>1. /\ UNCHANGED <<objLog, content, acked, dataDB, logDB, names, dbs, req>>
    BY <1>5 DEF vars, bucket, handles
  <2>2. VersionOK' /\ Scheduled' /\ Settled'
    BY <2>1, SameVersion DEF HInv, Scheduled, Active, Warm, Settled, Opening,
       Rewriting, LogJson
  <2>3. ASSUME NEW h \in Handlers PROVE HandlerOK(h)'
    <3>1. JoinedOK(h)' /\ FileOK(h)'
      BY <2>1, Request_h DEF JoinedOK, FileOK, Looking, Holding, Rewriting, RowsOf
    <3>2. WriterOK(h)'
      BY <2>1, Request_h DEF WriterOK, Holding, Rewriting, NewLog, LogJson
    <3> QED BY <3>1, <3>2 DEF HandlerOK
  <2> QED BY <1>1, <2>2, <2>3 DEF HInv
<1> QED BY <1>2, <1>3, <1>4, <1>5 DEF Next, Rest

(* The invariant of a process that VACUUMs when nothing else runs. *)
LEMMA HInvariance ==
  ASSUME QuietVacuum
  PROVE  Spec => []HInv
<1>1. HInv /\ [Next]_vars => HInv'
  BY HInvStep
<1> QED BY InitHInv, <1>1, PTL DEF Spec

-----------------------------------------------------------------------------
(***************************************************************************)
(* The results.                                                            *)
(***************************************************************************)

(* The name of the table keeps writers apart (withPersistedLog takes no    *)
(* lock): at no time do two requests rewrite log_json.                     *)
THEOREM OneWriterAtATime ==
  ASSUME QuietVacuum
  PROVE  Spec => []OneWriter
<1>1. HInv => OneWriter
  <2> SUFFICES ASSUME HInv, NEW g \in Handlers, NEW h \in Handlers,
                      Rewriting(g), Rewriting(h), g # h
               PROVE  FALSE
    BY DEF OneWriter
  <2>1. req[g].pc = "idle" \/ Looking(g)
    BY Exclusive DEF Holding
  <2> QED BY <2>1 DEF Rewriting, Looking
<1> QED BY <1>1, HInvariance, PTL

(* No row is in two live files of the committed log. *)
THEOREM RowsAreInOneFile ==
  ASSUME QuietVacuum
  PROVE  Spec => []NoRowTwice
<1>1. HInv => NoRowTwice
  BY DEF HInv, VersionOK, NoRowTwice
<1> QED BY <1>1, HInvariance, PTL

(* What a step does to the committed table. *)
LEMMA TableSteps ==
  ASSUME HInv, [Next]_vars
  PROVE  \/ UNCHANGED <<objLog, acked>> /\ RowsOf(objLog)' = RowsOf(objLog)
         \/ \E h \in Handlers : WriteLog(h)
<1>1. SUFFICES ASSUME \A h \in Handlers : ~WriteLog(h)
               PROVE  UNCHANGED <<objLog, acked>> /\ RowsOf(objLog)' = RowsOf(objLog)
  OBVIOUS
<1>2. CASE UNCHANGED bucket
  BY <1>2 DEF bucket, RowsOf
<1>3. ASSUME NEW h \in Handlers, PurgeFile(h)
      PROVE  UNCHANGED <<objLog, acked>> /\ RowsOf(objLog)' = RowsOf(objLog)
  BY <1>3 DEF PurgeFile, RowsOf
<1>4. ASSUME NEW h \in Handlers, Copy(h)
      PROVE  UNCHANGED <<objLog, acked>> /\ RowsOf(objLog)' = RowsOf(objLog)
  <2>1. UNCHANGED <<objLog, acked>>
    BY <1>4 DEF Copy
  <2>2. \A f \in Written : content'[f] = content[f]
    BY <1>4, Typed DEF Copy, Written, HInv, TypeInv, TypeOK
  <2>3. FilesLive(objLog) \subseteq Written
    BY Typed, LogQueries DEF HInv
  <2> QED BY <2>1, <2>2, <2>3 DEF RowsOf
<1>5. ASSUME NEW h \in Handlers,
             \/ OpenData(h) \/ UseData(h) \/ NoLogDB(h) \/ OpenLog(h) \/ InitLog(h)
             \/ ListLiveFiles(h) \/ FindMetaData(h) \/ TakeName(h) \/ Respond(h)
      PROVE  UNCHANGED bucket
  BY <1>5 DEF OpenData, UseData, NoLogDB, OpenLog, InitLog, ListLiveFiles,
              FindMetaData, TakeName, Respond
<1>6. ASSUME NEW h \in Handlers,
             \/ ReadLog(h) \/ SetVariable(h) \/ DeleteRows(h) \/ LoadRows(h)
             \/ ListExpired(h) \/ Record(h) \/ ReadEtag(h) \/ ReadEvents(h)
             \/ WriteFails(h)
      PROVE  UNCHANGED bucket
  BY <1>6 DEF ReadLog, SetVariable, DeleteRows, LoadRows, ListExpired, Record,
              ReadEtag, ReadEvents, WriteFails
<1>7. ASSUME NEW h \in Handlers, Step(h)
      PROVE  UNCHANGED <<objLog, acked>> /\ RowsOf(objLog)' = RowsOf(objLog)
  BY <1>1, <1>2, <1>3, <1>4, <1>5, <1>6, <1>7 DEF Step
<1>8. ASSUME NEW h \in Handlers, NEW op \in AllOps, Begin(h, op)
      PROVE  UNCHANGED bucket
  BY <1>8 DEF Begin
<1>9. Crash \/ Rest \/ UNCHANGED vars => UNCHANGED bucket
  BY DEF Crash, Rest, vars, bucket
<1> QED BY <1>2, <1>7, <1>8, <1>9 DEF Next

(* The committed log only ever gains rows: each Export writes a log_json   *)
(* that began as the log it replaces.                                      *)
THEOREM LogIsAppendOnly ==
  ASSUME QuietVacuum
  PROVE  Spec => LogOnlyGrows
<1>1. HInv /\ [Next]_vars => [Extends(objLog', objLog)]_vars
  <2> SUFFICES ASSUME HInv, [Next]_vars PROVE Extends(objLog', objLog)
    OBVIOUS
  <2>1. CASE objLog' = objLog
    BY <2>1, Typed, ExtendsReflexive DEF HInv
  <2>2. CASE \E h \in Handlers : WriteLog(h)
    BY <2>2, WriteLogRows, NewLogLive
  <2> QED BY <2>1, <2>2, TableSteps
<1> QED BY <1>1, HInvariance, PTL DEF Spec, LogOnlyGrows

-----------------------------------------------------------------------------
(***************************************************************************)
(* The objects.  The one writer deletes what the committed log has         *)
(* tombstoned, and commits a file that is in the bucket.                   *)
(***************************************************************************)
HeldOK(h) ==
  /\ req[h].file # Absent => req[h].file \in stored
  /\ req[h].pc = "purge" => req[h].pending \subseteq Removed(objLog)

HeldInv == Readable /\ \A h \in Handlers : HeldOK(h)

(* A request that keeps its file, or drops it, and does not come to purge. *)
Carries(h) ==
  /\ req'[h].file \in {req[h].file, Absent}
  /\ req'[h].pc # "purge"
  /\ \A g \in Handlers \ {h} : req'[g] = req[g]

(* Steps that neither write nor delete an object. *)
LEMMA HeldQuiet ==
  ASSUME HeldInv, NEW h \in Handlers, Carries(h), UNCHANGED <<objLog, stored>>
  PROVE  HeldInv'
BY DEF HeldInv, HeldOK, Carries, Readable

(* A request that ends. *)
LEMMA HeldFinish ==
  ASSUME HInv, NEW h \in Handlers, Finish(h)
  PROVE  Carries(h)
BY FinishTyped, NoRequestType DEF HInv, Carries

(* Requests that begin, open the databases or take the name. *)
LEMMA HeldOpen ==
  ASSUME HInv, HeldInv, NEW h \in Handlers,
         \/ \E op \in AllOps : Begin(h, op)
         \/ OpenData(h) \/ UseData(h) \/ NoLogDB(h) \/ OpenLog(h) \/ InitLog(h)
         \/ ListLiveFiles(h) \/ FindMetaData(h) \/ TakeName(h) \/ Respond(h)
  PROVE  HeldInv'
<1>1. UNCHANGED <<objLog, stored>>
  BY DEF Begin, OpenData, UseData, NoLogDB, OpenLog, InitLog, ListLiveFiles,
         FindMetaData, TakeName, Respond, bucket
<1>2. ASSUME NEW pc, Goto(h, pc), pc # "purge" PROVE Carries(h)
  BY <1>2, Request_h DEF Goto, Carries, Request
<1>3. CASE \E op \in AllOps : Begin(h, op)
  <2>1. PICK op \in AllOps : Begin(h, op)
    BY <1>3
  <2>2. Carries(h)
    BY <2>1, Request_h DEF Begin, Carries, NoRequest, Start
  <2> QED BY <1>1, <2>2, HeldQuiet
<1>4. CASE OpenData(h) \/ NoLogDB(h) \/ FindMetaData(h)
  BY <1>1, <1>2, <1>4, HeldFinish, HeldQuiet DEF OpenData, NoLogDB, FindMetaData
<1>5. CASE UseData(h) \/ OpenLog(h) \/ InitLog(h)
  <2>1. CASE UseData(h)
    <3>1. req' = [req EXCEPT ![h].data = dataDB, ![h].pc = Start(req[h].op)]
      BY <2>1 DEF UseData
    <3>2. Carries(h)
      BY <3>1, Request_h DEF Carries, Request, Start
    <3> QED BY <1>1, <3>2, HeldQuiet
  <2>2. CASE req' = [req EXCEPT ![h].pc = "read", ![h].first = TRUE, ![h].db = logDB]
    <3>1. Carries(h)
      BY <2>2, Request_h DEF Carries, Request
    <3> QED BY <1>1, <3>1, HeldQuiet
  <2>3. CASE Goto(h, "init")
    BY <1>1, <1>2, <2>3, HeldQuiet
  <2> QED BY <1>5, <2>1, <2>2, <2>3 DEF OpenLog, InitLog
<1>6. CASE ListLiveFiles(h) \/ TakeName(h) \/ Respond(h)
  <2>1. ASSUME ~Finish(h) PROVE Carries(h)
    BY <1>6, <2>1, Request_h DEF ListLiveFiles, TakeName, Respond, Carries, Request
  <2> QED BY <1>1, <2>1, HeldFinish, HeldQuiet
<1> QED BY <1>3, <1>4, <1>5, <1>6

(* Requests that import, record or export, up to the write of the log.     *)
LEMMA HeldRewrite ==
  ASSUME HInv, HeldInv, NEW h \in Handlers,
         \/ ReadLog(h) \/ SetVariable(h) \/ DeleteRows(h) \/ LoadRows(h)
         \/ Record(h) \/ ReadEtag(h) \/ ReadEvents(h) \/ WriteFails(h)
  PROVE  HeldInv'
<1>1. UNCHANGED <<objLog, stored>>
  BY DEF ReadLog, SetVariable, DeleteRows, LoadRows, Record, ReadEtag,
         ReadEvents, WriteFails, bucket
<1>2. CASE Finish(h)
  BY <1>1, <1>2, HeldFinish, HeldQuiet
<1>3. CASE ~Finish(h) /\ (DeleteRows(h) \/ Record(h) \/ ReadEvents(h))
  <2>1. \/ req' = [req EXCEPT ![h].pc = "rows"]
        \/ req' = [req EXCEPT ![h].pc = Start(req[h].op), ![h].first = FALSE]
        \/ req' = [req EXCEPT ![h].pc = "etag"]
        \/ req' = [req EXCEPT ![h].pc = "write", ![h].got = dbs[req[h].db].log]
    BY <1>3 DEF DeleteRows, Record, ReadEvents, Goto
  <2>2. Carries(h)
    BY <2>1, Request_h DEF Start, Carries, Request
  <2> QED BY <1>1, <2>2, HeldQuiet
<1>4. CASE ReadLog(h) \/ SetVariable(h) \/ LoadRows(h) \/ ReadEtag(h)
  <2>1. CASE ReadLog(h) \/ SetVariable(h)
    <3>1. \/ req' = [req EXCEPT ![h].pc = "setvar", ![h].got = objLog]
          \/ req' = [req EXCEPT ![h].pc = "delete", ![h].into = logDB]
      BY <2>1 DEF ReadLog, SetVariable
    <3>2. Carries(h)
      BY <3>1, Request_h DEF Carries, Request
    <3> QED BY <1>1, <3>2, HeldQuiet
  <2>2. CASE LoadRows(h)
    <3> DEFINE pc == IF req[h].first THEN Start(req[h].op)
                     ELSE IF req[h].op = "vacuum" THEN "expired" ELSE "copy"
               db == IF req[h].first THEN req[h].db ELSE logDB
    <3>1. req' = [req EXCEPT ![h] = [req[h] EXCEPT !.first = FALSE, !.db = db,
                                                   !.pc = pc]]
      BY <2>2, Request_h DEF LoadRows, Request
    <3>2. pc # "purge"
      BY DEF Start
    <3> HIDE DEF pc, db
    <3>3. Carries(h)
      BY <3>1, <3>2, Request_h DEF Carries, Request
    <3> QED BY <1>1, <3>3, HeldQuiet
  <2>3. CASE ReadEtag(h)
    <3>1. PICK e : req' = [req EXCEPT ![h].pc = "events", ![h].db = logDB,
                                      ![h].etag = e]
      BY <2>3 DEF ReadEtag
    <3>2. Carries(h)
      BY <3>1, Request_h DEF Carries, Request
    <3> QED BY <1>1, <3>2, HeldQuiet
  <2> QED BY <1>4, <2>1, <2>2, <2>3
<1> QED BY <1>2, <1>3, <1>4 DEF WriteFails

(* A purge deletes expired files of the committed log, which are removed.  *)
LEMMA HeldPurge ==
  ASSUME HInv, HeldInv, NEW h \in Handlers, ListExpired(h) \/ PurgeFile(h)
  PROVE  HeldInv'
<1>1. CASE ListExpired(h)
  <2>1. UNCHANGED <<objLog, stored>> /\ LogJson = objLog
    BY <1>1, Request_h DEF ListExpired, WriterOK, bucket
  <2>2. CASE Finish(h)
    BY <2>1, <2>2, HeldFinish, HeldQuiet
  <2>3. CASE ~Finish(h)
    <3> DEFINE marked == FilesMarkedRemove(LogJson, 0, 0)
    <3>1. /\ req'[h].file = req[h].file
          /\ req'[h].pc = "purge" => req'[h].pending = marked
          /\ \A g \in Handlers \ {h} : req'[g] = req[g]
      BY <1>1, <2>3, Request_h DEF ListExpired, LogJson, Request
    <3>2. marked \subseteq Removed(objLog)
      BY <2>1 DEF FilesMarkedRemove, Removed
    <3> QED BY <2>1, <3>1, <3>2 DEF HeldInv, HeldOK, Readable
  <2> QED BY <2>2, <2>3
<1>2. CASE PurgeFile(h)
  <2>1. PICK f \in req[h].pending :
          /\ stored' = stored \ {f}
          /\ req' = [req EXCEPT ![h].pending = @ \ {f},
                       ![h].pc = IF req[h].pending = {f} THEN "etag" ELSE @]
    BY <1>2 DEF PurgeFile
  <2>2. /\ req[h].pc = "purge" /\ objLog' = objLog
        /\ req[h].pending \subseteq Removed(objLog) /\ req[h].file = Absent
    BY <1>2, Request_h DEF PurgeFile, HeldInv, HeldOK, FileOK
  <2>3. /\ req'[h].file = Absent /\ req'[h].pending \subseteq req[h].pending
        /\ \A g \in Handlers \ {h} : req'[g] = req[g]
    BY <2>1, <2>2, Request_h DEF Request
  <2>4. ASSUME NEW g \in Handlers \ {h} PROVE req[g].file = Absent
    <3>1. req[g].pc = "idle" \/ Looking(g)
      BY <2>2, Exclusive DEF Holding, Rewriting
    <3> QED BY <3>1, Request_h DEF FileOK, Looking
  <2>5. f \notin FilesLive(objLog)
    BY <2>2 DEF FilesLive
  <2> QED BY <2>1, <2>2, <2>3, <2>4, <2>5 DEF HeldInv, HeldOK, Readable
<1> QED BY <1>1, <1>2

(* A new file is an object before its request can commit it.               *)
LEMMA HeldCopy ==
  ASSUME HInv, HeldInv, NEW h \in Handlers, Copy(h)
  PROVE  HeldInv'
<1>1. req[h].pc = "copy" /\ objLog' = objLog
  BY DEF Copy
<1>2. CASE Finish(h) /\ UNCHANGED stored
  BY <1>1, <1>2, HeldFinish, HeldQuiet
<1>3. CASE \E f \in Files : /\ stored' = stored \cup {f}
                            /\ req' = [req EXCEPT ![h].pc = "record", ![h].file = f]
  <2>1. PICK f \in Files : /\ stored' = stored \cup {f}
                           /\ req' = [req EXCEPT ![h].pc = "record", ![h].file = f]
    BY <1>3
  <2>2. /\ req'[h].file = f /\ req'[h].pc = "record"
        /\ \A g \in Handlers \ {h} : req'[g] = req[g]
    BY <2>1, Request_h DEF Request
  <2>3. stored' = stored \cup {f}
    BY <2>1
  <2>4. Readable'
    BY <1>1, <2>3 DEF HeldInv, Readable
  <2>5. HeldOK(h)'
    BY <2>2, <2>3 DEF HeldOK
  <2>6. ASSUME NEW g \in Handlers \ {h} PROVE HeldOK(g)'
    <3>1. HeldOK(g) /\ req'[g] = req[g]
      BY <2>2 DEF HeldInv
    <3> QED BY <1>1, <2>3, <3>1 DEF HeldOK
  <2> QED BY <2>4, <2>5, <2>6 DEF HeldInv
<1> QED BY <1>2, <1>3 DEF Copy

(* The files that the new version of the log lists are in the bucket.      *)
LEMMA HeldWrite ==
  ASSUME HInv, HeldInv, NEW h \in Handlers, WriteLog(h)
  PROVE  HeldInv'
<1>1. /\ req[h].pc = "write" /\ Finish(h) /\ UNCHANGED stored
      /\ objLog' = NewLog(h)
  BY WriteLogRows DEF WriteLog
<1>2. Readable'
  BY <1>1, NewLogLive DEF HeldInv, HeldOK, Readable
<1>3. ASSUME NEW g \in Handlers PROVE HeldOK(g)'
  <2>1. CASE g = h
    BY <1>1, <2>1, FinishTyped, NoRequestType DEF HInv, HeldOK
  <2>2. CASE g # h
    <3>1. req'[g] = req[g]
      BY <1>1, <2>2, FinishTyped DEF HInv
    <3>2. req[g].pc = "idle" \/ Looking(g)
      BY <1>1, <2>2, Exclusive DEF Holding, Rewriting
    <3> QED BY <1>1, <3>1, <3>2 DEF HeldInv, HeldOK, Looking
  <2> QED BY <2>1, <2>2
<1> QED BY <1>2, <1>3 DEF HeldInv

(* Every step keeps the live files in the bucket. *)
LEMMA HeldStep ==
  ASSUME HInv, HeldInv, [Next]_vars
  PROVE  HeldInv'
<1>1. ASSUME NEW h \in Handlers, Step(h) PROVE HeldInv'
  BY <1>1, HeldOpen, HeldRewrite, HeldPurge, HeldCopy, HeldWrite DEF Step
<1>2. ASSUME NEW h \in Handlers, NEW op \in AllOps, Begin(h, op) PROVE HeldInv'
  BY <1>2, HeldOpen
<1>3. CASE Crash
  <2>1. UNCHANGED <<objLog, stored>> /\ \A h \in Handlers : req'[h] = NoRequest
    BY <1>3 DEF Crash, Cold, bucket
  <2> QED BY <2>1, NoRequestType DEF HeldInv, HeldOK, Readable
<1>4. CASE UNCHANGED vars
  BY <1>4 DEF HeldInv, HeldOK, Readable, vars, bucket
<1> QED BY <1>1, <1>2, <1>3, <1>4 DEF Next, Rest

(* The live files are in the bucket in every reachable state.              *)
LEMMA HeldInvariance ==
  ASSUME QuietVacuum
  PROVE  Spec => []HeldInv
<1>1. Init => HeldInv
  BY NoRequestType
     DEF Init, Cold, HeldInv, HeldOK, Readable, InsertAdd, InsertMetaData,
         EmptyLog, FilesLive, Removed
<1>2. HInv /\ HeldInv /\ [Next]_vars => HeldInv'
  BY HeldStep
<1> QED BY <1>1, <1>2, HInvariance, PTL DEF Spec

(* A row whose INSERT was answered with success stays, in the log and in   *)
(* the bucket: no Export and no Merge loses it, in whatever order requests *)
(* run beside each other, and over restarts.                               *)
THEOREM AckedRowsStay ==
  ASSUME QuietVacuum
  PROVE  Spec => []AckedRowsDurable
<1>1. HInv /\ HeldInv => AckedRowsDurable
  <2> SUFFICES ASSUME HInv, HeldInv PROVE AckedRowsDurable
    OBVIOUS
  <2>1. FilesLive(objLog) \cap stored = FilesLive(objLog)
    BY DEF HeldInv, Readable
  <2> QED BY <2>1 DEF HInv, VersionOK, AckedRowsDurable, RowsHeld, RowsOf
<1> QED BY <1>1, HInvariance, HeldInvariance, PTL

(* The requests of a process together behave as one table: an INSERT takes *)
(* effect when its Export writes the log, nothing else changes it, and the *)
(* files that a SELECT reads are in the bucket.                            *)
THEOREM RequestsShareOneTable ==
  ASSUME QuietVacuum
  PROVE  Spec => ImplementsTable
<1>1. Init => T!Init
  <2> SUFFICES ASSUME Init PROVE T!Init
    OBVIOUS
  <2>1. PICK f \in Files, t \in TableIds :
          /\ objLog = InsertAdd(InsertMetaData(EmptyLog, t), f)
          /\ acked = {f} /\ stored = {f}
          /\ content = [g \in Files |-> IF g = f THEN [rows |-> {f}] ELSE Absent]
    BY DEF Init
  <2>2. FilesLive(objLog) = {f} /\ objLog.meta = <<t>>
    BY <2>1 DEF InsertAdd, InsertMetaData, EmptyLog, FilesLive, Removed
  <2>3. RowsOf(objLog) = {f} /\ Readable /\ SchemaOf(objLog) = t
    BY <2>1, <2>2 DEF RowsOf, Readable, SchemaOf
  <2> QED BY <2>1, <2>3 DEF T!Init
<1>2. HInv /\ HeldInv /\ HeldInv' /\ [Next]_vars => [T!Next]_(T!vars)
  <2> SUFFICES ASSUME HInv, HeldInv, HeldInv', [Next]_vars
               PROVE  [T!Next]_(T!vars)
    OBVIOUS
  <2>1. Readable /\ Readable'
    BY DEF HeldInv
  <2>2. SchemaOf(objLog)' = SchemaOf(objLog)
    <3>1. CASE \E h \in Handlers : WriteLog(h)
      <4>1. PICK h \in Handlers : WriteLog(h)
        BY <3>1
      <4>2. objLog' = NewLog(h) /\ NewLog(h).meta = objLog.meta
        BY <4>1, WriteLogRows DEF NewLog, InsertAdd, MergeEvents
      <4> QED BY <4>2 DEF SchemaOf
    <3> QED BY <3>1, TableSteps
  <2>3. CASE RowsOf(objLog)' = RowsOf(objLog) /\ acked' = acked
    BY <2>1, <2>2, <2>3 DEF T!vars
  <2>4. ASSUME NEW h \in Handlers, WriteLog(h), acked' # acked \/ RowsOf(objLog)' # RowsOf(objLog)
        PROVE  T!Next
    <3>1. /\ req[h].file \in Files /\ req[h].file \notin RowsOf(objLog)
          /\ RowsOf(objLog)' = RowsOf(objLog) \cup {req[h].file}
          /\ acked' \in {acked, acked \cup {req[h].file}}
      BY <2>4, WriteLogRows
    <3>2. T!Insert(req[h].file)
      BY <2>1, <2>2, <3>1 DEF T!Insert
    <3> QED BY <3>1, <3>2 DEF T!Next
  <2> QED BY <2>3, <2>4, TableSteps
<1> QED
  BY <1>1, <1>2, HInvariance, HeldInvariance, PTL
  DEF Spec, ImplementsTable, T!Spec

=============================================================================
