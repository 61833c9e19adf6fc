--------------------------- MODULE DuckpondProofs ---------------------------
(***************************************************************************)
(* Proofs about Duckpond, for every number of servers, files, requests and *)
(* failures.                                                               *)
(***************************************************************************)
EXTENDS Duckpond, DeltaLogProofs

-----------------------------------------------------------------------------
(* A server without a request has the shape of one. *)
LEMMA NoRequestType == NoRequest \in Request
BY DEF NoRequest, Request

-----------------------------------------------------------------------------
(***************************************************************************)
(* Types.  TypeOK alone is not inductive: a step reads the LOG database    *)
(* its request opened, the content of the files a log lists, and fields of *)
(* the request that only some statements fill.                             *)
(***************************************************************************)
Written == {f \in Files : content[f] # Absent}

(* Every log lists only files that were written. *)
LogsListWritten ==
  /\ objLog # Absent => objLog.add \subseteq Written
  /\ \A t \in Servers :
       /\ logDB[t] # Absent => logDB[t].log.add \subseteq Written
       /\ req[t].snap # Absent => req[t].snap.add \subseteq Written

(* What a request under way has set up. *)
RequestOK(t) ==
  /\ req[t].pc # "idle" => logDB[t] # Absent
  /\ req[t].pc = "view" => req[t].op \in {"select", "vacuum"}
  /\ req[t].pc = "import" /\ req[t].op \in {"create", "replace"}
       => req[t].tmp \in TableIds
  /\ req[t].pc # "idle" /\ req[t].op = "insert" => req[t].tmp \in TableIds
  /\ req[t].pc = "export" /\ req[t].op = "insert" => req[t].file \in Files
  /\ req[t].pc = "copy" /\ req[t].tmp = View
       => req[t].snap # Absent /\ HasTable(req[t].snap)
  /\ req[t].pc = "purge" => req[t].op = "vacuum"

TypeInv ==
  /\ TypeOK
  /\ LogsListWritten
  /\ \A t \in Servers : RequestOK(t)

(* The initial states satisfy the type invariant. *)
LEMMA InitTypeInv == Init => TypeInv
<1> SUFFICES ASSUME Init PROVE TypeInv
  OBVIOUS
<1> USE ConstantsAssumption
<1>1. /\ logDB \in [Servers -> DB \cup {Absent}]
      /\ req \in [Servers -> Request]
      /\ {clock, requests, faults, crashes} \subseteq Nat
      /\ \A t \in Servers : RequestOK(t) /\ req[t].snap = Absent
      /\ \A t \in Servers : logDB[t] = Absent
  BY NoRequestType DEF Init, RequestOK, NoRequest
<1>2. CASE ~Seeded
  BY <1>1, <1>2 DEF Init, TypeInv, TypeOK, LogsListWritten
<1>3. CASE Seeded
  <2>1. PICK f \in Files, t \in TableIds :
          /\ objLog = InsertAdd(InsertMetaData(EmptyLog, t), f)
          /\ stored = {f} /\ acked = {f} /\ minted = {t}
          /\ content = [g \in Files |->
                          IF g = f THEN [rows |-> {f}, table |-> t] ELSE Absent]
    BY <1>3 DEF Init
  <2>2. objLog \in Log /\ objLog.add = {f}
    BY <2>1, LogStatements, EmptyLogType DEF InsertAdd, InsertMetaData
  <2>3. content \in [Files -> Content \cup {Absent}] /\ Written = {f}
    <3>1. [rows |-> {f}, table |-> t] \in Content
      BY DEF Content
    <3> QED BY <2>1, <3>1 DEF Written
  <2> QED BY <1>1, <2>1, <2>2, <2>3 DEF TypeInv, TypeOK, LogsListWritten
<1> QED BY <1>2, <1>3

(* The LOG database of a request under way, as an import leaves it. *)
LEMMA ImportedType ==
  ASSUME TypeInv, NEW s \in Servers, logDB[s] # Absent,
         NEW got \in {objLog, Absent}
  PROVE  /\ Imported(s, got) \in DB
         /\ Imported(s, got).log \in Log
         /\ Imported(s, got).etag \in Log \cup {Absent}
         /\ Imported(s, got).log.add \subseteq Written
BY DEF TypeInv, TypeOK, LogsListWritten, Imported, ImportPersistedLog, DB

(* A request leaves its server with an open LOG database. *)
LEMMA GetLogDBType ==
  ASSUME TypeInv, NEW s \in Servers, GetLogDB(s)
  PROVE  /\ logDB' \in [Servers -> DB \cup {Absent}]
         /\ logDB'[s] \in DB
         /\ logDB'[s] # Absent
         /\ logDB'[s].log \in Log
         /\ logDB'[s].log.add \subseteq Written
         /\ \A t \in Servers \ {s} : logDB'[t] = logDB[t]
         /\ faults' \in Nat
<1> USE ConstantsAssumption DEF TypeInv, TypeOK, DB
<1>1. CASE logDB[s] # Absent /\ UNCHANGED <<logDB, faults>>
  BY <1>1 DEF LogsListWritten
<1>2. CASE logDB[s] = Absent /\ \E got \in {objLog, Absent} :
             /\ ReadLog(got)
             /\ logDB' = [logDB EXCEPT ![s] = ImportPersistedLog(FreshDB, got)]
  <2>1. PICK got \in {objLog, Absent} :
          /\ ReadLog(got)
          /\ logDB' = [logDB EXCEPT ![s] = ImportPersistedLog(FreshDB, got)]
    BY <1>2
  <2>2. FreshDB \in DB /\ FreshDB.log.add = {}
    BY EmptyLogType DEF FreshDB
  <2>3. /\ ImportPersistedLog(FreshDB, got) \in DB
        /\ ImportPersistedLog(FreshDB, got).log.add \subseteq Written
    BY <2>2 DEF ImportPersistedLog, LogsListWritten
  <2>4. faults' \in Nat
    BY <2>1 DEF ReadLog, Fault
  <2> QED BY <2>1, <2>3, <2>4
<1> QED BY <1>1, <1>2 DEF GetLogDB

(* A step on one server preserves the invariant when it does so for that   *)
(* server's request, its LOG database and the bucket.                      *)
LEMMA OneServerStep ==
  ASSUME TypeInv, NEW s \in Servers,
         TypeOK', Written \subseteq Written',
         objLog' # Absent => objLog'.add \subseteq Written',
         logDB'[s] # Absent => logDB'[s].log.add \subseteq Written',
         req'[s].snap # Absent => req'[s].snap.add \subseteq Written',
         RequestOK(s)',
         \A t \in Servers \ {s} : logDB'[t] = logDB[t] /\ req'[t] = req[t]
  PROVE  TypeInv'
BY DEF TypeInv, LogsListWritten, RequestOK

(* The arrival of a request preserves the type invariant. *)
LEMMA BeginTypeInv ==
  ASSUME TypeInv, NEW s \in Servers, Begin(s)
  PROVE  TypeInv'
<1> USE ConstantsAssumption
<1>1. ASSUME NEW o \in AllOps, StartRequest(s, o),
             minted' \in SUBSET TableIds,
             NEW r \in Request, req' = [req EXCEPT ![s] = r],
             r.snap = Absent,
             r.pc = "view" => r.op \in {"select", "vacuum"},
             r.pc = "import" /\ r.op \in {"create", "replace"}
               => r.tmp \in TableIds,
             r.pc # "idle" /\ r.op = "insert" => r.tmp \in TableIds,
             r.pc \notin {"copy", "export", "purge"}
      PROVE  TypeInv'
  <2>1. /\ logDB' \in [Servers -> DB \cup {Absent}]
        /\ logDB'[s] \in DB /\ logDB'[s] # Absent
        /\ logDB'[s].log.add \subseteq Written
        /\ \A t \in Servers \ {s} : logDB'[t] = logDB[t]
        /\ faults' \in Nat
    BY <1>1, GetLogDBType DEF StartRequest
  <2>2. /\ UNCHANGED <<objLog, stored, content, acked, clock, crashes>>
        /\ requests' \in Nat
    BY <1>1 DEF StartRequest, TypeInv, TypeOK
  <2>3. req' \in [Servers -> Request] /\ req'[s] = r
    BY <1>1 DEF TypeInv, TypeOK
  <2>4. TypeOK' /\ Written' = Written
    BY <1>1, <2>1, <2>2, <2>3 DEF TypeInv, TypeOK, Written
  <2>5. RequestOK(s)'
    BY <1>1, <2>1, <2>3 DEF RequestOK
  <2>6. objLog' # Absent => objLog'.add \subseteq Written'
    BY <2>2, <2>4 DEF TypeInv, LogsListWritten
  <2> QED BY <1>1, <2>1, <2>3, <2>4, <2>5, <2>6, OneServerStep
<1>2. ASSUME NEW o \in AllOps, StartRequest(s, o), UNCHANGED <<minted, req>>
      PROVE  TypeInv'
  <2>1. /\ logDB' \in [Servers -> DB \cup {Absent}]
        /\ logDB'[s] \in DB /\ logDB'[s] # Absent
        /\ logDB'[s].log.add \subseteq Written
        /\ \A t \in Servers \ {s} : logDB'[t] = logDB[t]
        /\ faults' \in Nat
    BY <1>2, GetLogDBType DEF StartRequest
  <2>2. /\ UNCHANGED <<objLog, stored, content, acked, clock, crashes>>
        /\ requests' \in Nat /\ req[s].pc = "idle"
    BY <1>2 DEF StartRequest, TypeInv, TypeOK
  <2>3. TypeOK' /\ Written' = Written
    BY <1>2, <2>1, <2>2 DEF TypeInv, TypeOK, Written
  <2>4. RequestOK(s)'
    BY <1>2, <2>1, <2>2 DEF RequestOK
  <2> QED
    BY <1>2, <2>1, <2>2, <2>3, <2>4, OneServerStep
    DEF TypeInv, LogsListWritten
<1>3. GetLogDB(s) => /\ logDB'[s].log \in Log
                     /\ HasTable(logDB'[s].log) => SchemaOf(logDB'[s].log) \in TableIds
                     /\ FilesAll(logDB'[s].log) \subseteq Files
  BY GetLogDBType, LogQueries
<1>4. ASSUME NEW o \in AllOps, BeginCreate(s, o) PROVE TypeInv'
  <2>1. CASE UNCHANGED <<req, minted>>
    BY <1>2, <1>4, <2>1 DEF BeginCreate
  <2>2. CASE \E t \in TableIds \ minted :
               /\ minted' = minted \cup {t}
               /\ req' = [req EXCEPT ![s] = [NoRequest EXCEPT
                            !.pc = "import", !.op = o, !.tmp = t]]
    <3>1. PICK t \in TableIds \ minted :
               /\ minted' = minted \cup {t}
               /\ req' = [req EXCEPT ![s] = [NoRequest EXCEPT
                            !.pc = "import", !.op = o, !.tmp = t]]
      BY <2>2
    <3> DEFINE r == [NoRequest EXCEPT !.pc = "import", !.op = o, !.tmp = t]
    <3>2. /\ r \in Request /\ r.snap = Absent /\ r.pc = "import"
          /\ r.op = o /\ r.tmp \in TableIds
      BY NoRequestType, <1>4 DEF NoRequest, Request, BeginCreate
    <3>3. minted' \in SUBSET TableIds /\ req' = [req EXCEPT ![s] = r]
      BY <3>1 DEF TypeInv, TypeOK
    <3> HIDE DEF r
    <3> QED BY <1>1, <1>4, <3>2, <3>3 DEF BeginCreate
  <2> QED BY <1>4, <2>1, <2>2 DEF BeginCreate
<1>5. ASSUME BeginInsert(s) PROVE TypeInv'
  <2> DEFINE o == "insert"
  <2>1. StartRequest(s, o) /\ UNCHANGED minted /\ o \in AllOps
    BY <1>5 DEF BeginInsert, AllOps
  <2>2. CASE UNCHANGED req
    BY <1>2, <2>1, <2>2
  <2>3. CASE /\ HasTable(logDB'[s].log)
             /\ req' = [req EXCEPT ![s] = [NoRequest EXCEPT
                     !.pc = "import", !.op = "insert",
                     !.tmp = SchemaOf(logDB'[s].log)]]
    <3> DEFINE t == SchemaOf(logDB'[s].log)
               r == [NoRequest EXCEPT !.pc = "import", !.op = "insert", !.tmp = t]
    <3>1. t \in TableIds
      BY <1>3, <2>1, <2>3 DEF StartRequest
    <3> HIDE DEF t
    <3>2. /\ r \in Request /\ r.snap = Absent /\ r.pc = "import"
          /\ r.op = "insert" /\ r.tmp \in TableIds
      BY NoRequestType, <3>1 DEF NoRequest, Request, AllOps
    <3>3. minted' \in SUBSET TableIds /\ req' = [req EXCEPT ![s] = r]
      BY <2>1, <2>3 DEF TypeInv, TypeOK, t
    <3> HIDE DEF r
    <3> QED BY <1>1, <2>1, <3>2, <3>3
  <2> QED BY <1>5, <2>2, <2>3 DEF BeginInsert
<1>6. ASSUME NEW o \in AllOps, BeginRead(s, o) PROVE TypeInv'
  <2> DEFINE l == logDB'[s].log
             r == [NoRequest EXCEPT !.op = o,
                      !.floor = IF o = "select" THEN acked ELSE {}]
             next == IF o = "select" THEN "answer" ELSE "import"
  <2>1. /\ StartRequest(s, o) /\ UNCHANGED minted /\ o \in {"select", "vacuum"}
        /\ minted' \in SUBSET TableIds
    BY <1>6 DEF BeginRead, TypeInv, TypeOK
  <2>2. CASE UNCHANGED req
    BY <1>2, <2>1, <2>2
  <2>3. CASE req' = [req EXCEPT ![s] = [r EXCEPT !.pc = "view"]]
    <3> DEFINE q == [r EXCEPT !.pc = "view"]
    <3>1. /\ q \in Request /\ q.snap = Absent /\ q.pc = "view" /\ q.op = o
      BY NoRequestType DEF NoRequest, Request, TypeInv, TypeOK
    <3>2. req' = [req EXCEPT ![s] = q]
      BY <2>3
    <3> HIDE DEF q
    <3> QED BY <1>1, <2>1, <3>1, <3>2
  <2>4. CASE HasTable(l) /\ req' = [req EXCEPT ![s] = [r EXCEPT
                               !.pc = next, !.tmp = SchemaOf(l)]]
    <3> DEFINE t == SchemaOf(l)
               q == [r EXCEPT !.pc = next, !.tmp = t]
    <3>1. t \in TableIds
      BY <1>3, <2>1, <2>4 DEF StartRequest
    <3> HIDE DEF t
    <3>2. /\ q \in Request /\ q.snap = Absent /\ q.pc \in {"answer", "import"}
          /\ q.op = o /\ q.tmp \in TableIds
      BY NoRequestType, <3>1 DEF NoRequest, Request, TypeInv, TypeOK
    <3>3. req' = [req EXCEPT ![s] = q]
      BY <2>4 DEF t
    <3> HIDE DEF q
    <3> QED BY <1>1, <2>1, <3>2, <3>3
  <2>5. CASE o = "vacuum" /\ req' = [req EXCEPT ![s] = [r EXCEPT !.pc = "import"]]
    <3> DEFINE q == [r EXCEPT !.pc = "import"]
    <3>1. /\ q \in Request /\ q.snap = Absent /\ q.pc = "import"
          /\ q.op = "vacuum"
      BY NoRequestType, <2>5 DEF NoRequest, Request, TypeInv, TypeOK
    <3>2. req' = [req EXCEPT ![s] = q]
      BY <2>5
    <3> HIDE DEF q
    <3> QED BY <1>1, <2>1, <3>1, <3>2
  <2> QED BY <1>6, <2>2, <2>3, <2>4, <2>5 DEF BeginRead
<1>7. ASSUME BeginDrop(s) PROVE TypeInv'
  <2> DEFINE o == "drop"
             p == FilesAll(logDB'[s].log)
             r == [NoRequest EXCEPT !.pc = "unlink", !.op = "drop", !.pending = p]
  <2>1. StartRequest(s, o) /\ minted' \in SUBSET TableIds /\ o \in AllOps
    BY <1>7 DEF BeginDrop, AllOps, TypeInv, TypeOK
  <2>2. p \in SUBSET Files
    BY <1>3, <2>1 DEF StartRequest
  <2>3. req' = [req EXCEPT ![s] = r]
    BY <1>7 DEF BeginDrop
  <2> HIDE DEF p
  <2>4. /\ r \in Request /\ r.snap = Absent /\ r.pc = "unlink"
        /\ r.op = "drop"
    BY NoRequestType, <2>2 DEF NoRequest, Request, AllOps
  <2> HIDE DEF r
  <2> QED BY <1>1, <2>1, <2>3, <2>4
<1> QED BY <1>4, <1>5, <1>6, <1>7 DEF Begin

(* A request that ends leaves nothing to preserve on its server. *)
LEMMA FinishOK ==
  ASSUME TypeInv, NEW s \in Servers, Finish(s)
  PROVE  /\ req' \in [Servers -> Request]
         /\ req'[s].snap = Absent
         /\ RequestOK(s)'
         /\ \A t \in Servers \ {s} : req'[t] = req[t]
<1>1. req' \in [Servers -> Request] /\ req'[s] = NoRequest
  BY NoRequestType DEF TypeInv, TypeOK, Finish
<1>2. \A t \in Servers \ {s} : req'[t] = req[t]
  BY DEF TypeInv, TypeOK, Finish
<1> QED BY <1>1, <1>2 DEF NoRequest, RequestOK

(* The steps that open and read the view preserve the type invariant. *)
LEMMA ReadStepsTypeInv ==
  ASSUME TypeInv, NEW s \in Servers, CreateView(s) \/ BindView(s) \/ Respond(s)
  PROVE  TypeInv'
<1> USE ConstantsAssumption
<1>1. /\ UNCHANGED <<objLog, stored, content, logDB, minted, acked, clock,
                     requests, faults, crashes>>
      /\ Written' = Written
  BY DEF CreateView, BindView, Respond, Written
<1>2. CASE Finish(s)
  BY <1>1, <1>2, FinishOK, OneServerStep DEF TypeInv, TypeOK, LogsListWritten
<1>3. CASE /\ req[s].pc = "view"
           /\ req' = [req EXCEPT ![s].tmp = View,
                        ![s].pc = IF req[s].op = "select" THEN "bind"
                                  ELSE "import"]
  <2>1. /\ req' \in [Servers -> Request]
        /\ req'[s].tmp = View /\ req'[s].pc \in {"bind", "import"}
        /\ req'[s].op = req[s].op /\ req'[s].snap = req[s].snap
        /\ \A t \in Servers \ {s} : req'[t] = req[t]
    BY <1>3 DEF TypeInv, TypeOK, Request
  <2>2. req[s].op \notin {"create", "replace", "insert"}
    BY <1>3 DEF TypeInv, RequestOK
  <2>3. RequestOK(s)'
    BY <1>1, <1>3, <2>1, <2>2 DEF TypeInv, RequestOK
  <2> QED
    BY <1>1, <2>1, <2>3, OneServerStep DEF TypeInv, TypeOK, LogsListWritten
<1>4. CASE /\ req[s].pc = "bind" /\ Bindable
           /\ req' = [req EXCEPT ![s].snap = objLog,
                        ![s].pc = IF req[s].op = "select" THEN "answer"
                                  ELSE "copy"]
  <2>1. /\ req' \in [Servers -> Request]
        /\ req'[s].snap = objLog /\ req'[s].pc \in {"answer", "copy"}
        /\ req'[s].op = req[s].op /\ req'[s].tmp = req[s].tmp
        /\ \A t \in Servers \ {s} : req'[t] = req[t]
    BY <1>4 DEF TypeInv, TypeOK, Request
  <2>2. RequestOK(s)'
    BY <1>1, <1>4, <2>1 DEF TypeInv, RequestOK, Bindable
  <2> QED
    BY <1>1, <2>1, <2>2, OneServerStep DEF TypeInv, TypeOK, LogsListWritten
<1> QED BY <1>2, <1>3, <1>4 DEF CreateView, BindView, Respond

(* The import of withPersistedLog, with what LogDDL, Insert and Merge do   *)
(* right after it, preserves the type invariant.                           *)
LEMMA ImportStepsTypeInv ==
  ASSUME TypeInv, NEW s \in Servers,
         LogDDL(s) \/ InsertImport(s) \/ MergeImport(s)
  PROVE  TypeInv'
<1> USE ConstantsAssumption
<1>1. ASSUME NEW ops, AtImport(s, ops), NEW got \in {objLog, Absent}, ReadLog(got),
             NEW db \in DB, logDB' = [logDB EXCEPT ![s] = db],
             db.log.add = Imported(s, got).log.add,
             NEW next \in {"copy", "export", "purge", "bind"},
             NEW pending \in SUBSET Files,
             req' = [req EXCEPT ![s].pc = next, ![s].pending = pending],
             next = "copy" => req[s].tmp # View,
             next = "export" => req[s].op # "insert",
             next = "purge" => req[s].op = "vacuum"
      PROVE  TypeInv'
  <2>1. /\ UNCHANGED <<objLog, stored, content, minted, acked, clock, requests,
                       crashes>>
        /\ req[s].pc = "import" /\ Written' = Written
    BY <1>1 DEF AtImport, Written
  <2>2. logDB[s] # Absent
    BY <2>1 DEF TypeInv, RequestOK
  <2>3. db.log.add \subseteq Written
    BY <1>1, <2>2, ImportedType
  <2>4. /\ logDB' \in [Servers -> DB \cup {Absent}]
        /\ logDB'[s] = db /\ db # Absent
        /\ \A t \in Servers \ {s} : logDB'[t] = logDB[t]
    BY <1>1 DEF TypeInv, TypeOK
  <2>5. /\ req' \in [Servers -> Request]
        /\ req'[s].pc = next
        /\ req'[s].op = req[s].op /\ req'[s].tmp = req[s].tmp
        /\ req'[s].snap = req[s].snap
        /\ \A t \in Servers \ {s} : req'[t] = req[t]
    <3> DEFINE r == [req[s] EXCEPT !.pc = next, !.pending = pending]
    <3>1. req \in [Servers -> Request] /\ req' = [req EXCEPT ![s] = r]
      BY <1>1 DEF TypeInv, TypeOK
    <3>2. /\ r \in Request /\ r.pc = next /\ r.op = req[s].op
          /\ r.tmp = req[s].tmp /\ r.snap = req[s].snap
      BY <1>1, <3>1 DEF Request
    <3> HIDE DEF r
    <3> QED BY <3>1, <3>2
  <2>6. RequestOK(s)'
    BY <1>1, <2>1, <2>4, <2>5 DEF TypeInv, RequestOK
  <2>7. faults' \in Nat
    BY <1>1 DEF ReadLog, Fault, TypeInv, TypeOK
  <2> QED
    BY <2>1, <2>3, <2>4, <2>5, <2>6, <2>7, OneServerStep
    DEF TypeInv, TypeOK, LogsListWritten
<1>2. req[s].pending \in SUBSET Files /\ req \in [Servers -> Request]
  BY DEF TypeInv, TypeOK, Request
<1>3. CASE LogDDL(s)
  <2>1. PICK got \in {objLog, Absent} :
          /\ ReadLog(got)
          /\ SetLogDB(s, InsertMetaData(Imported(s, got).log, req[s].tmp),
                      Imported(s, got).etag)
    BY <1>3 DEF LogDDL
  <2> DEFINE l == InsertMetaData(Imported(s, got).log, req[s].tmp)
             db == [log |-> l, etag |-> Imported(s, got).etag]
  <2>2. /\ AtImport(s, {"create", "replace"})
        /\ req[s].pc = "import" /\ req[s].op \in {"create", "replace"}
        /\ req[s].tmp \in TableIds /\ logDB[s] # Absent
        /\ req' = [req EXCEPT ![s].pc = "export"]
    BY <1>3 DEF LogDDL, AtImport, TypeInv, RequestOK
  <2>3. l \in Log /\ l.add = Imported(s, got).log.add
    BY <2>2, ImportedType, LogStatements DEF InsertMetaData
  <2>4. /\ db \in DB /\ db.log.add = Imported(s, got).log.add
        /\ logDB' = [logDB EXCEPT ![s] = db]
    BY <2>1, <2>2, <2>3, ImportedType DEF DB, SetLogDB
  <2>5. req' = [req EXCEPT ![s].pc = "export", ![s].pending = req[s].pending]
    BY <1>2, <2>2 DEF Request
  <2> HIDE DEF db
  <2> QED BY <1>1, <1>2, <2>1, <2>2, <2>4, <2>5
<1>4. CASE InsertImport(s)
  <2>1. PICK got \in {objLog, Absent} :
          ReadLog(got) /\ logDB' = [logDB EXCEPT ![s] = Imported(s, got)]
    BY <1>4 DEF InsertImport
  <2>2. /\ AtImport(s, {"insert"}) /\ logDB[s] # Absent
        /\ req[s].tmp \in TableIds
        /\ req' = [req EXCEPT ![s].pc = "copy"]
    BY <1>4 DEF InsertImport, AtImport, TypeInv, RequestOK
  <2>3. req' = [req EXCEPT ![s].pc = "copy", ![s].pending = req[s].pending]
    BY <1>2, <2>2 DEF Request
  <2>4. Imported(s, got) \in DB
    BY <2>2, ImportedType
  <2> QED BY <1>1, <1>2, <2>1, <2>2, <2>3, <2>4
<1>5. CASE MergeImport(s)
  <2>1. PICK got \in {objLog, Absent} :
          LET marked == FilesMarkedRemove(Imported(s, got).log, clock, TTL) IN
          /\ ReadLog(got)
          /\ logDB' = [logDB EXCEPT ![s] = Imported(s, got)]
          /\ req' = [req EXCEPT
                       ![s].pending = marked,
                       ![s].pc = IF marked # {} THEN "purge"
                                 ELSE IF req[s].tmp = View THEN "bind" ELSE "copy"]
    BY <1>5 DEF MergeImport
  <2> DEFINE marked == FilesMarkedRemove(Imported(s, got).log, clock, TTL)
             next == IF marked # {} THEN "purge"
                     ELSE IF req[s].tmp = View THEN "bind" ELSE "copy"
  <2>2. AtImport(s, {"vacuum"}) /\ logDB[s] # Absent /\ req[s].op = "vacuum"
    BY <1>5 DEF MergeImport, AtImport, TypeInv, RequestOK
  <2>3. Imported(s, got) \in DB /\ marked \in SUBSET Files
    BY <2>2, ImportedType, LogQueries DEF TypeInv, TypeOK
  <2>4. req' = [req EXCEPT ![s].pc = next, ![s].pending = marked]
    BY <1>2, <2>1 DEF Request
  <2>5. /\ next \in {"copy", "export", "purge", "bind"}
        /\ next = "copy" => req[s].tmp # View
        /\ next # "export"
    OBVIOUS
  <2> HIDE DEF next, marked
  <2> QED BY <1>1, <2>1, <2>2, <2>3, <2>4, <2>5
<1> QED BY <1>3, <1>4, <1>5

(* The content that a COPY writes is content. *)
LEMMA NewContentType ==
  ASSUME TypeInv, NEW s \in Servers, NEW f \in Files,
         req[s].pc = "copy", Copyable(s)
  PROVE  NewContent(s, f) \in Content
<1> USE ConstantsAssumption
<1>1. CASE req[s].op = "insert"
  <2>1. req[s].tmp \in TableIds
    BY <1>1 DEF TypeInv, RequestOK
  <2> QED BY <1>1, <2>1 DEF NewContent, Content
<1>2. CASE req[s].op # "insert" /\ req[s].tmp = View
  <2> DEFINE l == req[s].snap
  <2>1. l \in Log /\ l # Absent /\ HasTable(l) /\ l.add \subseteq Written
    BY <1>2 DEF TypeInv, TypeOK, LogsListWritten, RequestOK, Request
  <2>2. \A g \in FilesLive(l) : content[g] \in Content
    BY <2>1, LogQueries DEF Written, TypeInv, TypeOK
  <2>3. \A g \in FilesLive(l) : content[g].rows \subseteq Files
    BY <2>2 DEF Content
  <2>4. RowsOf(l) \subseteq Files
    BY <2>1, <2>3 DEF RowsOf
  <2>5. SchemaOf(l) \in TableIds
    BY <2>1, LogQueries
  <2> QED BY <1>2, <2>4, <2>5 DEF NewContent, Content
<1>3. CASE req[s].op # "insert" /\ req[s].tmp # View
  <2>1. req[s].tmp \in TableIds
    BY <1>3 DEF Copyable, TypeInv, TypeOK, Request
  <2> QED BY <1>3, <2>1 DEF NewContent, Content
<1> QED BY <1>1, <1>2, <1>3

(* Writing a parquet object adds one file to those written. *)
LEMMA WriteParquetType ==
  ASSUME TypeInv, NEW f \in Files, NEW c \in Content, WriteParquet(f, c)
  PROVE  /\ content' \in [Files -> Content \cup {Absent}]
         /\ stored' \in SUBSET Files
         /\ Written' = Written \cup {f}
<1> USE ConstantsAssumption
<1>1. content' \in [Files -> Content \cup {Absent}] /\ stored' \in SUBSET Files
  BY DEF WriteParquet, TypeInv, TypeOK
<1>2. /\ content'[f] = c /\ c # Absent
      /\ \A g \in Files \ {f} : content'[g] = content[g]
  BY DEF WriteParquet, TypeInv, TypeOK
<1> QED BY <1>1, <1>2 DEF Written

(* A COPY, done or failed, preserves the type invariant. *)
LEMMA CopyStepsTypeInv ==
  ASSUME TypeInv, NEW s \in Servers, Copy(s) \/ CopyFails(s)
  PROVE  TypeInv'
<1> USE ConstantsAssumption
<1>1. CASE Copy(s)
  <2>1. PICK f \in Files :
          /\ WriteParquet(f, NewContent(s, f))
          /\ SetLogDB(s, IF req[s].op = "insert" THEN InsertAdd(logDB[s].log, f)
                         ELSE MergeEvents(logDB[s].log, f, clock),
                      logDB[s].etag)
          /\ req' = [req EXCEPT ![s].pc = "export", ![s].file = f]
    BY <1>1 DEF Copy
  <2>2. /\ req[s].pc = "copy" /\ Copyable(s)
        /\ UNCHANGED <<objLog, minted, acked, clock, requests, faults, crashes>>
    BY <1>1 DEF Copy
  <2>3. /\ content' \in [Files -> Content \cup {Absent}]
        /\ stored' \in SUBSET Files /\ Written' = Written \cup {f}
    BY <2>1, <2>2, NewContentType, WriteParquetType
  <2>4. /\ logDB[s] \in DB /\ logDB[s].log \in Log
        /\ logDB[s].etag \in Log \cup {Absent}
        /\ logDB[s].log.add \subseteq Written /\ clock \in Nat
    BY <2>2 DEF TypeInv, TypeOK, LogsListWritten, RequestOK, DB
  <2> DEFINE l == IF req[s].op = "insert" THEN InsertAdd(logDB[s].log, f)
                  ELSE MergeEvents(logDB[s].log, f, clock)
  <2>5. l \in Log /\ l.add = logDB[s].log.add \cup {f}
    BY <2>4, LogStatements DEF InsertAdd, MergeEvents
  <2> HIDE DEF l
  <2>6. logDB' = [logDB EXCEPT ![s] = [log |-> l, etag |-> logDB[s].etag]]
    BY <2>1 DEF SetLogDB, l
  <2>7. [log |-> l, etag |-> logDB[s].etag] \in DB
    BY <2>4, <2>5 DEF DB
  <2>8. /\ logDB' \in [Servers -> DB \cup {Absent}]
        /\ logDB'[s] # Absent
        /\ logDB'[s].log = l
        /\ \A t \in Servers \ {s} : logDB'[t] = logDB[t]
    BY <2>6, <2>7 DEF TypeInv, TypeOK
  <2>9. /\ req' \in [Servers -> Request]
        /\ req'[s].pc = "export" /\ req'[s].file = f
        /\ req'[s].op = req[s].op /\ req'[s].tmp = req[s].tmp
        /\ req'[s].snap = req[s].snap
        /\ \A t \in Servers \ {s} : req'[t] = req[t]
    <3> DEFINE r == [req[s] EXCEPT !.pc = "export", !.file = f]
    <3>1. req \in [Servers -> Request] /\ req' = [req EXCEPT ![s] = r]
      BY <2>1 DEF TypeInv, TypeOK
    <3>2. /\ r \in Request /\ r.pc = "export" /\ r.file = f
          /\ r.op = req[s].op /\ r.tmp = req[s].tmp /\ r.snap = req[s].snap
      BY ZenonT(40), <3>1 DEF Request
    <3> HIDE DEF r
    <3> QED BY <3>1, <3>2
  <2>10. RequestOK(s)'
    BY <2>2, <2>8, <2>9 DEF TypeInv, RequestOK
  <2> QED
    BY <2>2, <2>3, <2>4, <2>5, <2>8, <2>9, <2>10, OneServerStep
    DEF TypeInv, TypeOK, LogsListWritten
<1>2. CASE CopyFails(s)
  <2>1. /\ req[s].pc = "copy" /\ Finish(s)
        /\ UNCHANGED <<objLog, logDB, minted, acked, clock, requests, crashes>>
    BY <1>2 DEF CopyFails
  <2>2. /\ content' \in [Files -> Content \cup {Absent}]
        /\ stored' \in SUBSET Files /\ Written \subseteq Written'
        /\ faults' \in Nat
    <3>1. CASE UNCHANGED <<stored, content>>
      BY <1>2, <3>1 DEF CopyFails, Fault, TypeInv, TypeOK, Written
    <3>2. CASE /\ Copyable(s)
               /\ Fault("copy")
               /\ \E f \in Files : WriteParquet(f, NewContent(s, f))
      BY <2>1, <3>2, NewContentType, WriteParquetType DEF Fault, TypeInv, TypeOK
    <3> QED BY <1>2, <3>1, <3>2 DEF CopyFails
  <2> QED
    BY <2>1, <2>2, FinishOK, OneServerStep DEF TypeInv, TypeOK, LogsListWritten
<1> QED BY <1>1, <1>2

(* An export, done or failed, preserves the type invariant. *)
LEMMA ExportStepsTypeInv ==
  ASSUME TypeInv, NEW s \in Servers,
         Export(s) \/ ExportAnswerLost(s) \/ ExportFails(s)
  PROVE  TypeInv'
<1> USE ConstantsAssumption
<1>1. /\ req[s].pc = "export" /\ Finish(s)
      /\ UNCHANGED <<stored, content, logDB, minted, clock, requests, crashes>>
      /\ Written' = Written
  BY DEF Export, ExportAnswerLost, ExportWrites, ExportFails, Written
<1>2. logDB[s] \in DB /\ logDB[s].log \in Log /\ logDB[s].log.add \subseteq Written
  BY <1>1 DEF TypeInv, TypeOK, LogsListWritten, RequestOK, DB
<1>3. objLog' \in {objLog, logDB[s].log}
  BY DEF Export, ExportAnswerLost, ExportWrites, ExportFails
<1>4. acked' \in SUBSET Files /\ faults' \in Nat
  BY <1>1 DEF Export, ExportAnswerLost, ExportFails, Fault,
              TypeInv, TypeOK, RequestOK
<1> QED
  BY <1>1, <1>2, <1>3, <1>4, FinishOK, OneServerStep
  DEF TypeInv, TypeOK, LogsListWritten

(* Deleting a parquet object, by a VACUUM or a DROP, leaves the log alone. *)
LEMMA DeletesOneFile ==
  ASSUME TypeInv, NEW s \in Servers, PurgeFile(s) \/ DropFile(s)
  PROVE  /\ req[s].pc \in {"purge", "unlink"}
         /\ UNCHANGED <<objLog, content, logDB, minted, clock, requests, crashes>>
         /\ Written' = Written
         /\ acked' \subseteq acked
         /\ req[s].pc = "purge" => UNCHANGED acked
         /\ \E f \in req[s].pending :
              /\ req' = [req EXCEPT
                           ![s].pending = @ \ {f},
                           ![s].pc = IF req[s].pc = "purge" /\ req[s].pending = {f}
                                     THEN "export" ELSE @]
              /\ \/ stored' = stored \ {f} /\ UNCHANGED faults
                 \/ Fault("delete") /\ UNCHANGED stored
<1>1. CASE PurgeFile(s)
  BY <1>1 DEF PurgeFile, Delete, Written
<1>2. CASE DropFile(s)
  <2>1. PICK f \in req[s].pending :
          req' = [req EXCEPT ![s].pending = @ \ {f}] /\ Delete(f)
    BY <1>2 DEF DropFile
  <2>2. req[s].pc = "unlink"
    BY <1>2 DEF DropFile
  <2>3. req' = [req EXCEPT
                  ![s].pending = @ \ {f},
                  ![s].pc = IF req[s].pc = "purge" /\ req[s].pending = {f}
                            THEN "export" ELSE @]
    BY <2>1, <2>2 DEF TypeInv, TypeOK, Request
  <2>4. acked' \subseteq acked
    BY <1>2 DEF DropFile
  <2> QED BY <1>2, <2>1, <2>2, <2>3, <2>4 DEF DropFile, Delete, Written
<1> QED BY <1>1, <1>2

(* Deleting objects preserves the type invariant. *)
LEMMA DeleteStepsTypeInv ==
  ASSUME TypeInv, NEW s \in Servers, PurgeFile(s) \/ DropFile(s) \/ DeleteLog(s)
  PROVE  TypeInv'
<1> USE ConstantsAssumption
<1>1. CASE PurgeFile(s) \/ DropFile(s)
  <2>1. /\ req[s].pc \in {"purge", "unlink"}
        /\ UNCHANGED <<objLog, content, logDB, minted, clock, requests, crashes>>
        /\ Written' = Written /\ acked' \in SUBSET Files
    BY <1>1, DeletesOneFile DEF TypeInv, TypeOK
  <2>2. PICK f \in req[s].pending :
          /\ req' = [req EXCEPT
                       ![s].pending = @ \ {f},
                       ![s].pc = IF req[s].pc = "purge" /\ req[s].pending = {f}
                                 THEN "export" ELSE @]
          /\ \/ stored' = stored \ {f} /\ UNCHANGED faults
             \/ Fault("delete") /\ UNCHANGED stored
    BY <1>1, DeletesOneFile
  <2>3. stored' \in SUBSET Files /\ faults' \in Nat
    BY <2>2 DEF Fault, TypeInv, TypeOK
  <2>4. /\ req' \in [Servers -> Request]
        /\ req'[s].pc \in {"purge", "unlink", "export"}
        /\ req'[s].pc = "export" => req[s].pc = "purge"
        /\ req'[s].op = req[s].op /\ req'[s].tmp = req[s].tmp
        /\ req'[s].snap = req[s].snap
        /\ \A t \in Servers \ {s} : req'[t] = req[t]
    <3> DEFINE next == IF req[s].pc = "purge" /\ req[s].pending = {f}
                       THEN "export" ELSE req[s].pc
               r == [req[s] EXCEPT !.pending = req[s].pending \ {f}, !.pc = next]
    <3>1. req \in [Servers -> Request] /\ req' = [req EXCEPT ![s] = r]
      BY <2>2 DEF TypeInv, TypeOK, Request
    <3>2. /\ next \in {"purge", "unlink", "export"}
          /\ next = "export" => req[s].pc = "purge"
      BY <2>1
    <3> HIDE DEF next
    <3>3. /\ r \in Request /\ r.pc = next
          /\ r.op = req[s].op /\ r.tmp = req[s].tmp /\ r.snap = req[s].snap
      BY ZenonT(40), <3>1, <3>2 DEF Request
    <3> HIDE DEF r
    <3> QED BY <3>1, <3>2, <3>3
  <2>5. RequestOK(s)'
    <3>1. req'[s].pc = "purge" => req[s].pc = "purge"
      BY <2>2 DEF TypeInv, TypeOK, Request
    <3> QED BY <2>1, <2>4, <3>1 DEF TypeInv, RequestOK
  <2> QED
    BY <2>1, <2>3, <2>4, <2>5, OneServerStep DEF TypeInv, TypeOK, LogsListWritten
<1>2. CASE DeleteLog(s)
  <2>1. /\ logDB' = [logDB EXCEPT ![s] = Absent] /\ Finish(s)
        /\ UNCHANGED <<stored, content, minted, clock, requests, crashes>>
        /\ objLog' \in {objLog, Absent} /\ acked' \in {acked, {}}
        /\ Written' = Written
    BY <1>2 DEF DeleteLog, Written
  <2>2. faults' \in Nat
    BY <1>2 DEF DeleteLog, Fault, TypeInv, TypeOK
  <2>3. /\ logDB' \in [Servers -> DB \cup {Absent}] /\ logDB'[s] = Absent
        /\ \A t \in Servers \ {s} : logDB'[t] = logDB[t]
    BY <2>1 DEF TypeInv, TypeOK
  <2> QED
    BY <2>1, <2>2, <2>3, FinishOK, OneServerStep
    DEF TypeInv, TypeOK, LogsListWritten
<1> QED BY <1>1, <1>2

(* Restarts, time and rest preserve the type invariant. *)
LEMMA EnvironmentTypeInv ==
  ASSUME TypeInv,
         (\E s \in Servers : Crash(s)) \/ Tick \/ Rest \/ UNCHANGED vars
  PROVE  TypeInv'
<1>1. ASSUME NEW s \in Servers, Crash(s) PROVE TypeInv'
  <2>1. /\ logDB' = [logDB EXCEPT ![s] = Absent] /\ Finish(s)
        /\ UNCHANGED <<objLog, stored, content, minted, acked, clock, requests,
                       faults>>
        /\ crashes' \in Nat /\ Written' = Written
    BY <1>1 DEF Crash, Written, TypeInv, TypeOK
  <2>2. /\ logDB' \in [Servers -> DB \cup {Absent}] /\ logDB'[s] = Absent
        /\ \A t \in Servers \ {s} : logDB'[t] = logDB[t]
    BY <2>1 DEF TypeInv, TypeOK
  <2> QED
    BY <2>1, <2>2, FinishOK, OneServerStep DEF TypeInv, TypeOK, LogsListWritten
<1>2. CASE Tick
  BY <1>2 DEF Tick, TypeInv, TypeOK, LogsListWritten, RequestOK, Written
<1>3. CASE Rest \/ UNCHANGED vars
  BY <1>3 DEF Rest, vars, TypeInv, TypeOK, LogsListWritten, RequestOK, Written
<1> QED BY <1>1, <1>2, <1>3

(* Every reachable state satisfies the type invariant. *)
THEOREM TypeInvariance == Spec => []TypeInv
<1>1. TypeInv /\ [Next]_vars => TypeInv'
  <2> SUFFICES ASSUME TypeInv, [Next]_vars PROVE TypeInv'
    OBVIOUS
  <2>1. ASSUME NEW s \in Servers, Begin(s) PROVE TypeInv'
    BY <2>1, BeginTypeInv
  <2>2. ASSUME NEW s \in Servers, Step(s) PROVE TypeInv'
    BY <2>2, ReadStepsTypeInv, ImportStepsTypeInv, CopyStepsTypeInv,
       ExportStepsTypeInv, DeleteStepsTypeInv
    DEF Step
  <2>3. CASE (\E s \in Servers : Crash(s)) \/ Tick \/ Rest \/ UNCHANGED vars
    BY <2>3, EnvironmentTypeInv
  <2> QED BY <2>1, <2>2, <2>3 DEF Next
<1> QED BY <1>1, InitTypeInv, PTL DEF Spec

(* Every variable keeps the shape the code gives it, whatever the servers, *)
(* requests, failures and crashes.                                         *)
THEOREM TypeCorrect == Spec => []TypeOK
<1>1. TypeInv => TypeOK
  BY DEF TypeInv
<1> QED BY <1>1, TypeInvariance, PTL

=============================================================================
