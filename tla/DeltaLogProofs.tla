--------------------------- MODULE DeltaLogProofs ---------------------------
(***************************************************************************)
(* Lemmas about the log of a table and the SQL statements on log_json.     *)
(***************************************************************************)
EXTENDS DeltaLog, TLAPS

-----------------------------------------------------------------------------
(***************************************************************************)
(* The statements on log_json turn logs into logs.                         *)
(***************************************************************************)

(* A statement that appends rows to log_json leaves a log (DeltaLog). *)
LEMMA LogStatements ==
  ASSUME NEW l \in Log
  PROVE  /\ \A t \in TableIds : InsertMetaData(l, t) \in Log
         /\ \A f \in Files : InsertAdd(l, f) \in Log
         /\ \A f \in Files, now \in Nat : MergeEvents(l, f, now) \in Log
<1>1. /\ \A t \in TableIds : InsertMetaData(l, t) \in Log
      /\ \A f \in Files : InsertAdd(l, f) \in Log
  BY DEF Log, InsertMetaData, InsertAdd
<1>2. ASSUME NEW f \in Files, NEW now \in Nat
      PROVE  MergeEvents(l, f, now) \in Log
  <2>1. \A g \in FilesLive(l) : [path |-> g, at |-> now] \in Tombstone
    BY DEF Log, FilesLive, Tombstone
  <2> QED BY <2>1 DEF Log, MergeEvents
<1> QED BY <1>1, <1>2

(* The file lists are lists of files; a log with metadata has a schema. *)
LEMMA LogQueries ==
  ASSUME NEW l \in Log
  PROVE  /\ FilesLive(l) \subseteq l.add
         /\ l.add \subseteq Files
         /\ FilesAll(l) \subseteq Files
         /\ \A now, ttl \in Nat : FilesMarkedRemove(l, now, ttl) \subseteq Files
         /\ HasTable(l) => SchemaOf(l) \in TableIds
BY DEF Log, Tombstone, FilesLive, FilesAll, FilesMarkedRemove, Removed,
       HasTable, SchemaOf

(* delta_lake_init.sql leaves a log that lists no file. *)
LEMMA EmptyLogType == EmptyLog \in Log /\ EmptyLog.add = {}
BY DEF EmptyLog, Log

-----------------------------------------------------------------------------
(***************************************************************************)
(* Extends is a partial order on logs.                                     *)
(***************************************************************************)

(* A log extends itself. *)
LEMMA ExtendsReflexive ==
  ASSUME NEW l \in Log
  PROVE  Extends(l, l)
BY DEF Extends, Log

(* An extension of an extension of a log extends it. *)
LEMMA ExtendsTransitive ==
  ASSUME NEW j \in Log, NEW k \in Log, NEW l \in Log,
         Extends(j, k), Extends(k, l)
  PROVE  Extends(j, l)
BY DEF Extends, Log

(* Two logs that extend each other are the same version. *)
LEMMA ExtendsAntisymmetric ==
  ASSUME NEW k \in Log, NEW l \in Log, Extends(k, l), Extends(l, k)
  PROVE  k = l
<1>1. k.add = l.add /\ k.remove = l.remove
  BY DEF Extends
<1>2. k.meta \in Seq(TableIds) /\ l.meta \in Seq(TableIds)
  BY DEF Log
<1>3. Len(k.meta) = Len(l.meta)
  BY <1>2 DEF Extends
<1>4. \A i \in 1 .. Len(k.meta) : k.meta[i] = l.meta[i]
  BY <1>3 DEF Extends
<1>5. k.meta = l.meta
  BY <1>2, <1>3, <1>4
<1> QED BY <1>1, <1>5 DEF Log

-----------------------------------------------------------------------------
(***************************************************************************)
(* Tombstones are of files that were added.                                *)
(***************************************************************************)
TombstonesAdded(l) == Removed(l) \subseteq l.add

(* Logging a CREATE TABLE changes no file; the first one gives the schema. *)
LEMMA InsertMetaDataSchema ==
  ASSUME NEW l \in Log, NEW t \in TableIds
  PROVE  LET k == InsertMetaData(l, t) IN
         /\ Extends(k, l)
         /\ HasTable(k)
         /\ SchemaOf(k) = IF HasTable(l) THEN SchemaOf(l) ELSE t
         /\ FilesAll(k) = FilesAll(l) /\ FilesLive(k) = FilesLive(l)
         /\ TombstonesAdded(l) => TombstonesAdded(k)
<1> DEFINE k == InsertMetaData(l, t)
<1>1. /\ k.meta = Append(l.meta, t) /\ k.add = l.add /\ k.remove = l.remove
      /\ l.meta \in Seq(TableIds)
  BY DEF InsertMetaData, Log
<1> HIDE DEF k
<1>2. /\ Len(k.meta) = Len(l.meta) + 1
      /\ \A i \in 1 .. Len(l.meta) : k.meta[i] = l.meta[i]
      /\ k.meta[Len(l.meta) + 1] = t
  BY <1>1
<1>3. Extends(k, l)
  BY <1>1, <1>2 DEF Extends
<1>4. HasTable(k)
  BY <1>1, <1>2 DEF HasTable
<1>5. SchemaOf(k) = IF HasTable(l) THEN SchemaOf(l) ELSE t
  BY <1>1, <1>2 DEF SchemaOf, HasTable
<1>6. /\ FilesAll(k) = FilesAll(l) /\ FilesLive(k) = FilesLive(l)
      /\ TombstonesAdded(l) => TombstonesAdded(k)
  BY <1>1 DEF FilesAll, FilesLive, TombstonesAdded, Removed
<1> QED BY <1>3, <1>4, <1>5, <1>6 DEF k

(* Adding a new file to a log makes it live and changes no other file. *)
LEMMA InsertAddLive ==
  ASSUME NEW l \in Log, TombstonesAdded(l), NEW f \in Files, f \notin l.add
  PROVE  /\ Extends(InsertAdd(l, f), l)
         /\ TombstonesAdded(InsertAdd(l, f))
         /\ FilesLive(InsertAdd(l, f)) = FilesLive(l) \cup {f}
BY DEF Log, Extends, InsertAdd, TombstonesAdded, FilesLive, Removed

(* A merge makes its new file the only live one. *)
LEMMA MergeEventsLive ==
  ASSUME NEW l \in Log, TombstonesAdded(l), NEW f \in Files, f \notin l.add,
         NEW now \in Nat
  PROVE  /\ Extends(MergeEvents(l, f, now), l)
         /\ TombstonesAdded(MergeEvents(l, f, now))
         /\ FilesLive(MergeEvents(l, f, now)) = {f}
<1>1. Removed(MergeEvents(l, f, now)) = Removed(l) \cup FilesLive(l)
  <2> DEFINE new == {[path |-> g, at |-> now] : g \in FilesLive(l)}
  <2>1. MergeEvents(l, f, now).remove = l.remove \cup new
    BY DEF MergeEvents
  <2>2. ASSUME NEW g \in FilesLive(l) PROVE g \in {r.path : r \in new}
    <3>1. [path |-> g, at |-> now] \in new
      BY <2>2
    <3> QED BY <3>1
  <2>3. ASSUME NEW r \in new PROVE r.path \in FilesLive(l)
    BY <2>3
  <2> HIDE DEF new
  <2>4. {r.path : r \in new} = FilesLive(l)
    BY <2>2, <2>3
  <2> QED BY <2>1, <2>4 DEF Removed
<1>2. MergeEvents(l, f, now).add = l.add \cup {f}
  BY DEF MergeEvents
<1>3. Extends(MergeEvents(l, f, now), l)
  BY DEF Log, Extends, MergeEvents
<1> QED BY <1>1, <1>2, <1>3 DEF TombstonesAdded, FilesLive

=============================================================================
