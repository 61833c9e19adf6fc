------------------------------ MODULE DeltaLog ------------------------------
(***************************************************************************)
(* The Delta Lake log of one duckpond table, as the table log_json of a    *)
(* server's LOG database and the object _delta_log/00000000000000000000.json*)
(* hold it: one metaData row per logged CREATE TABLE, one add row per      *)
(* parquet file, one remove row per tombstoned file.  The protocol row is  *)
(* in every log and is left out.  The operators are the SQL statements the *)
(* code runs on log_json.                                                  *)
(***************************************************************************)
EXTENDS Naturals, Sequences

CONSTANTS
  Files,      \* names of parquet objects (uuidv7 values, never reused)
  TableIds    \* identities of table incarnations (metaData.id, never reused)

(* A remove row: the path and its deletionTimestamp. *)
Tombstone == [path : Files, at : Nat]

Log == [meta   : Seq(TableIds),
        add    : SUBSET Files,
        remove : SUBSET Tombstone]

(* log_json after delta_lake_init.sql. *)
EmptyLog == [meta |-> << >>, add |-> {}, remove |-> {}]

Removed(l) == {r.path : r \in l.remove}

(***************************************************************************)
(* The queries.                                                            *)
(***************************************************************************)
FilesLive(l) == l.add \ Removed(l)

(* Mutant: tombstoned files are forgotten. *)
FilesAllUntombstoned(l) == FilesLive(l)

FilesAll(l) == l.add \cup Removed(l)

(* Mutant: tombstones are acted on at once. *)
FilesMarkedRemoveAtOnce(l, now, ttl) == Removed(l)

FilesMarkedRemove(l, now, ttl) ==
  {r.path : r \in {x \in l.remove : x.at + ttl <= now}}

(* CreateTempTable finds a metaData row; the first one gives the schema. *)
HasTable(l) == l.meta # << >>

SchemaOf(l) == l.meta[1]

(***************************************************************************)
(* The statements that append rows.                                        *)
(***************************************************************************)
(* Mutant: the new metadata row precedes the others. *)
InsertMetaDataFirst(l, t) ==
  [meta |-> <<t>> \o l.meta, add |-> l.add, remove |-> l.remove]

InsertMetaData(l, t) ==
  [meta |-> Append(l.meta, t), add |-> l.add, remove |-> l.remove]

InsertAdd(l, f) ==
  [meta |-> l.meta, add |-> l.add \cup {f}, remove |-> l.remove]

(* Mutant: the merged files are not tombstoned. *)
MergeEventsAddOnly(l, f, now) == InsertAdd(l, f)

(* Mutant: the merged file is not added. *)
MergeEventsRemoveOnly(l, f, now) ==
  [l EXCEPT !.remove = @ \cup {[path |-> g, at |-> now] : g \in FilesLive(l)}]

MergeEvents(l, f, now) ==
  [meta   |-> l.meta,
   add    |-> l.add \cup {f},
   remove |-> l.remove \cup {[path |-> g, at |-> now] : g \in FilesLive(l)}]

(***************************************************************************)
(* Log k contains every row of log l, its metaData rows in the same order. *)
(***************************************************************************)
Extends(k, l) ==
  /\ l.add \subseteq k.add
  /\ l.remove \subseteq k.remove
  /\ Len(l.meta) <= Len(k.meta)
  /\ \A i \in 1 .. Len(l.meta) : k.meta[i] = l.meta[i]

=============================================================================
