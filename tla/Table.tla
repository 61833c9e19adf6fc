------------------------------- MODULE Table -------------------------------
(***************************************************************************)
(* What duckpond does to one table, seen by its clients.  A CREATE TABLE   *)
(* and an INSERT take effect at one instant, VACUUM and SELECT change      *)
(* nothing, and so does a CREATE OR REPLACE TABLE of a table that exists,  *)
(* although it is answered with success: neither the rows nor the schema   *)
(* are replaced.  A DROP TABLE is not one instant: it destroys the rows    *)
(* first, and when it stops half-way the table is still there, torn, with  *)
(* a SELECT that fails until the next DROP TABLE.                          *)
(***************************************************************************)
CONSTANTS
  Rows,
  Schemas,
  NoSchema   \* the schema of a table that does not exist

VARIABLES
  exists,    \* the table has been created and not dropped since
  dropping,  \* a DROP TABLE is under way
  torn,      \* a DROP TABLE has destroyed a part of the table
  schema,    \* the columns the table was created with
  rows,      \* the rows a SELECT returns; none while torn, as it fails
  acked      \* the rows reported inserted and not destroyed by a DROP since

vars == <<exists, dropping, torn, schema, rows, acked>>

Init ==
  /\ exists \in BOOLEAN
  /\ schema \in IF exists THEN Schemas ELSE {NoSchema}
  /\ rows \in {{}} \cup (IF exists THEN {{r} : r \in Rows} ELSE {})
  /\ acked = rows
  /\ ~dropping /\ ~torn

Create(t) ==
  /\ ~exists
  /\ exists' = TRUE
  /\ schema' = t
  /\ UNCHANGED <<dropping, torn, rows, acked>>

(* A CREATE TABLE that was answered with an error takes effect after all,  *)
(* at the instant of a later INSERT, with the INSERTs R made meanwhile; of *)
(* these only the last may have been reported successful.                  *)
CreateLate(R, t) ==
  /\ ~exists
  /\ exists' = TRUE
  /\ schema' = t
  /\ rows' = R
  /\ acked' \in {{}} \cup {{r} : r \in R}
  /\ UNCHANGED <<dropping, torn>>

(* An INSERT may take effect without its client learning of it. *)
Insert(r) ==
  /\ exists /\ ~torn
  /\ r \notin rows
  /\ rows' = rows \cup {r}
  /\ acked' \in {acked, acked \cup {r}}
  /\ UNCHANGED <<exists, dropping, torn, schema>>

(* An INSERT into a torn table is reported successful, and not readable. *)
InsertTorn(r) ==
  /\ exists /\ torn
  /\ acked' = acked \cup {r}
  /\ UNCHANGED <<exists, dropping, torn, schema, rows>>

(* A DROP TABLE begins, or ends without having removed the table. *)
Dropping ==
  /\ dropping' = ~dropping
  /\ UNCHANGED <<exists, torn, schema, rows, acked>>

(* A DROP TABLE under way destroys some of the rows. *)
Tear ==
  /\ exists /\ dropping
  /\ torn' = TRUE
  /\ rows' = {}
  /\ acked' \in SUBSET acked
  /\ UNCHANGED <<exists, dropping, schema>>

(* A DROP TABLE ends: the table is gone. *)
Drop ==
  /\ exists /\ dropping
  /\ exists' = FALSE /\ dropping' = FALSE /\ torn' = FALSE
  /\ schema' = NoSchema
  /\ rows' = {} /\ acked' = {}

Next ==
  \/ \E t \in Schemas : Create(t)
  \/ \E R \in (SUBSET Rows) \ {{}}, t \in Schemas : CreateLate(R, t)
  \/ \E r \in Rows : Insert(r) \/ InsertTorn(r)
  \/ Dropping
  \/ Tear
  \/ Drop

Spec == Init /\ [][Next]_vars

=============================================================================
