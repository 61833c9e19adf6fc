----------------------------- MODULE MCDuckpond -----------------------------
(* Instances of Duckpond for TLC. *)
EXTENDS Duckpond, TLC

(* Servers, parquet names and incarnations are interchangeable.  Used in   *)
(* the runs without a liveness property.                                   *)
Symmetry ==
  Permutations(Servers) \cup Permutations(Files) \cup Permutations(TableIds)

(* Operations of the runs. *)
Everything == AllOps
InsertsAndVacuums == {"insert", "select", "vacuum"}
Creates == {"create", "insert"}
CreatesAndVacuums == {"create", "insert", "vacuum"}
CreatesAndDrops == {"create", "insert", "drop"}

=============================================================================
