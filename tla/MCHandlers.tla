----------------------------- MODULE MCHandlers -----------------------------
(* Instances of Handlers for TLC. *)
EXTENDS Handlers, TLC

(* Parquet names are interchangeable; so are goroutines and, but for the   *)
(* one that CHOOSE picks as a pool's first, connections.                   *)
Symmetry == Permutations(Files) \cup Permutations(Handlers)

Everything == AllOps
Vacuums == {"vacuum"}
Inserts == {"insert"}
InsertsAndVacuums == {"insert", "vacuum"}

=============================================================================
