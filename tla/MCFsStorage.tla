---------------------------- MODULE MCFsStorage ----------------------------
(* Instances of FsStorage for TLC. *)
EXTENDS FsStorage, TLC

(* Clients, chunks and inodes are interchangeable. *)
Symmetry ==
  Permutations(Clients) \cup Permutations(Chunks) \cup Permutations(Inodes)

=============================================================================
