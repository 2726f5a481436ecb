------------------------------ MODULE MCReindex ------------------------------
(* Small instances of Reindex for TLC. *)
EXTENDS Reindex, TLC

ProcessSymmetry == Permutations(Chunks) \cup Permutations(Stamps) \cup Permutations(Clients)
=============================================================================
