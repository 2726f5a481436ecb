---------------------------- MODULE MCFilingStore ----------------------------
(* Small instances of FilingStore for TLC. *)
EXTENDS FilingStore, TLC

\* Every accession its own (ticker, form, date), or all of them the same one.
OwnKey    == [a \in Accessions |-> a]

StoreSymmetry == Permutations(Workers) \cup Permutations(Accessions)
=============================================================================
