---------------------------- MODULE MCTaskManager ----------------------------
(* Small instances of TaskManager for TLC. *)
EXTENDS TaskManager, TLC

\* Work lists, the empty one included; two tickers of one company list the same
\* filing twice.
OneOrNone    == {<<>>} \cup {<<a>> : a \in Accessions}
AllWorkLists == OneOrNone \cup Accessions \X Accessions

FilingSymmetry == Permutations(Accessions)
=============================================================================
