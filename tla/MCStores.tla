------------------------------- MODULE MCStores ------------------------------
(***************************************************************************)
(* The two things that write to the stores and share no state in the       *)
(* models: the calls of the dual-store coordinator, and a re-index run     *)
(* beside the services that open the collection.  A behaviour exercises    *)
(* one of them while the other stands still.                               *)
(***************************************************************************)
EXTENDS MCFilingStore, MCReindex

VARIABLE part

StoresInit ==
  /\ part \in {"calls", "reindex"} /\ Init /\ ReindexInit
  /\ part = "calls" => current = Missing /\ \A c, d \in Clients : stamp[c] = stamp[d]

StoresNext ==
  /\ UNCHANGED part
  /\ \/ part = "calls" /\ Next /\ UNCHANGED reindexVars
     \/ part = "reindex" /\ ReindexNext /\ UNCHANGED vars

StoresSpec == StoresInit /\ [][StoresNext]_<<part, vars, reindexVars>>

CallSymmetry == StoreSymmetry \cup ProcessSymmetry
=============================================================================
