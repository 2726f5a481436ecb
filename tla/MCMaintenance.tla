---------------------------- MODULE MCMaintenance ----------------------------
(* The registry's opening and the operator's archives, explored one at a   *)
(* time: they share nothing but the file.                                  *)
EXTENDS Archive, Schema, TLC

VARIABLE part   \* the protocol of this behaviour

\* Bounds.  One kind of archive in a behaviour, exports between hosts of one
\* configuration; one filing half stored or half deleted at a time; beside an
\* artefact, and while an export is forced over another, one filing in all.
OneKind == dump = NoDump \/ (tar = NoTar /\ conf[There] = conf[Here])
Cut == {x \in Hosts \X Filings : marred[x[1]][x[2]] \notin {"no", "restored"}}
Known(h) == Rows(h) \cup {f \in Filings : vec[h].held[f] # {}}
Bounds ==
  /\ OneKind /\ Cardinality(Cut) < 2
  /\ tar # NoTar => Cardinality(Known(Here)) < 2
  /\ dump.residue => Cut = {} /\ Cardinality(Known(Here) \cup Known(There)) < 2

Renamed == Permutations(Filings)

Opened0 == CHOOSE d \in Found : d.stamps = 1..Latest

Init ==
  /\ ArchiveInit /\ SchemaInit
  /\ \/ part = "schema" /\ conf[There] = conf[Here]
     \/ part = "archive" /\ driver = "sqlite3" /\ file = Opened0

Next ==
  /\ UNCHANGED part
  /\ \/ part = "archive" /\ ArchiveNext /\ UNCHANGED schemaVars
     \/ part = "schema" /\ SchemaNext /\ UNCHANGED archiveVars
=============================================================================
