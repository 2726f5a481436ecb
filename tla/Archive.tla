------------------------------- MODULE Archive -------------------------------
(***************************************************************************)
(* The operator's archives of a deployment: backup and restore             *)
(* (database/backup.py, cli/backup.py) and the portable export and import  *)
(* (database/portable.py, cli/portable.py), over the ChromaDB directory    *)
(* and the SQLite file of two hosts, beside the application of the first.  *)
(* Each file operation and each call of a store is a step, the command may *)
(* be interrupted after any of them, and the application may store and     *)
(* delete on the host an import writes to; shutil.rmtree and shutil.move   *)
(* (a copy, across devices) pass through a state in which the target       *)
(* cannot be opened.                                                       *)
(***************************************************************************)
EXTENDS Naturals, FiniteSets, Functions

CONSTANTS Here, There,  \* the two hosts
          Filings,      \* accession numbers
          Index         \* chunk indexes of a filing

Hosts == {Here, There}

ASSUME ArchiveAssumption ==
  Here # There /\ {"claim", "unclaim"} \cap Filings = {} /\ Index \subseteq Nat

VARIABLES
  conf,   \* conf[h]: [stamp, build, key], the host's settings and build
  vec,    \* vec[h]: the ChromaDB directory, [is, stamp, held]
  db,     \* db[h]: the SQLite file, [is, version, count], count[f] of a row the
          \* chunks it was registered with (the code keeps their number)
  tar,    \* the backup artefact, or none
  dump,   \* the export directory: [manifest, lines, fetched, residue]
  app,    \* the application on Here: [step, filing]
  cmd,    \* the operator's command: [is, host, step, todo]
  stage,  \* what the command has read so far
  result, \* outcome of the last command, "none" while one runs
  was,    \* history: the host's stores when the command began, but for what the
          \* application has touched there since, and the filings asked for
  marred  \* history: marred[h][f], why a registered filing may lack chunks: its
          \* last store or delete was "cut" off, its add "failed" and was to be
          \* rolled back, or the host was "restored" since; "no" otherwise

data == <<vec, db, tar, dump>>
archiveVars == <<conf, data, app, cmd, stage, result, was, marred>>

NoChunks == [f \in Filings |-> {}]
NoRows == [f \in {} |-> 0]

Collection(s, held) == [is |-> "whole", stamp |-> s, held |-> held]
File(v, count)      == [is |-> "whole", version |-> v, count |-> count]
BadVec(w) == [is |-> w, stamp |-> "none", held |-> NoChunks]
BadDb(w)  == [is |-> w, version |-> 0, count |-> NoRows]
NoTar  == [is |-> "absent", stamp |-> "none", version |-> 0, schema |-> 0, key |-> FALSE,
           held |-> NoChunks, count |-> NoRows]
NoDump == [manifest |-> FALSE, lines |-> {}, fetched |-> NoChunks, residue |-> FALSE]
Idle   == [is |-> "none", host |-> Here, step |-> "idle", todo |-> {}]
NoWas == [host |-> Here, vec |-> BadVec("gone"), db |-> BadDb("gone"), asked |-> {}]
Was(h, S) == [host |-> h, vec |-> vec[h], db |-> db[h], asked |-> S]
Nothing == [held |-> NoChunks, count |-> NoRows, version |-> 0, schema |-> 0]
AppAt(s, f) == [step |-> s, filing |-> f]
AppIdle(s)  == AppAt(s, "none")

Mark(h, S, why) ==
  marred' = [marred EXCEPT ![h] = [f \in Filings |-> IF f \in S THEN why ELSE marred[h][f]]]

Rows(h) == DOMAIN db[h].count
WithRow(count, f, n) == [g \in DOMAIN count \cup {f} |-> IF g = f THEN n ELSE count[g]]
WithoutRow(count, f) == Restrict(count, DOMAIN count \ {f})
Lines(f) == {i \in Index : <<f, i>> \in dump.lines}
LinesOf(held) == {l \in Filings \X Index : l[2] \in held[l[1]]}
Whole(h) == vec[h].is = "whole" /\ db[h].is = "whole"
Restorable == tar.is = "whole"

\* ChromaDBClient and MetadataRegistry on opening: an absent store is created,
\* an old schema migrated, a foreign seal or an unreadable file refused.
CanOpen(h) ==
  /\ vec[h].is = "gone" \/ (vec[h].is = "whole" /\ vec[h].stamp = conf[h].stamp)
  /\ db[h].is # "torn"
OpenedVec(h) == IF vec[h].is = "gone" THEN Collection(conf[h].stamp, NoChunks) ELSE vec[h]
OpenedDb(h) ==
  IF db[h].is = "gone" THEN File(conf[h].build, NoRows)
  ELSE [db[h] EXCEPT !.version = IF @ < conf[h].build THEN conf[h].build ELSE @]

ArchiveInit ==
  /\ conf \in [Hosts -> [stamp : {"s", "t"}, build : {2, 3}, key : BOOLEAN]]
  /\ conf[Here] = [stamp |-> "s", build |-> 3, key |-> FALSE]
  /\ Cardinality({k \in {"stamp", "build", "key"} : conf[Here][k] # conf[There][k]}) < 2
  /\ vec = [h \in Hosts |-> Collection(conf[h].stamp, NoChunks)]
  /\ \E v \in {2, 3} :   \* the file of Here may be of an older build
       db = [h \in Hosts |-> File(IF h = Here THEN v ELSE conf[h].build, NoRows)]
  /\ tar = NoTar /\ dump = NoDump
  /\ app = AppIdle("off")
  /\ cmd = Idle /\ stage = Nothing /\ result = "none"
  /\ was = NoWas /\ marred = [h \in Hosts |-> [f \in Filings |-> "no"]]

-----------------------------------------------------------------------------
(* The application on Here: what it does to the two stores.                *)

\* What the application does ends what is remembered of the last command, and of
\* the filings T it touches what a running one remembers.
Forget(T) ==
  /\ result' = "none"
  /\ was' = IF cmd.is = "none" THEN NoWas
            ELSE IF cmd.host # Here THEN was
            ELSE [was EXCEPT !.db.count = Restrict(@, DOMAIN @ \ T), !.asked = @ \ T]

AppStart ==
  /\ app.step = "off" /\ CanOpen(Here)
  /\ ~(cmd.is = "restore" /\ cmd.host = Here)
  /\ vec' = [vec EXCEPT ![Here] = OpenedVec(Here)]
  /\ db' = [db EXCEPT ![Here] = OpenedDb(Here)]
  /\ app' = AppIdle("on")
  /\ Forget({})
  /\ UNCHANGED <<conf, tar, dump, cmd, stage, marred>>

\* Stopped, or dead between two steps of a store or a delete.
AppStop ==
  /\ app.step # "off"
  /\ app' = AppIdle("off")
  /\ Mark(Here, Filings \cap {app.filing}, "cut")
  /\ UNCHANGED <<conf, data, cmd, stage, result, was>>

\* FilingStore, atomic path: the claim, then the chunks; delete: the chunks,
\* then the row.
AppStep ==
  /\ \E f \in Filings :
       /\ \/ /\ app.step = "on" /\ f \notin Rows(Here)
             /\ db' = [db EXCEPT ![Here].count = WithRow(@, f, Index)]
             /\ app' = AppAt("add", f)
             /\ Mark(Here, {f}, "no")
             /\ UNCHANGED vec
          \/ /\ app = AppAt("add", f)
             /\ vec' = [vec EXCEPT ![Here].held[f] = Index]
             /\ app' = AppIdle("on")
             /\ UNCHANGED <<db, marred>>
          \/ /\ app.step = "on" /\ f \in Rows(Here)
             /\ vec' = [vec EXCEPT ![Here].held[f] = {}]
             /\ app' = AppAt("row", f)
             /\ UNCHANGED <<db, marred>>
          \/ /\ app = AppAt("row", f)
             /\ db' = [db EXCEPT ![Here].count = WithoutRow(@, f)]
             /\ app' = AppIdle("on")
             /\ Mark(Here, {f}, "no")
             /\ UNCHANGED vec
       /\ Forget({f})
  /\ UNCHANGED <<conf, tar, dump, cmd, stage>>

-----------------------------------------------------------------------------
(* Control of a command.                                                   *)

Begin(k, h, step, todo) ==
  /\ cmd.is = "none"
  /\ cmd' = [is |-> k, host |-> h, step |-> step, todo |-> todo]
  /\ result' = "none"
  /\ was' = IF k \in {"backup", "export"} THEN NoWas
            ELSE Was(h, todo)

GoOn(step) == cmd' = [cmd EXCEPT !.step = step] /\ UNCHANGED <<result, was>>
End(r) == cmd' = Idle /\ result' = r /\ stage' = Nothing /\ UNCHANGED was
Doing(k, step) == cmd.is = k /\ cmd.step = step

\* The filing an import is at: claimed, and its chunks not all added.
Claimed ==
  IF cmd.is # "import" THEN {}
  ELSE IF cmd.step = "unclaim" THEN cmd.todo ELSE Filings \cap {cmd.step}

\* Ctrl-C, a kill, or an error that ends the command where it stands.  The
\* staging directory goes with it; a KeyboardInterrupt passes FilingStore's
\* except DatabaseError, so that a claim is not rolled back.
Interrupt ==
  /\ cmd.is # "none"
  /\ cmd' = Idle /\ result' = "none" /\ stage' = Nothing /\ was' = NoWas
  /\ Mark(cmd.host, Claimed, "cut")
  /\ UNCHANGED <<conf, data, app>>

-----------------------------------------------------------------------------
(* BackupService.backup.                                                   *)

\* Both stores must be there and readable; an existing artefact only with
\* force.  The manifest is written first, with the schema version read now.
BackupChecks(h) == Whole(h)

\* Mutant: the destination is opened before the source has been checked.
BackupOpensFirst(h) ==
  /\ Begin("backup", h, "sqlite", {})
  /\ tar' = [NoTar EXCEPT !.is = "torn"]
  /\ stage' = Nothing
  /\ UNCHANGED <<conf, vec, db, dump, app, marred>>

Backup(h) ==
  /\ Begin("backup", h, "sqlite", {})
  /\ BackupChecks(h)
  /\ stage' = [Nothing EXCEPT !.version = db[h].version]
  /\ UNCHANGED <<conf, data, app, marred>>

\* _snapshot_sqlite: one consistent moment of the database.
SnapshotSqlite ==
  /\ Doing("backup", "sqlite")
  /\ stage' = [stage EXCEPT !.count = db[cmd.host].count, !.schema = db[cmd.host].version]
  /\ GoOn("chroma")
  /\ UNCHANGED <<conf, data, app, marred>>

\* _copy_chroma_tree: another moment, when the application runs beside.
CopyChromaTree ==
  /\ Doing("backup", "chroma")
  /\ stage' = [stage EXCEPT !.held = vec[cmd.host].held]
  /\ GoOn("archive")
  /\ UNCHANGED <<conf, data, app, marred>>

\* _write_tarball opens the destination itself for writing, then fills it.
OpenTarball ==
  /\ Doing("backup", "archive")
  /\ tar' = [NoTar EXCEPT !.is = "torn"]
  /\ GoOn("pack")
  /\ UNCHANGED <<conf, vec, db, dump, app, stage, marred>>

Pack ==
  /\ Doing("backup", "pack")
  /\ tar' = [is |-> "whole", stamp |-> vec[cmd.host].stamp, key |-> conf[cmd.host].key,
             version |-> stage.version, schema |-> stage.schema,
             held |-> stage.held, count |-> stage.count]
  /\ End("backed up")
  /\ UNCHANGED <<conf, vec, db, dump, app, marred>>

-----------------------------------------------------------------------------
(* BackupService.restore.                                                  *)

\* Stamp, schema and encryption, in this order, before anything is touched.
Accepts(h) ==
  /\ tar.stamp = conf[h].stamp
  /\ tar.version <= conf[h].build
  /\ tar.key = conf[h].key

\* The application of the host has been stopped, as the command asks.
Restore(h) ==
  /\ tar.is # "absent"
  /\ h = Here => app.step = "off"
  /\ IF tar.is = "torn" \/ Accepts(h)   \* a torn one may show a whole manifest
     THEN Begin("restore", h, "extract", {})
     ELSE /\ cmd.is = "none"
          /\ cmd' = Idle /\ result' = "refused"
          /\ was' = Was(h, {})
  /\ stage' = Nothing
  /\ UNCHANGED <<conf, data, app, marred>>

\* _extract_tarball into the staging directory; a torn artefact ends here.
Extract ==
  /\ Doing("restore", "extract")
  /\ IF Restorable
     THEN /\ GoOn("clear")
          /\ stage' = [stage EXCEPT !.held = tar.held, !.count = tar.count]
     ELSE End("refused")
  /\ UNCHANGED <<conf, data, app, marred>>

\* _replace_target_paths.  Each line: step, what it does to the ChromaDB
\* directory and to the SQLite file, next step.
ClearChroma ==
  /\ cmd.is = "restore"
  /\ \/ cmd.step = "clear" /\ GoOn("clearing")
        /\ vec' = [vec EXCEPT ![cmd.host] = BadVec("torn")]
        /\ Mark(cmd.host, Filings, "restored")
     \/ cmd.step = "clearing" /\ GoOn("move")
        /\ vec' = [vec EXCEPT ![cmd.host] = BadVec("gone")]
        /\ UNCHANGED marred
  /\ UNCHANGED <<conf, db, tar, dump, app, stage>>

MoveChroma ==
  /\ cmd.is = "restore"
  /\ \/ cmd.step = "move" /\ GoOn("moving")
        /\ vec' = [vec EXCEPT ![cmd.host] = BadVec("torn")]
     \/ cmd.step = "moving" /\ GoOn("unlink")
        /\ vec' = [vec EXCEPT ![cmd.host] = Collection(tar.stamp, stage.held)]
  /\ UNCHANGED <<conf, db, tar, dump, app, stage, marred>>

ReplaceSqlite ==
  /\ cmd.is = "restore"
  /\ \/ cmd.step = "unlink" /\ GoOn("sqlite")
        /\ db' = [db EXCEPT ![cmd.host] = BadDb("gone")]
        /\ UNCHANGED stage
     \/ cmd.step = "sqlite" /\ GoOn("finish")
        /\ db' = [db EXCEPT ![cmd.host] = BadDb("torn")]
        /\ UNCHANGED stage
     \/ cmd.step = "finish" /\ End("restored")
        /\ db' = [db EXCEPT ![cmd.host] = File(tar.schema, stage.count)]
  /\ UNCHANGED <<conf, vec, tar, dump, app, marred>>

-----------------------------------------------------------------------------
(* PortableExportService.export of the filings S.                          *)

\* Opening the registry migrates it; a directory with residue needs force.
Export(h, S) ==
  /\ Whole(h)
  /\ Begin("export", h, "fetch", S \cap Rows(h))
  /\ db' = [db EXCEPT ![h] = OpenedDb(h)]
  /\ stage' = Nothing
  /\ UNCHANGED <<conf, vec, tar, dump, app, marred>>

\* chunks.jsonl is truncated, and the chunks of the filings fetched.
Fetch ==
  /\ Doing("export", "fetch")
  /\ stage' = [stage EXCEPT !.held =
                 [f \in Filings |-> IF f \in cmd.todo THEN vec[cmd.host].held[f] ELSE {}]]
  /\ dump' = [dump EXCEPT !.lines = {}, !.residue = dump.manifest]
  /\ GoOn("write")
  /\ UNCHANGED <<conf, vec, db, tar, app, marred>>

\* One line at a time, in the order ChromaDB returns them.
WriteLine ==
  /\ Doing("export", "write")
  /\ \E f \in Filings, i \in Index :
       /\ i \in stage.held[f] /\ <<f, i>> \notin dump.lines
       /\ \A j \in stage.held[f] : <<f, j>> \in dump.lines \/ i <= j
       /\ dump' = [dump EXCEPT !.lines = @ \cup {<<f, i>>}]
  /\ GoOn("write")
  /\ UNCHANGED <<conf, vec, db, tar, app, stage, marred>>

\* The manifest is written when every line is.
WriteManifest ==
  /\ Doing("export", "write")
  /\ dump.lines = LinesOf(stage.held)
  /\ dump' = [dump EXCEPT !.manifest = TRUE, !.fetched = stage.held, !.residue = FALSE]
  /\ End("exported")
  /\ UNCHANGED <<conf, vec, db, tar, app, marred>>

-----------------------------------------------------------------------------
(* PortableImportService.import_ of the filings S.                         *)

\* A directory without a manifest is refused; the client refuses a foreign
\* seal; both stores are created when absent.  The rows are read at once.
Import(h, S) ==
  /\ dump.manifest /\ CanOpen(h)
  /\ Begin("import", h, "claim", {f \in S : Lines(f) # {}})
  /\ vec' = [vec EXCEPT ![h] = OpenedVec(h)]
  /\ db' = [db EXCEPT ![h] = OpenedDb(h)]
  /\ stage' = [Nothing EXCEPT !.held = [f \in Filings |-> Lines(f)]]
  /\ UNCHANGED <<conf, tar, dump, app, marred>>

\* Embed the filing and claim it; a registered one is skipped.
ImportClaim ==
  /\ Doing("import", "claim")
  /\ \E f \in cmd.todo :
       IF f \in Rows(cmd.host)
       THEN /\ cmd' = [cmd EXCEPT !.todo = @ \ {f}]
            /\ UNCHANGED <<db, marred>>
       ELSE /\ db' = [db EXCEPT ![cmd.host].count = WithRow(@, f, stage.held[f])]
            /\ cmd' = [cmd EXCEPT !.step = f]
            /\ Mark(cmd.host, {f}, "no")
  /\ UNCHANGED <<conf, vec, tar, dump, app, stage, result, was>>

\* The embedder, or the registry's claim, fails.
ImportFails ==
  /\ Doing("import", "claim") /\ cmd.todo # {}
  /\ End("failed")
  /\ UNCHANGED <<conf, data, app, marred>>

\* Mutant: only the first slice is added.
ImportSliceOnce ==
  /\ cmd.is = "import" /\ cmd.step \in Filings
  /\ LET f == cmd.step IN
     \E k \in stage.held[f] :
       /\ vec' = [vec EXCEPT ![cmd.host].held[f] = @ \cup {i \in stage.held[f] : i <= k}]
       /\ cmd' = [cmd EXCEPT !.step = "claim", !.todo = @ \ {f}]
  /\ UNCHANGED <<conf, db, tar, dump, app, stage, result, was, marred>>

\* One slice of the chunks left to add, in their order (a chunk ChromaDB has is a
\* silent no-op); the next filing after the last.
ImportSlice ==
  /\ cmd.is = "import" /\ cmd.step \in Filings
  /\ LET f == cmd.step IN
     \E k \in stage.held[f] :
       LET slice == {i \in stage.held[f] : i <= k} IN
       /\ vec' = [vec EXCEPT ![cmd.host].held[f] = @ \cup slice]
       /\ stage' = [stage EXCEPT !.held[f] = @ \ slice]
       /\ cmd' = IF stage.held[f] = slice
                 THEN [cmd EXCEPT !.step = "claim", !.todo = @ \ {f}] ELSE cmd
  /\ UNCHANGED <<conf, db, tar, dump, app, result, was, marred>>

\* A slice fails: those written are deleted by their ids, or that fails too.
ImportAddFails ==
  /\ cmd.is = "import" /\ cmd.step \in Filings
  /\ LET f == cmd.step
         written == Lines(f) \ stage.held[f] IN
     /\ \/ vec' = [vec EXCEPT ![cmd.host].held[f] = @ \ written]
        \/ UNCHANGED vec
     /\ cmd' = [cmd EXCEPT !.step = "unclaim", !.todo = {f}]
     /\ Mark(cmd.host, {f}, "failed")
  /\ UNCHANGED <<conf, db, tar, dump, app, stage, result, was>>

\* The claim is rolled back, or that fails too; either way the import ends.
ImportUnclaim ==
  /\ Doing("import", "unclaim")
  /\ \/ \E f \in cmd.todo :
          /\ db' = [db EXCEPT ![cmd.host].count = WithoutRow(@, f)]
          /\ Mark(cmd.host, {f}, "no")
     \/ UNCHANGED <<db, marred>>
  /\ End("failed")
  /\ UNCHANGED <<conf, vec, tar, dump, app>>

Imported ==
  /\ Doing("import", "claim") /\ cmd.todo = {}
  /\ End("imported")
  /\ UNCHANGED <<conf, data, app, marred>>

-----------------------------------------------------------------------------
ArchiveNext ==
  \/ AppStart \/ AppStop \/ AppStep \/ Interrupt
  \/ Backup(Here) \/ SnapshotSqlite \/ CopyChromaTree \/ OpenTarball \/ Pack
  \/ Extract \/ ClearChroma \/ MoveChroma \/ ReplaceSqlite
  \/ Fetch \/ WriteLine \/ WriteManifest
  \/ ImportClaim \/ ImportFails \/ ImportSlice \/ ImportAddFails \/ ImportUnclaim \/ Imported
  \/ \E h \in Hosts : Restore(h)
  \/ \E S \in SUBSET Filings : Export(Here, S) \/ \E h \in Hosts : Import(h, S)

ArchiveSpec == ArchiveInit /\ [][ArchiveNext]_archiveVars

-----------------------------------------------------------------------------

(* At no moment of a backup or restore, interruptions included, are the    *)
(* live stores unreadable and the artefact too: one of them opens.         *)
LiveOrArtefact == Whole(Here) \/ (Restorable /\ Accepts(Here))

(* After an import that reported success every filing it was asked for is  *)
(* registered, and every registered filing has every chunk it was          *)
(* registered with, one the import brought every chunk the export read:    *)
(* whatever earlier imports failed at, and whatever the application stored *)
(* and deleted beside.  Left out are the filings an interrupted or failed  *)
(* store has left half done before and those of a restored host, what the  *)
(* application has touched since the import began (asked for), what it is  *)
(* at, and an export forced over the residue of another and cut off.       *)
AppIsAt(h, f) == h = Here /\ app.step \in {"add", "row"} /\ app.filing = f
ImportedWhole ==
  result = "imported" /\ ~dump.residue =>
    LET h == was.host IN
    /\ was.asked \subseteq Rows(h)
    /\ \A f \in Rows(h) : marred[h][f] = "no" /\ ~AppIsAt(h, f) =>
         /\ db[h].count[f] \subseteq vec[h].held[f]
         /\ f \in DOMAIN was.db.count \/ dump.fetched[f] \subseteq vec[h].held[f]

(* An import never changes a filing the host had: duplicates are skipped,  *)
(* not overwritten (database/portable.py:22).                              *)
ImportKeepsExisting ==
  cmd.is = "import" \/ result \in {"imported", "failed"} =>
    \A f \in DOMAIN was.db.count :
      /\ f \in Rows(was.host) /\ db[was.host].count[f] = was.db.count[f]
      /\ vec[was.host].held[f] = was.vec.held[f]

(* An interrupted import can safely be run again on the same input         *)
(* (cli/portable.py:355): when the re-run has reported success, on a host  *)
(* nobody else writes to, the filings asked for have every chunk, but for  *)
(* those a failed add could not roll back.                                 *)
RerunIsSafe ==
  result = "imported" /\ was.host = There =>
    \A f \in was.asked : marred[There][f] \in {"no", "cut"} =>
      db[There].count[f] \subseteq vec[There].held[f]

(* A restore that was refused, for its manifest or at extraction, has not  *)
(* touched the host's live stores (database/backup.py:317).                *)
RefusalKeepsLive ==
  result = "refused" => vec[was.host] = was.vec /\ db[was.host] = was.db

(* A restore that reported success has put both stores at the artefact's   *)
(* state, wherever an earlier attempt was cut off.                         *)
RestoredIsArtefact ==
  result = "restored" =>
    /\ vec[was.host] = Collection(tar.stamp, tar.held)
    /\ db[was.host] = File(tar.schema, tar.count)

(* A restore, whatever becomes of it.                                      *)
RestoreSafe == RefusalKeepsLive /\ RestoredIsArtefact /\ LiveOrArtefact

(* An import, whatever becomes of it.                                      *)
ImportSafe == ImportedWhole /\ ImportKeepsExisting
=============================================================================
