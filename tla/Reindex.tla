------------------------------- MODULE Reindex -------------------------------
(***************************************************************************)
(* The sec_filings collection, sealed with the stamp of the embedder that  *)
(* made its vectors: service processes that open it, check the seal, store,*)
(* delete and clear (database/client.py), and the re-index run that copies *)
(* it through a new embedder into a staging collection and swaps the two   *)
(* (database/reindex.py).  ChromaDB has no rename: the swap drops, creates *)
(* and copies.  A handle names one collection object and is dead once that *)
(* object is dropped, also if another takes its name.  Every ChromaDB call *)
(* may fail, and the process of a run may end between any two of them.     *)
(***************************************************************************)
EXTENDS Naturals, Sequences, FiniteSets, SequencesExt

CONSTANTS Chunks,   \* chunk ids
          Stamps,   \* embedder stamps
          Clients,  \* service processes
          Batch     \* batch_size

ASSUME ReindexAssumption ==
  /\ Batch \in Nat \ {0}
  /\ IsFiniteSet(Chunks)
  /\ {"none", "missing"} \cap Stamps = {} /\ {"source", "copy"} \cap Clients = {}

VARIABLES
  current, staging,  \* the two collections, or Missing
  handles,           \* who holds a handle on the present live collection
  cpc, stamp,        \* where each client stands, and the stamp it is set up for
  rpc,               \* where the run stands
  source, wanted,    \* the stamps of the run
  total, offset,     \* chunks to read, and how far it is
  base,              \* history: the live chunks when the run began
  disturbed,         \* history: a client changed it since
  takenOver          \* history: a seal or a clear took over a collection
                     \* that another had sealed since it looked

clientVars  == <<cpc, stamp>>
runVars     == <<rpc, source, wanted, total, offset>>
reindexVars == <<current, staging, handles, clientVars, runVars, base, disturbed, takenOver>>

\* Rows are in insertion order; each has a chunk and the stamp of its vector.
Missing == [seal |-> "missing", rows |-> <<>>]
Empty(s) == [seal |-> s, rows |-> <<>>]
ChunksOf(c) == {c.rows[i].chunk : i \in 1..Len(c.rows)}

\* The rows of other chunks, in their order.
RowsBut(rows, ids) ==
  LET kept[i \in 0..Len(rows)] ==
        IF i = 0 THEN <<>>
        ELSE IF rows[i].chunk \in ids THEN kept[i - 1] ELSE Append(kept[i - 1], rows[i])
  IN kept[Len(rows)]

\* add() skips the ids that are there.
Adding(c, new) == [c EXCEPT !.rows = @ \o RowsBut(new, ChunksOf(c))]

Page(c, from) ==
  SubSeq(c.rows, from + 1, IF from + Batch < Len(c.rows) THEN from + Batch ELSE Len(c.rows))

\* An empty data directory, or a collection from before the stamps.
ReindexInit ==
  /\ \/ current = Missing
     \/ \E o \in SetToSeqs(Chunks) :
          current = [seal |-> "none", rows |-> [i \in 1..Len(o) |-> [chunk |-> o[i], by |-> "none"]]]
  /\ staging = Missing
  /\ handles = {}
  /\ cpc = [c \in Clients |-> "closed"]
  /\ stamp \in [Clients -> Stamps]
  /\ rpc = "idle" /\ source = "none" /\ wanted = "none"
  /\ total = 0 /\ offset = 0
  /\ base = {} /\ disturbed = FALSE /\ takenOver = FALSE

-----------------------------------------------------------------------------
(* A service process.                                                      *)

To(c, step) == cpc' = [cpc EXCEPT ![c] = step]

\* get_or_create_collection.
Open(c) ==
  /\ cpc[c] = "closed"
  /\ current' = IF current = Missing THEN Empty("none") ELSE current
  /\ disturbed' = (disturbed \/ current = Missing)
  /\ handles' = handles \cup {c}
  /\ To(c, IF current.seal \in Stamps
           THEN IF current.seal = stamp[c] THEN "ready" ELSE "refused"
           ELSE "unsealed")
  /\ UNCHANGED <<staging, stamp, runVars, base, takenOver>>

\* Mutant: a collection without a seal is sealed whatever it holds.
SealAnything(c) ==
  /\ cpc[c] = "unsealed"
  /\ c \in handles
  /\ current' = [current EXCEPT !.seal = stamp[c]]
  /\ disturbed' = TRUE
  /\ takenOver' = (takenOver \/ current.seal \in Stamps \ {stamp[c]})
  /\ To(c, "ready")
  /\ UNCHANGED <<staging, handles, stamp, runVars, base>>

\* _verify_stamp found no stamp in the metadata it opened with: count, then seal.
Seal(c) ==
  /\ cpc[c] = "unsealed" /\ c \in handles
  /\ current.rows = <<>>
  /\ current' = [current EXCEPT !.seal = stamp[c]]
  /\ disturbed' = TRUE
  /\ takenOver' = (takenOver \/ current.seal \in Stamps \ {stamp[c]})
  /\ To(c, "ready")
  /\ UNCHANGED <<staging, handles, stamp, runVars, base>>

RefuseUnsealed(c) ==
  /\ cpc[c] = "unsealed"
  /\ c \in handles => current.rows # <<>>
  /\ To(c, "refused")
  /\ UNCHANGED <<current, staging, handles, stamp, runVars, base, disturbed, takenOver>>

\* The process ends and starts again, set up for any embedder.
Restart(c) ==
  /\ \E s \in Stamps : stamp' = [stamp EXCEPT ![c] = s]
  /\ To(c, "closed")
  /\ handles' = handles \ {c}
  /\ UNCHANGED <<current, staging, runVars, base, disturbed, takenOver>>

Store(c, k) ==
  /\ cpc[c] = "ready" /\ c \in handles
  /\ k \notin ChunksOf(current)
  /\ current' = Adding(current, <<[chunk |-> k, by |-> stamp[c]]>>)
  /\ disturbed' = TRUE
  /\ UNCHANGED <<staging, handles, clientVars, runVars, base, takenOver>>

Delete(c, k) ==
  /\ cpc[c] = "ready" /\ c \in handles
  /\ k \in ChunksOf(current)
  /\ current' = [current EXCEPT !.rows = RowsBut(@, {k})]
  /\ disturbed' = TRUE
  /\ UNCHANGED <<staging, handles, clientVars, runVars, base, takenOver>>

\* clear_collection: count through the handle, drop and create by name.
ClearCount(c) ==
  /\ cpc[c] = "ready" /\ c \in handles /\ current.rows # <<>>
  /\ To(c, "clear")
  /\ UNCHANGED <<current, staging, handles, stamp, runVars, base, disturbed, takenOver>>

ClearDrop(c) ==
  /\ cpc[c] = "clear"
  /\ IF current = Missing
     THEN To(c, "ready") /\ UNCHANGED <<current, handles, disturbed>>
     ELSE To(c, "recreate") /\ current' = Missing /\ handles' = {} /\ disturbed' = TRUE
  /\ UNCHANGED <<staging, stamp, runVars, base, takenOver>>

ClearCreate(c) ==
  /\ cpc[c] = "recreate"
  /\ current' = IF current = Missing THEN Empty(stamp[c]) ELSE current
  /\ handles' = handles \cup {c}
  /\ disturbed' = TRUE
  /\ takenOver' = (takenOver \/ current.seal \notin {"missing", stamp[c]})
  /\ To(c, "ready")
  /\ UNCHANGED <<staging, stamp, runVars, base>>

-----------------------------------------------------------------------------
(* ReindexService.run.  "source" and "copy" are the handles it holds on    *)
(* the live collection, before and after the swap.                         *)

Go(step) == rpc' = step
Resting  == {"idle", "refused", "done", "failed", "interrupted"}

\* Open the source and compare the stamps.
Start(t) ==
  /\ rpc \in Resting
  /\ base' = ChunksOf(current) /\ disturbed' = FALSE
  /\ source' = current.seal /\ wanted' = t
  /\ total' = 0 /\ offset' = 0
  /\ IF current.seal \in Stamps \ {t}
     THEN Go("count") /\ handles' = (handles \ {"copy"}) \cup {"source"}
     ELSE Go("refused") /\ handles' = handles \ {"source", "copy"}
  /\ UNCHANGED <<current, staging, clientVars, takenOver>>

Count ==
  /\ rpc = "count"
  /\ IF "source" \in handles /\ current.rows # <<>>
     THEN total' = Len(current.rows) /\ Go("residue")
     ELSE Go("refused") /\ UNCHANGED total
  /\ UNCHANGED <<current, staging, handles, clientVars, source, wanted, offset, base, disturbed, takenOver>>

\* Mutant: what a run that was interrupted left is kept and added to.
KeepResidue ==
  /\ rpc = "residue"
  /\ staging' = IF staging = Missing THEN Empty(wanted) ELSE staging
  /\ Go("page")
  /\ UNCHANGED <<current, handles, clientVars, source, wanted, total, offset, base, disturbed, takenOver>>

\* The residue is dropped, which may fail in silence, and staging created.
CreateStaging ==
  /\ rpc = "residue"
  /\ staging' = Empty(wanted)
  /\ Go("page")
  /\ UNCHANGED <<current, handles, clientVars, source, wanted, total, offset, base, disturbed, takenOver>>

CreateStagingFails ==
  /\ rpc = "residue"
  /\ staging' \in {staging, Missing}
  /\ Go("failed")
  /\ UNCHANGED <<current, handles, clientVars, source, wanted, total, offset, base, disturbed, takenOver>>

Reembedded(rows) == [i \in 1..Len(rows) |-> [rows[i] EXCEPT !.by = wanted]]

\* Mutant: the last page is left out.
PagesButOne == offset + Batch < total
\* One more page: the offsets are fixed by the count at the start, and a page
\* that comes back empty ends the copy.
MorePages == offset < total

EmbedPage ==
  /\ rpc = "page" /\ MorePages /\ "source" \in handles
  /\ LET batch == Page(current, offset) IN
       IF batch = <<>> THEN Go("drop") /\ UNCHANGED <<staging, offset>>
       ELSE /\ staging' = Adding(staging, Reembedded(batch))
            /\ offset' = offset + Batch
            /\ UNCHANGED rpc
  /\ UNCHANGED <<current, handles, clientVars, source, wanted, total, base, disturbed, takenOver>>

Embedded ==
  /\ rpc = "page" /\ ~MorePages
  /\ Go("drop")
  /\ UNCHANGED <<current, staging, handles, clientVars, source, wanted, total, offset, base, disturbed, takenOver>>

\* _swap_collections.
DropLive ==
  /\ rpc = "drop" /\ current # Missing
  /\ current' = Missing /\ handles' = {}
  /\ Go("create")
  /\ UNCHANGED <<staging, clientVars, source, wanted, total, offset, base, disturbed, takenOver>>

CreateLive ==
  /\ rpc = "create" /\ current = Missing
  /\ current' = Empty(wanted) /\ handles' = {"copy"}
  /\ offset' = 0
  /\ Go("copy")
  /\ UNCHANGED <<staging, clientVars, source, wanted, total, base, disturbed, takenOver>>

CopyPage ==
  /\ rpc = "copy" /\ "copy" \in handles
  /\ Page(staging, offset) # <<>>
  /\ current' = Adding(current, Page(staging, offset))
  /\ offset' = offset + Len(Page(staging, offset))
  /\ UNCHANGED <<staging, handles, clientVars, rpc, source, wanted, total, base, disturbed, takenOver>>

Copied ==
  /\ rpc = "copy" /\ Page(staging, offset) = <<>>
  /\ Go("done")
  /\ staging' \in {Missing, staging}
  /\ UNCHANGED <<current, handles, clientVars, source, wanted, total, offset, base, disturbed, takenOver>>

\* Any exception, the embedder's too; a dead handle always raises.
Fail ==
  /\ rpc \in {"page", "drop", "create", "copy"}
  /\ Go("cleanup")
  /\ UNCHANGED <<current, staging, handles, clientVars, source, wanted, total, offset, base, disturbed, takenOver>>

\* Staging is dropped, which may fail in silence, and the error raised again.
CleanUp ==
  /\ rpc = "cleanup"
  /\ Go("failed")
  /\ staging' \in {Missing, staging}
  /\ UNCHANGED <<current, handles, clientVars, source, wanted, total, offset, base, disturbed, takenOver>>

\* The process dies, or a KeyboardInterrupt passes the handler.
Interrupt ==
  /\ rpc \notin Resting
  /\ Go("interrupted")
  /\ handles' = handles \ {"source", "copy"}
  /\ UNCHANGED <<current, staging, clientVars, source, wanted, total, offset, base, disturbed, takenOver>>

-----------------------------------------------------------------------------
Run ==
  \/ Count \/ CreateStaging \/ CreateStagingFails \/ EmbedPage \/ Embedded
  \/ DropLive \/ CreateLive \/ CopyPage \/ Copied \/ Fail \/ CleanUp

Client(c) ==
  \/ Open(c) \/ Seal(c) \/ RefuseUnsealed(c) \/ Restart(c)
  \/ \E k \in Chunks : Store(c, k) \/ Delete(c, k)
  \/ ClearCount(c) \/ ClearDrop(c) \/ ClearCreate(c)

ReindexNext == Run \/ Interrupt \/ (\E t \in Stamps : Start(t)) \/ \E c \in Clients : Client(c)

ReindexSpec == ReindexInit /\ [][ReindexNext]_reindexVars

-----------------------------------------------------------------------------
Rows == [chunk : Chunks, by : Stamps \cup {"none"}]

\* A service that passed the check and still holds the collection compares its
\* queries with vectors of its own embedder only, also after a swap.
QueriesMatch ==
  ~takenOver => \A c \in Clients : cpc[c] = "ready" /\ c \in handles =>
    \A i \in 1..Len(current.rows) : current.rows[i].by = stamp[c]

\* A run that succeeds beside no writer leaves exactly the chunks it found.
DoneKeepsAll ==
  rpc = "done" /\ ~disturbed => ChunksOf(current) = base

\* Whenever a run is interrupted, beside no writer, every chunk is still in one
\* of the two collections.
InterruptedKeepsAll ==
  rpc = "interrupted" /\ ~disturbed => base \subseteq ChunksOf(current) \cup ChunksOf(staging)

\* ReindexService.run: "On any failure ... the live collection is left untouched".
FailureLeavesLive == rpc = "failed" /\ ~disturbed => current.seal = source /\ ChunksOf(current) = base

\* Every vector of the live collection was made by the embedder of its seal,
\* whatever was interrupted or came in between.  A clear that takes over a
\* collection made since it dropped its own is not checked: the one exception.
SealTellsVectors ==
  ~takenOver => \A i \in 1..Len(current.rows) : current.rows[i].by = current.seal

\* Whatever a service or a run finds, seal, vectors and queries are of one model.
VectorsSound == SealTellsVectors /\ QueriesMatch
=============================================================================
