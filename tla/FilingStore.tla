----------------------------- MODULE FilingStore -----------------------------
(***************************************************************************)
(* The dual-store coordinator (database/store.py) over its two             *)
(* collaborators: the SQLite registry (database/metadata.py), which says   *)
(* which filings exist, and the ChromaDB collection (database/client.py),  *)
(* which holds their chunks.  A filing's chunks are written in Slices      *)
(* slices, because ChromaDB caps the size of one add; each slice, each     *)
(* delete and each SQLite transaction is atomic, and nothing spans two of  *)
(* them.  Workers are the threads and processes that call the store: the   *)
(* ingest worker, the routes' threadpool, the CLI.  Any call of either     *)
(* store may raise; a command may be interrupted between two calls while   *)
(* the others go on, or the machine may stop, which also may take back     *)
(* registry inserts committed under synchronous=NORMAL.                    *)
(***************************************************************************)
EXTENDS Naturals, FiniteSets

CONSTANTS Workers,     \* threads of control that call the store
          Accessions,  \* accession numbers
          Keys,        \* (ticker, form type, filing date) triples
          Key,         \* the triple of an accession, UNIQUE in the registry
          Slices       \* ChromaDB adds needed for one filing

ASSUME StoreAssumption ==
  /\ Key \in [Accessions -> Keys]
  /\ Slices \in Nat \ {0}

VARIABLES
  rows,        \* accessions registered in SQLite
  chunks,      \* chunks[a]: the slices of a that ChromaDB holds
  live,        \* the ChromaDB collection exists
  unsynced,    \* rows whose commit a power loss may still drop
  aged,        \* rows older than the retention cutoff
  pc, kind, target, next,  \* per worker: step, call, accessions, next slice
  overlapped,  \* history: a store of the accession was under way while a
               \* delete was between its halves, or began then, or two
               \* stores overlapped of which one on the carry-over path
  faulted      \* history: a failed or interrupted second step left the
               \* accession half done

data == <<rows, chunks, live, unsynced, aged>>
ctl  == <<pc, kind, target, next>>
hist == <<overlapped, faulted>>
vars == <<data, ctl, hist>>

Full == 1..Slices

Steps == {"idle", "claim", "add", "unadd", "unclaim", "register", "undo",
          "lookup", "index", "drop", "create", "rows"}
Kinds == {"none", "atomic", "carry", "delete", "evict", "clear"}

\* A worker that has begun to write the accession, and one that has deleted its
\* chunks and not yet its row.
Storing(w, a)  == /\ pc[w] \in {"add", "unadd", "unclaim", "register", "undo"}
                  /\ a \in target[w]
Deleting(w, a) == pc[w] \in {"create", "rows"} /\ a \in target[w]

Stored(S)  == {a \in S : \E w \in Workers : Storing(w, a)}
Deleted(S) == {a \in S : \E w \in Workers : Deleting(w, a)}

Taken(a) == \E b \in rows : b = a \/ Key[b] = Key[a]

Init ==
  /\ rows = {} /\ unsynced = {} /\ aged = {}
  /\ chunks = [a \in Accessions |-> {}]
  /\ live = TRUE
  /\ pc = [w \in Workers |-> "idle"]
  /\ kind = [w \in Workers |-> "none"]
  /\ target = [w \in Workers |-> {}]
  /\ next = [w \in Workers |-> 1]
  /\ overlapped = {} /\ faulted = {}

-----------------------------------------------------------------------------
(* Control helpers: begin a call, move to its next step, return from it.   *)

Begin(w, k, S, step) ==
  /\ pc[w] = "idle"
  /\ pc' = [pc EXCEPT ![w] = step]
  /\ kind' = [kind EXCEPT ![w] = k]
  /\ target' = [target EXCEPT ![w] = S]
  /\ next' = [next EXCEPT ![w] = 1]

GoTo(w, step) ==
  /\ pc' = [pc EXCEPT ![w] = step]
  /\ IF step = "idle"
     THEN /\ target' = [target EXCEPT ![w] = {}]
          /\ kind' = [kind EXCEPT ![w] = "none"]
          /\ next' = [next EXCEPT ![w] = 1]
     ELSE UNCHANGED <<kind, target, next>>

At(w, step) == pc[w] = step

-----------------------------------------------------------------------------
(* store_filing(register_if_new=True): the SQLite claim, then ChromaDB.    *)

StoreAtomic(w, a) ==
  /\ Begin(w, "atomic", {a}, "claim")
  /\ UNCHANGED <<data, hist>>

\* Mutant: the insert without the check that holds the lock with it.
ClaimUnchecked(w) ==
  /\ At(w, "claim")
  /\ rows' = rows \cup target[w]
  /\ unsynced' = unsynced \cup target[w]
  /\ overlapped' = overlapped \cup Deleted(target[w])
  /\ GoTo(w, "add")
  /\ UNCHANGED <<chunks, live, aged, faulted>>

\* register_filing_if_new inserted the row.
Claim(w) ==
  /\ At(w, "claim")
  /\ \A a \in target[w] : ~Taken(a)
  /\ rows' = rows \cup target[w]
  /\ unsynced' = unsynced \cup target[w]
  /\ overlapped' = overlapped \cup Deleted(target[w])
                     \cup {a \in target[w] : \E v \in Workers :
                              Storing(v, a) /\ kind[v] = "carry"}
  /\ GoTo(w, "add")
  /\ UNCHANGED <<chunks, live, aged, faulted>>

\* It found the accession, or the UNIQUE triple refused the insert: False.
ClaimRefused(w) ==
  /\ At(w, "claim")
  /\ \E a \in target[w] : Taken(a)
  /\ GoTo(w, "idle")
  /\ UNCHANGED <<data, hist>>

ClaimFails(w) == At(w, "claim") /\ GoTo(w, "idle") /\ UNCHANGED <<data, hist>>

-----------------------------------------------------------------------------
(* store_filing(register_if_new=False): ChromaDB, then SQLite.  The caller *)
(* has looked the accession up and found no row.                           *)

StoreCarryOver(w, a) ==
  /\ a \notin rows
  /\ Begin(w, "carry", {a}, "add")
  /\ overlapped' = overlapped \cup Deleted({a}) \cup Stored({a})
  /\ UNCHANGED <<data, faulted>>

Register(w) ==
  /\ At(w, "register")
  /\ \A a \in target[w] : ~Taken(a)
  /\ rows' = rows \cup target[w]
  /\ unsynced' = unsynced \cup target[w]
  /\ GoTo(w, "idle")
  /\ UNCHANGED <<chunks, live, aged, hist>>

\* IntegrityError or a driver failure: roll the ChromaDB chunks back.
RegisterFails(w) == At(w, "register") /\ GoTo(w, "undo") /\ UNCHANGED <<data, hist>>

\* _rollback_chroma, best effort.
Undo(w) ==
  /\ At(w, "undo") /\ live
  /\ chunks' = [a \in Accessions |-> IF a \in target[w] THEN {} ELSE chunks[a]]
  /\ GoTo(w, "idle")
  /\ UNCHANGED <<rows, live, unsynced, aged, hist>>

UndoFails(w) ==
  /\ At(w, "undo")
  /\ faulted' = faulted \cup target[w]
  /\ GoTo(w, "idle")
  /\ UNCHANGED <<data, overlapped>>

-----------------------------------------------------------------------------
(* ChromaDBClient.store_filing: one add per slice; an add of chunk ids that *)
(* already exist is a silent no-op.                                         *)

\* Mutant: a failed atomic store forgets to take the claim back.
ClaimKept(w) == "idle"

AfterAdd(w)    == IF kind[w] = "atomic" THEN "idle" ELSE "register"
AfterUnadd(w)  == IF kind[w] = "atomic" THEN "unclaim" ELSE "idle"

AddSlice(w) ==
  /\ At(w, "add") /\ live
  /\ chunks' = [a \in Accessions |->
                  IF a \in target[w] THEN chunks[a] \cup {next[w]} ELSE chunks[a]]
  /\ IF next[w] = Slices
     THEN GoTo(w, AfterAdd(w))
     ELSE /\ next' = [next EXCEPT ![w] = @ + 1]
          /\ UNCHANGED <<pc, kind, target>>
  /\ UNCHANGED <<rows, live, unsynced, aged, hist>>

\* The slices already written are deleted again before the error propagates.
AddFails(w) ==
  /\ At(w, "add")
  /\ GoTo(w, IF next[w] = 1 THEN AfterUnadd(w) ELSE "unadd")
  /\ UNCHANGED <<data, hist>>

Unadd(w) ==
  /\ At(w, "unadd") /\ live
  /\ chunks' = [a \in Accessions |->
                  IF a \in target[w] THEN chunks[a] \ (1..(next[w] - 1)) ELSE chunks[a]]
  /\ GoTo(w, AfterUnadd(w))
  /\ UNCHANGED <<rows, live, unsynced, aged, hist>>

UnaddFails(w) ==
  /\ At(w, "unadd")
  /\ faulted' = faulted \cup target[w]
  /\ GoTo(w, AfterUnadd(w))
  /\ UNCHANGED <<data, overlapped>>

\* _rollback_sqlite, best effort.
Unclaim(w) ==
  /\ At(w, "unclaim")
  /\ rows' = rows \ target[w]
  /\ aged' = aged \ target[w]
  /\ unsynced' = {}
  /\ GoTo(w, "idle")
  /\ UNCHANGED <<chunks, live, hist>>

UnclaimFails(w) ==
  /\ At(w, "unclaim")
  /\ faulted' = faulted \cup target[w]
  /\ GoTo(w, "idle")
  /\ UNCHANGED <<data, overlapped>>

-----------------------------------------------------------------------------
(* delete_filing, delete_filings_batch and evict_expired: ChromaDB first,  *)
(* SQLite second.  The routes and the CLI look the rows up before they     *)
(* call; the task manager's rollback and FIFO eviction do not.             *)

DeleteRequest(w, S) ==
  /\ Begin(w, "delete", S, "lookup")
  /\ UNCHANGED <<data, hist>>

LookUp(w) ==
  /\ At(w, "lookup")
  /\ LET found == target[w] \cap rows IN
       /\ pc' = [pc EXCEPT ![w] = IF found = {} THEN "idle" ELSE "index"]
       /\ kind' = [kind EXCEPT ![w] = IF found = {} THEN "none" ELSE @]
       /\ target' = [target EXCEPT ![w] = found]
  /\ UNCHANGED <<data, next, hist>>

DeleteBatch(w, S) ==
  /\ Begin(w, "delete", S, "index")
  /\ UNCHANGED <<data, hist>>

\* list_expired_filings, then delete_filings_batch on the accessions it listed,
\* whatever stands under them by then.
EvictExpired(w) ==
  /\ aged # {}
  /\ Begin(w, "evict", aged, "index")
  /\ UNCHANGED <<data, hist>>

DeleteIndex(w) ==
  /\ At(w, "index") /\ live
  /\ chunks' = [a \in Accessions |-> IF a \in target[w] THEN {} ELSE chunks[a]]
  /\ overlapped' = overlapped \cup Stored(target[w])
  /\ GoTo(w, "rows")
  /\ UNCHANGED <<rows, live, unsynced, aged, faulted>>

\* Mutant: the rows are deleted although the chunks could not be.
DeleteRegardless(w) == At(w, "index") /\ GoTo(w, "rows") /\ UNCHANGED <<data, hist>>

DeleteIndexFails(w) == At(w, "index") /\ GoTo(w, "idle") /\ UNCHANGED <<data, hist>>

\* SQLite takes a batch of 999 accessions at a time, each committed by itself.
DeleteRowsBatch(w, S) ==
  /\ At(w, "rows") /\ kind[w] # "clear"
  /\ S # {} /\ S \subseteq target[w] /\ S # target[w]
  /\ rows' = rows \ S
  /\ aged' = aged \ S
  /\ unsynced' = {}
  /\ target' = [target EXCEPT ![w] = @ \ S]
  /\ UNCHANGED <<chunks, live, pc, kind, next, hist>>

DeleteRows(w) ==
  /\ At(w, "rows")
  /\ rows' = rows \ target[w]
  /\ aged' = aged \ target[w]
  /\ unsynced' = {}
  /\ GoTo(w, "idle")
  /\ UNCHANGED <<chunks, live, hist>>

DeleteRowsFails(w) ==
  /\ At(w, "rows")
  /\ faulted' = faulted \cup target[w]
  /\ GoTo(w, "idle")
  /\ UNCHANGED <<data, overlapped>>

-----------------------------------------------------------------------------
(* clear_all: drop the collection, create it again with its stamp, then    *)
(* delete every row (DeleteRows, whose target is every accession).         *)

ClearAll(w) ==
  /\ Begin(w, "clear", Accessions, "drop")
  /\ UNCHANGED <<data, hist>>

\* clear_collection leaves an empty collection alone.
DropCollection(w) ==
  /\ At(w, "drop") /\ live
  /\ overlapped' = overlapped \cup Stored(Accessions)
  /\ IF \A a \in Accessions : chunks[a] = {}
     THEN GoTo(w, "rows") /\ UNCHANGED <<chunks, live>>
     ELSE /\ live' = FALSE
          /\ chunks' = [a \in Accessions |-> {}]
          /\ GoTo(w, "create")
  /\ UNCHANGED <<rows, unsynced, aged, faulted>>

DropFails(w) == At(w, "drop") /\ GoTo(w, "idle") /\ UNCHANGED <<data, hist>>

CreateCollection(w) ==
  /\ At(w, "create")
  /\ live' = TRUE
  /\ GoTo(w, "rows")
  /\ UNCHANGED <<rows, chunks, unsynced, aged, hist>>

\* Every later call fails on the dropped collection until a restart.
CreateFails(w) ==
  /\ At(w, "create")
  /\ faulted' = Accessions
  /\ GoTo(w, "idle")
  /\ UNCHANGED <<data, overlapped>>

-----------------------------------------------------------------------------
(* The environment: rows age, calls are interrupted, the power goes.       *)

\* A store is over long before its row is as old as the cutoff.
GrowOld(a) ==
  /\ a \in rows \ aged /\ Stored({a}) = {}
  /\ aged' = aged \cup {a}
  /\ UNCHANGED <<rows, chunks, live, unsynced, ctl, hist>>

\* Between its first and its last effect a call is half done.
HalfDone(w) == pc[w] \notin {"idle", "claim", "lookup", "index", "drop"}
Interrupted == {a \in Accessions : \E w \in Workers : HalfDone(w) /\ a \in target[w]}

\* One call is interrupted while the others go on: Ctrl-C in a command passes
\* the "except DatabaseError" that would have rolled the first half back.
CutOff(w) ==
  /\ pc[w] # "idle"
  /\ faulted' = IF HalfDone(w) THEN faulted \cup target[w] ELSE faulted
  /\ GoTo(w, "idle")
  /\ UNCHANGED <<data, overlapped>>

\* A power loss drops the rows in lost; a process crash drops none.
Crash(lost) ==
  /\ lost \subseteq unsynced
  /\ \E w \in Workers : pc[w] # "idle" \/ lost # {}
  /\ rows' = rows \ lost
  /\ aged' = aged \ lost
  /\ unsynced' = IF lost = {} THEN unsynced ELSE {}
  /\ live' = TRUE
  /\ pc' = [w \in Workers |-> "idle"]
  /\ faulted' = faulted \cup Interrupted \cup lost
  /\ kind' = [w \in Workers |-> "none"]
  /\ target' = [w \in Workers |-> {}]
  /\ next' = [w \in Workers |-> 1]
  /\ UNCHANGED <<chunks, overlapped>>

StoreStep(w) ==
  \/ \E a \in Accessions : StoreAtomic(w, a) \/ StoreCarryOver(w, a)
  \/ Claim(w) \/ ClaimRefused(w) \/ ClaimFails(w)
  \/ AddSlice(w) \/ AddFails(w) \/ Unadd(w) \/ UnaddFails(w)
  \/ Unclaim(w) \/ UnclaimFails(w)
  \/ Register(w) \/ RegisterFails(w) \/ Undo(w) \/ UndoFails(w)

DeleteStep(w) ==
  \/ \E S \in SUBSET Accessions \ {{}} : DeleteRequest(w, S) \/ DeleteBatch(w, S)
  \/ LookUp(w) \/ EvictExpired(w)
  \/ DeleteIndex(w) \/ DeleteIndexFails(w)
  \/ (\E S \in SUBSET target[w] : DeleteRowsBatch(w, S))
  \/ DeleteRows(w) \/ DeleteRowsFails(w)
  \/ ClearAll(w) \/ DropCollection(w) \/ DropFails(w)
  \/ CreateCollection(w) \/ CreateFails(w)

Environment ==
  \/ \E a \in Accessions : GrowOld(a)
  \/ \E w \in Workers : CutOff(w)
  \/ \E L \in SUBSET unsynced : Crash(L)

Next == (\E w \in Workers : StoreStep(w) \/ DeleteStep(w)) \/ Environment

Spec == Init /\ [][Next]_vars

-----------------------------------------------------------------------------
(* Properties.                                                             *)

TypeOK ==
  /\ rows \subseteq Accessions
  /\ chunks \in [Accessions -> SUBSET Full]
  /\ live \in BOOLEAN
  /\ unsynced \subseteq rows /\ aged \subseteq rows
  /\ pc \in [Workers -> Steps] /\ kind \in [Workers -> Kinds]
  /\ target \in [Workers -> SUBSET Accessions]
  /\ next \in [Workers -> 1..Slices]
  /\ overlapped \subseteq Accessions /\ faulted \subseteq Accessions

\* At most one caller is past the claim of an accession, and while it is the
\* registry row it claimed stays: concurrent atomic callers "converge on
\* exactly one winner" (store.py, _store_filing_atomic) even through the
\* winner's roll back, as long as nobody deletes the filing meanwhile.
OneWriterPerFiling ==
  \A a \in Accessions \ overlapped : \A v, w \in Workers :
    Storing(v, a) =>
      /\ Storing(w, a) => v = w
      /\ kind[v] = "atomic" => a \in rows

AtRest(a) == \A w \in Workers : a \in target[w] => ~HalfDone(w)

\* The dual-store rule: whenever no call is at work on a filing, SQLite has
\* its row exactly when ChromaDB has every chunk of it, and ChromaDB has none
\* otherwise.  The only excuses are a store that overlapped a delete (or a
\* carry-over store), a failed second step, and a crash between two steps.
StoresAgree ==
  \A a \in Accessions \ (overlapped \cup faulted) :
    AtRest(a) => chunks[a] = IF a \in rows THEN Full ELSE {}

\* A delete leaves nothing behind of a filing whose row it takes, whatever
\* earlier failures and crashes left there: a retry cleans up the half done
\* delete, the orphan row and the orphan chunks alike.
DeleteLeavesNothing ==
  [][\A w \in Workers : (DeleteRows(w) \/ \E S \in SUBSET target[w] : DeleteRowsBatch(w, S)) =>
       \A a \in target[w] \ (target'[w] \cup overlapped) : a \notin rows' /\ chunks'[a] = {}]_vars

\* A store_filing that returns True has put the row and every chunk in place,
\* also when it follows a crash or a failed roll back of the same filing.
StoreMakesBoth ==
  [][\A w \in Workers : (AddSlice(w) \/ Register(w)) /\ pc'[w] = "idle" =>
       \A a \in target[w] \ overlapped : a \in rows' /\ chunks'[a] = Full]_vars

\* A call that reported success has done all of it.
CallsComplete == DeleteLeavesNothing /\ StoreMakesBoth

\* evict_expired promises to "drop filings older than the cutoff" (store.py:280):
\* a filing that stands complete in the registry when the sweep deletes it has
\* aged.  The code does not keep this: the sweep deletes by accession what it
\* listed earlier, also a filing deleted and stored anew in between.
SweepSparesTheNew ==
  [][\A w \in Workers : kind[w] = "evict" /\ DeleteRows(w) =>
       \A a \in target[w] \cap rows : a \in aged \/ Stored({a}) # {}]_vars

-----------------------------------------------------------------------------
(* The inductive invariant behind the properties, one conjunct per idea.   *)

\* Which calls may stand at which step.
Control ==
  \A w \in Workers :
    /\ kind[w] = "none" => pc[w] = "idle" /\ target[w] = {}
    /\ kind[w] = "atomic" => pc[w] \in {"claim", "add", "unadd", "unclaim"}
    /\ pc[w] = "claim" => next[w] = 1
    /\ kind[w] = "carry" => pc[w] \in {"add", "unadd", "register", "undo"}
    /\ kind[w] \in {"delete", "evict"} => pc[w] \in {"lookup", "index", "rows"}
    /\ kind[w] = "clear" => pc[w] \in {"drop", "create", "rows"} /\ target[w] = Accessions

\* A filing being stored is being stored by one worker and deleted by none.
Exclusive(a) ==
  \A v, w \in Workers :
    Storing(v, a) => (Storing(w, a) => v = w) /\ ~Deleting(w, a)

ClaimHeld(a) ==
  \A v \in Workers : Storing(v, a) /\ kind[v] = "atomic" => a \in rows

\* The slices a store in progress has written are there; past its first half
\* a delete has emptied the index.
WrittenKept(a) ==
  \A w \in Workers : a \in target[w] =>
    /\ pc[w] \in {"add", "unadd"} => 1..(next[w] - 1) \subseteq chunks[a]
    /\ pc[w] \in {"register", "undo"} => Full \subseteq chunks[a]
    /\ pc[w] \in {"rows", "create"} => chunks[a] = {}

\* What the two stores hold while a store is in progress, and when none is.
StoringExact(a) ==
  \A v \in Workers : Storing(v, a) =>
    /\ pc[v] \in {"add", "unadd"} => chunks[a] = 1..(next[v] - 1)
    /\ pc[v] = "unclaim" => chunks[a] = {}
    /\ kind[v] = "carry" => a \notin rows

RestingExact(a) == AtRest(a) => chunks[a] = IF a \in rows THEN Full ELSE {}

StoreInv ==
  /\ TypeOK
  /\ Control
  /\ \A a \in Accessions \ overlapped : Exclusive(a) /\ ClaimHeld(a) /\ WrittenKept(a)
  /\ \A a \in Accessions \ (overlapped \cup faulted) : StoringExact(a) /\ RestingExact(a)
=============================================================================
