------------------------------ MODULE Catalogue ------------------------------
(***************************************************************************)
(* The model catalogue: what each model can do and costs.  A bundled       *)
(* baseline is the floor; a refresh, an administrator's call or the        *)
(* operator's command, fetches an upstream document, normalises it,        *)
(* validates it and replaces an overlay file; every process merges         *)
(* baseline and overlay once, on first use, and caches the result without  *)
(* a lock (providers/catalogue.py, providers/refresh.py,                   *)
(* providers/registry.py, api/routes/catalogue.py).  One served provider   *)
(* stands for all: the merge goes provider by provider.                    *)
(***************************************************************************)
EXTENDS Naturals, Sequences

CONSTANTS Workers,    \* API processes
          Threads,    \* threads of the workers, or of the operator's command
          Served,     \* the key of the provider this build serves
          Aliases,    \* upstream ids that stand for it
          Baseline,   \* the bundled rows, by slug
          Documents,  \* upstream documents: sequences of [id, slug, row]
          MaxWrites   \* bound: changes of the overlay file

(* A slug is <<name, spelling>>: spellings differ in case only, numbered   *)
(* in the order a sorted file lists them.  A row is [flag, window, cost]:  *)
(* a capability, a token count ("unknown" or not) and a cost ("none" or    *)
(* not); upstream a count may be "infinite", a cost "negative" or "huge".  *)

CatalogueRows == [flag : BOOLEAN, window : STRING, cost : STRING]

\* The bundled names differ in more than their case, and its costs are costs; a
\* key of an upstream JSON object stands in it once.
ASSUME CatalogueAssumption ==
  /\ MaxWrites \in Nat /\ Served \notin Aliases
  /\ \A s \in DOMAIN Baseline :
       /\ \A u \in DOMAIN Baseline : s[1] = u[1] => s = u
       /\ Baseline[s].cost \notin {"negative", "huge"}
  /\ \A doc \in Documents :
       /\ Len(doc) \in Nat
       /\ \A i \in 1..Len(doc) : doc[i].row \in CatalogueRows /\ doc[i].slug[2] \in Nat
       /\ \A i, j \in 1..Len(doc) : doc[i].id = doc[j].id /\ doc[i].slug = doc[j].slug => i = j

VARIABLES
  overlay,   \* the overlay file: rows, whether whole, by whom, which version
  active,    \* active[w]: the worker's cached catalogue
  thread,    \* thread[t]: what a thread does, for whom, with what in hand
  promised,  \* history: promised[w], the newest version a refresh of w reported
  raced      \* history: raced[w], its last reset met a thread that was loading

catalogueVars == <<overlay, active, thread, promised, raced>>

NoRows == [s \in {} |-> Baseline[s]]
Nothing == [kind |-> "nothing", rows |-> NoRows, version |-> 0]
Absent == [whole |-> TRUE, rows |-> NoRows, by |-> "nobody", version |-> 0]
Idle == [at |-> "idle", of |-> "command", doc |-> <<>>, rows |-> NoRows, got |-> Nothing]

-----------------------------------------------------------------------------
(* Normalise and validate (providers/refresh.py).                          *)

\* _canonical_provider: the served key or an alias of it; the rest is dropped.
Canonical(id) == id = Served \/ id \in Aliases

\* _coerce_cost makes a negative cost unknown; _coerce_int raises on infinity.
Coerced(row) == [row EXCEPT !.cost = IF @ = "negative" THEN "none" ELSE @]
CoerceRaises(doc) == \E i \in 1..Len(doc) : Canonical(doc[i].id) /\ doc[i].row.window = "infinite"

PutRow(rows, slug, row) ==
  [s \in DOMAIN rows \cup {slug} |-> IF s = slug THEN row ELSE rows[s]]

\* Mutant: an alias replaces like the served key.
TakeAny(rows, e) == IF Canonical(e.id) THEN PutRow(rows, e.slug, Coerced(e.row)) ELSE rows

\* normalise_models_dev: the served key replaces, an alias fills a gap.
Take(rows, e) ==
  IF e.id = Served \/ (e.id \in Aliases /\ e.slug \notin DOMAIN rows)
  THEN PutRow(rows, e.slug, Coerced(e.row))
  ELSE rows

\* Its loop over the document: the rows after each entry.
Taken(doc) ==
  LET taken[i \in 0..Len(doc)] == IF i = 0 THEN NoRows ELSE Take(taken[i - 1], doc[i])
  IN taken
Normalised(doc) == Taken(doc)[Len(doc)]

\* validate_catalogue_payload: one row out of bounds refuses them all.
Valid(rows) == \A s \in DOMAIN rows : rows[s].cost # "huge"

-----------------------------------------------------------------------------
(* Merge and look up (providers/catalogue.py, providers/registry.py).      *)

\* load_overlay: a file that is not a whole valid document counts for nothing.
LoadOverlay == IF overlay.whole /\ Valid(overlay.rows) THEN overlay.rows ELSE NoRows

\* _merge_row: flags are united, a known count or cost of the overlay wins.
MergeRow(base, over) ==
  [flag   |-> base.flag \/ over.flag,
   window |-> IF over.window # "unknown" THEN over.window ELSE base.window,
   cost   |-> IF over.cost # "none" THEN over.cost ELSE base.cost]

\* The overlay's row of a curated slug: its own spelling, else the last one.
Spellings(over, s) == {u \in DOMAIN over : u[1] = s[1]}
Counterpart(over, s) ==
  IF s \in DOMAIN over THEN s
  ELSE CHOOSE u \in Spellings(over, s) : \A v \in Spellings(over, s) : v[2] <= u[2]

\* load_merged: a slug only the overlay has, in any spelling, is added.
Added(over) == {u \in DOMAIN over : \A s \in DOMAIN Baseline : s[1] # u[1]}
LoadMerged ==
  LET over == LoadOverlay
  IN [s \in DOMAIN Baseline \cup Added(over) |->
       IF s \notin DOMAIN Baseline THEN over[s]
       ELSE IF Spellings(over, s) = {} THEN Baseline[s]
       ELSE MergeRow(Baseline[s], over[Counterpart(over, s)])]

\* get_capability, list_models: an unknown slug gets the permissive default.
Permissive == [flag |-> FALSE, window |-> "unknown", cost |-> "none"]
Capability(rows, s) == IF s \in DOMAIN rows THEN rows[s] ELSE Permissive
ListModels(rows) == DOMAIN rows

Become(t, step) == thread' = [thread EXCEPT ![t].at = step]

\* model_catalogue: the check, the load, the assignment and the read that is
\* returned are steps of their own.
Check(t) ==
  /\ thread[t].at = "idle"
  /\ \E w \in Workers :
       thread' = [thread EXCEPT ![t].of = w,
                                ![t].at = IF active[w] = Nothing THEN "load" ELSE "return"]
  /\ UNCHANGED <<overlay, active, promised, raced>>

Load(t) ==
  /\ thread[t].at = "load"
  /\ thread' = [thread EXCEPT ![t].at = "assign",
       ![t].got = [kind |-> "catalogue", rows |-> LoadMerged, version |-> overlay.version]]
  /\ UNCHANGED <<overlay, active, promised, raced>>

Assign(t) ==
  /\ thread[t].at = "assign"
  /\ active' = [active EXCEPT ![thread[t].of] = thread[t].got]
  /\ Become(t, "return")
  /\ UNCHANGED <<overlay, promised, raced>>

ReturnActive(t) ==
  /\ thread[t].at = "return"
  /\ thread' = [thread EXCEPT ![t].at = "told", ![t].got = active[thread[t].of]]
  /\ UNCHANGED <<overlay, active, promised, raced>>

-----------------------------------------------------------------------------
(* A refresh: refresh_overlay and its two callers.                         *)

\* fetch_json: a document, or any failure of the bounded transport.
FetchJson(t) ==
  /\ thread[t].at = "idle"
  /\ \E of \in Workers \cup {"command"}, doc \in Documents \cup {<<>>} :
       thread' = [thread EXCEPT ![t].of = of, ![t].doc = doc,
                                ![t].at = IF doc = <<>> THEN "failed" ELSE "fetched"]
  /\ UNCHANGED <<overlay, active, promised, raced>>

Normalise(t) ==
  /\ thread[t].at = "fetched"
  /\ IF CoerceRaises(thread[t].doc) THEN Become(t, "failed")
     ELSE thread' = [thread EXCEPT ![t].at = "normalised",
                                   ![t].rows = Normalised(thread[t].doc)]
  /\ UNCHANGED <<overlay, active, promised, raced>>

Validate(t) ==
  /\ thread[t].at = "normalised"
  /\ thread' = [thread EXCEPT ![t].at = IF Valid(thread[t].rows) THEN "valid" ELSE "failed",
                              ![t].doc = <<>>]
  /\ UNCHANGED <<overlay, active, promised, raced>>

\* write_overlay: a temporary file, written and synced, or an OSError.
WriteTemp(t) ==
  /\ thread[t].at = "valid"
  /\ \E step \in {"written", "failed"} : Become(t, step)
  /\ UNCHANGED <<overlay, active, promised, raced>>

\* os.replace: the command is done, the route has its cache to drop.
Replace(t) ==
  /\ thread[t].at = "written" /\ overlay.version < MaxWrites
  /\ overlay' = [whole |-> TRUE, rows |-> thread[t].rows, by |-> "refresh",
                 version |-> overlay.version + 1]
  /\ thread' = [thread EXCEPT ![t].at = IF thread[t].of = "command" THEN "done" ELSE "reset",
                              ![t].rows = NoRows, ![t].got.version = overlay.version + 1]
  /\ UNCHANGED <<active, promised, raced>>

Newest(v, u) == IF v < u THEN u ELSE v

\* Mutant: the route keeps the catalogue it has when there is one.
ResetNever(t) ==
  /\ thread[t].at = "reset"
  /\ Become(t, "done")
  /\ promised' = [promised EXCEPT ![thread[t].of] = Newest(@, thread[t].got.version)]
  /\ UNCHANGED <<overlay, active, raced>>

\* reset_catalogue, then the route reports the refresh done.
Reset(t) ==
  /\ thread[t].at = "reset"
  /\ LET w == thread[t].of IN
       /\ active' = [active EXCEPT ![w] = Nothing]
       /\ promised' = [promised EXCEPT ![w] = Newest(@, thread[t].got.version)]
       /\ raced' = [raced EXCEPT ![w] = \E u \in Threads : thread[u].of = w
                                                            /\ thread[u].at = "assign"]
  /\ Become(t, "done")
  /\ UNCHANGED overlay

-----------------------------------------------------------------------------

Finish(t) ==
  /\ thread[t].at \in {"told", "failed", "done"}
  /\ thread' = [thread EXCEPT ![t] = Idle]
  /\ UNCHANGED <<overlay, active, promised, raced>>

\* A process ends, at any step, and is started again: its cache and its
\* threads are gone, the file is what it was.
Restart(of) ==
  /\ \E t \in Threads : thread[t].of = of /\ thread[t].at # "idle"
  /\ thread' = [t \in Threads |-> IF thread[t].of = of THEN Idle ELSE thread[t]]
  /\ IF of \in Workers
     THEN /\ active' = [active EXCEPT ![of] = Nothing]
          /\ raced' = [raced EXCEPT ![of] = FALSE]
     ELSE UNCHANGED <<active, raced>>
  /\ UNCHANGED <<overlay, promised>>

\* The file is edited by hand: torn, or a document with a row out of bounds.
EditByHand ==
  /\ overlay.version < MaxWrites
  /\ \E doc \in Documents, whole \in BOOLEAN :
       overlay' = [whole |-> whole, rows |-> Normalised(doc), by |-> "hand",
                   version |-> overlay.version + 1]
  /\ UNCHANGED <<active, thread, promised, raced>>

CatalogueInit ==
  /\ overlay = Absent
  /\ active = [w \in Workers |-> Nothing]
  /\ thread = [t \in Threads |-> Idle]
  /\ promised = [w \in Workers |-> 0]
  /\ raced = [w \in Workers |-> FALSE]

CatalogueNext ==
  \/ \E t \in Threads :
       \/ Check(t) \/ Load(t) \/ Assign(t) \/ ReturnActive(t)
       \/ FetchJson(t) \/ Normalise(t) \/ Validate(t) \/ WriteTemp(t) \/ Replace(t) \/ Reset(t)
       \/ Finish(t)
  \/ \E of \in Workers \cup {"command"} : Restart(of)
  \/ EditByHand

CatalogueSpec == CatalogueInit /\ [][CatalogueNext]_catalogueVars

-----------------------------------------------------------------------------

(* A slug the upstream lists under the served key and under an alias       *)
(* carries the row of the served key, in whatever order the document lists *)
(* them (providers/refresh.py:287).                                        *)
OwnIdWins ==
  \A t \in Threads : thread[t].at = "normalised" =>
    \A i \in 1..Len(thread[t].doc) :
      LET e == thread[t].doc[i]
      IN e.id = Served => thread[t].rows[e.slug] = Coerced(e.row)

(* Once the route has reported a refresh, its worker does not answer from  *)
(* an older overlay again, unless a look-up was loading one when the cache *)
(* was dropped (api/routes/catalogue.py:112).                              *)
RefreshTakesEffect ==
  \A w \in Workers :
    active[w] # Nothing /\ ~raced[w] => active[w].version >= promised[w]

(* No overlay, fresh, torn or edited, takes anything from the bundled      *)
(* baseline: every curated model is listed, in one spelling, with its      *)
(* capabilities, and with a count and a cost wherever the baseline knows   *)
(* them (providers/catalogue.py:233, 267).                                 *)
BaselineKept ==
  \A t \in Threads : thread[t].at = "told" /\ thread[t].got # Nothing =>
    LET rows == thread[t].got.rows IN
    \A s \in DOMAIN Baseline :
      /\ {u \in ListModels(rows) : u[1] = s[1]} = {s}
      /\ Baseline[s].flag => Capability(rows, s).flag
      /\ Baseline[s].window # "unknown" => Capability(rows, s).window # "unknown"
      /\ Baseline[s].cost # "none" => Capability(rows, s).cost \notin {"none", "negative", "huge"}

(* What a refresh leaves in the file is always one whole validated         *)
(* document, whichever process died at whichever step and however many     *)
(* refreshed at once (providers/refresh.py:536).                           *)
OverlaySound == overlay.by # "hand" => overlay.whole /\ Valid(overlay.rows)

(* What a look-up may rely on: the curated models, the row of the model's  *)
(* own key, and a file that is never half written.                         *)
CatalogueSound == BaselineKept /\ OwnIdWins /\ OverlaySound
=============================================================================
