------------------------------ MODULE Fetching ------------------------------
(***************************************************************************)
(* Listing and fetching filings for an ingest: the fetcher                 *)
(* (pipeline/fetch.py), the one-ahead prefetch thread                      *)
(* (pipeline/prefetch.py) and the two loops that use it, the worker of the *)
(* API (api/tasks.py) and the ingest commands (cli/ingest.py), run after   *)
(* run.  EDGAR's identity is a process global: every fetch of the API sets *)
(* its task's before the call, under one lock.                             *)
(***************************************************************************)
EXTENDS Naturals, FiniteSets, Sequences, SequencesExt, FiniteSetsExt

CONSTANTS Runs,        \* number of runs: API tasks, or forms of a command
          MaxFilings,  \* DB_MAX_FILINGS
          Catalogue,   \* what EDGAR may list: a set of sequences, newest first
          Forms        \* the forms an ingest asks for, in order

ASSUME FetchingAssumption ==
  /\ Runs \in Nat \ {0} /\ MaxFilings \in Nat \ {0}
  /\ Forms \in Seq(STRING) /\ Forms # <<>>
  /\ \A i, j \in 1..Len(Forms) : Forms[i] = Forms[j] => i = j

\* EDGAR lists newest first, and no accession twice.
ASSUME CatalogueAssumption ==
  \A s \in Catalogue :
    /\ s \in Seq([id : STRING \ {"none"}, form : STRING, amended : BOOLEAN, date : Nat])
    /\ \A i, j \in 1..Len(s) : i < j => s[i].id # s[j].id /\ s[i].date >= s[j].date

VARIABLES
  mode,      \* "api" or "cli", with "across" forms or one form
  edgar,     \* EDGAR's filings of the ticker
  count,     \* how many filings are asked for
  rows,      \* registered filings
  identity,  \* the process-global EDGAR identity
  lock,      \* who holds _edgar_lock
  run,       \* the run in hand
  pc,        \* step of its loop
  work, existing, pos,   \* its work list, known duplicates, position
  lost,      \* the forms whose listing failed
  cached,    \* the registry's count as the run tracks it
  cancel,    \* the run's cancel flag
  html,      \* the filing in hand, fetched
  call,      \* call[c]: step of the fetch of a caller, the loop or a thread
  ahead,     \* ahead[r]: the filing run r's thread is for, and its outcome
  fetched,   \* history: filings fetched by the run, in order
  tally      \* filings of the run by outcome

fixed == <<mode, edgar, count>>
loopVars == <<pc, work, lost, existing, pos, cached, html, fetched, tally>>
netVars == <<identity, lock, call, ahead>>
fetchingVars == <<fixed, rows, netVars, run, loopVars, cancel>>

-----------------------------------------------------------------------------
(* FilingFetcher: the work list.                                           *)

\* A filing is [id, form, amended, date]; EDGAR lists a base form with its
\* amendments, an amendment form by itself.  A list of filings is made from
\* their places in edgar.
Listed(form) == {j \in 1..Len(edgar) : edgar[j].form = form}

\* _should_skip: an amendment does not displace the original.
Skipped(f) == f.amended
Kept(form) == {j \in Listed(form) : ~Skipped(edgar[j])}

\* Mutant: the cut comes before the amendments are dropped.
CutThenSkip(form, n) ==
  {j \in Kept(form) : Cardinality({k \in Listed(form) : k <= j}) <= n}

\* list_available: the first count filings that are not skipped.
ListAvailable(form, n) ==
  {j \in Kept(form) : Cardinality({k \in Kept(form) : k <= j}) <= n}

\* What the listings bring, less those that raised (or, of a task, were cut off
\* by its cancel).
Found(failed, n) ==
  UNION {ListAvailable(Forms[i], n) : i \in (1..Len(Forms)) \ failed}

\* The elements of S in the order R.
Ordered(S, R) ==
  [k \in 1..Cardinality(S) |-> CHOOSE x \in S : Cardinality({y \in S : <<y, x>> \in R}) = k]

\* i comes before j, or is j: form after form, or by date, newest first, and form
\* after form on a tie.
FormOf(j) == CHOOSE i \in 1..Len(Forms) : Forms[i] = edgar[j].form
Earlier(i, j) == FormOf(i) < FormOf(j) \/ (FormOf(i) = FormOf(j) /\ i <= j)
Newer(i, j) == \/ edgar[i].date > edgar[j].date
               \/ edgar[i].date = edgar[j].date /\ Earlier(i, j)

PerForm(failed, n) ==
  LET found == Found(failed, n)
      listed == Ordered(found, {e \in found \X found : Earlier(e[1], e[2])})
  IN [k \in 1..Cardinality(found) |-> edgar[listed[k]]]

\* list_available_across_forms: the newest of them all.
AcrossForms(failed, n) ==
  LET found == Found(failed, n)
      sorted == Ordered(found, {e \in found \X found : Newer(e[1], e[2])})
  IN [k \in 1..Min({n, Cardinality(found)}) |-> edgar[sorted[k]]]

\* _build_work_list of a task, and the listing of a command: one form at a
\* time unless a total was asked for.
AskedForms == IF mode.across \/ mode.is = "api" THEN 1..Len(Forms) ELSE {1 + (run % Len(Forms))}
WorkList(failed) ==
  IF mode.across THEN AcrossForms(failed, count) ELSE PerForm(failed, count)

-----------------------------------------------------------------------------
(* One fetch: resolve the identity, set it, call EDGAR.                    *)

Callers == 0..Runs      \* the loop is 0, the thread of run r is r
Own(r) == IF mode.is = "api" THEN r ELSE 0  \* 0: the server's identity
RunOf(c) == IF c = 0 THEN run ELSE c
Quiet == [item |-> "none", step |-> "off", as |-> 0]

StartCall(c, item) == call' = [call EXCEPT ![c] = [item |-> item, step |-> "resolve", as |-> 0]]

\* The resolver of a run that has ended is gone: the fetch falls back to the
\* server's identity, and where none is set to whatever is global.
Resolve(c) ==
  /\ call[c].step = "resolve"
  /\ call' = [call EXCEPT ![c].step = "apply",
                          ![c].as = IF RunOf(c) = run /\ pc # "over" THEN Own(run) ELSE 0]
  /\ UNCHANGED <<fixed, rows, identity, lock, run, loopVars, ahead, cancel>>

Apply(c) ==
  /\ call[c].step = "apply"
  /\ IF mode.is = "api"
     THEN /\ lock = "free" /\ lock' = "held"
          /\ identity' = call[c].as
     ELSE UNCHANGED <<lock, identity>>
  /\ call' = [call EXCEPT ![c].step = "call"]
  /\ UNCHANGED <<fixed, rows, run, loopVars, ahead, cancel>>

\* Mutant: the lock is given back only by a call that succeeds.
ReturnHolding(c) ==
  /\ call[c].step = "call"
  /\ \E outcome \in {"html", "error"} :
       /\ call' = [call EXCEPT ![c].step = outcome]
       /\ lock' = IF outcome = "html" THEN "free" ELSE lock
  /\ fetched' = IF RunOf(c) = run THEN Append(fetched, call[c].item) ELSE fetched
  /\ UNCHANGED <<fixed, rows, identity, run, pc, work, lost, existing, pos, cached, html, tally,
                 ahead, cancel>>

\* The filing's HTML, or an error: of the network, or an empty document.
Return(c) ==
  /\ call[c].step = "call"
  /\ \E outcome \in {"html", "error"} :
       call' = [call EXCEPT ![c].step = outcome]
  /\ lock' = IF mode.is = "api" THEN "free" ELSE lock
  /\ fetched' = IF RunOf(c) = run THEN Append(fetched, call[c].item) ELSE fetched
  /\ UNCHANGED <<fixed, rows, identity, run, pc, work, lost, existing, pos, cached, html, tally,
                 ahead, cancel>>

Network(c) == Resolve(c) \/ Apply(c) \/ Return(c)

-----------------------------------------------------------------------------
(* OneAheadFetches.                                                        *)

Item == work[pos]
Unknown(i) == work[i].id \notin existing

\* _next_after: the next filing of the list that is no duplicate.
After(i) == {j \in (i + 1)..Len(work) : Unknown(j)}

\* fetch: the prefetched result when it is for this filing, else a call.
FetchHere ==
  /\ pc = "fetch"
  /\ IF ahead[run] = Item.id THEN pc' = "join" /\ UNCHANGED call
     ELSE pc' = "inline" /\ StartCall(0, Item.id)
  /\ UNCHANGED <<fixed, rows, identity, lock, run, work, lost, existing, pos, cached, html, fetched,
                 tally, ahead, cancel>>

Caller == IF pc = "join" THEN run ELSE 0

\* BackgroundFetch.result, or the inline call's return.
Collected ==
  /\ pc \in {"join", "inline"} /\ call[Caller].step = "html"
  /\ html' = Item.id
  /\ call' = [call EXCEPT ![Caller] = Quiet]
  /\ ahead' = [ahead EXCEPT ![run] = IF pc = "join" THEN "none" ELSE @]
  /\ pc' = IF mode.is = "api" /\ cancel THEN "close" ELSE "ahead"
  /\ UNCHANGED <<fixed, rows, identity, lock, run, work, lost, existing, pos, cached, fetched, tally,
                 cancel>>

\* start_after: at most one in flight, none once cancelled, none the ceiling
\* would throw away.
StartAfter ==
  /\ pc = "ahead"
  /\ pc' = "process"
  /\ IF /\ After(pos) # {} /\ ahead[run] = "none" /\ ~cancel
        /\ mode.is = "api" => cached + 1 < MaxFilings
     THEN /\ ahead' = [ahead EXCEPT ![run] = work[Min(After(pos))].id]
          /\ StartCall(run, work[Min(After(pos))].id)
     ELSE UNCHANGED <<ahead, call>>
  /\ UNCHANGED <<fixed, rows, identity, lock, run, work, lost, existing, pos, cached, html, fetched,
                 tally, cancel>>

\* Mutant: the run ends beside its thread.
CloseUnwaited ==
  /\ pc = "close"
  /\ pc' = "over" /\ html' = "none"
  /\ UNCHANGED <<fixed, rows, identity, lock, run, work, lost, existing, pos, cached, fetched, tally,
                 call, ahead, cancel>>

\* close: the run ends only when its thread has.
Close ==
  /\ pc = "close"
  /\ ahead[run] # "none" => call[run].step \in {"html", "error"}
  /\ call' = [call EXCEPT ![run] = Quiet]
  /\ ahead' = [ahead EXCEPT ![run] = "none"]
  /\ pc' = "over" /\ html' = "none"
  /\ UNCHANGED <<fixed, rows, identity, lock, run, work, lost, existing, pos, cached, fetched, tally,
                 cancel>>

-----------------------------------------------------------------------------
(* The loops.                                                              *)

Tally(k) == tally' = [tally EXCEPT ![k] = @ + 1]
Zero == [ok |-> 0, skipped |-> 0, failed |-> 0]

\* A form of a command is not begun at the limit: the command ends.
Refused == mode.is = "cli" /\ ~mode.across /\ Cardinality(rows) >= MaxFilings

Refuse ==
  /\ pc = "build" /\ Refused
  /\ pc' = "refused"
  /\ UNCHANGED <<fixed, rows, netVars, run, work, lost, existing, pos, cached, html, fetched, tally,
                 cancel>>

\* The work list and the duplicates in it.
BuildList ==
  /\ pc = "build" /\ ~Refused
  /\ \E failed \in SUBSET AskedForms :
       work' = WorkList(failed \cup ((1..Len(Forms)) \ AskedForms)) /\ lost' = failed
  /\ existing' = {work'[i].id : i \in 1..Len(work')} \cap rows
  /\ cached' = Cardinality(rows)
  /\ pos' = 1 /\ pc' = "next" /\ fetched' = <<>> /\ tally' = Zero
  /\ UNCHANGED <<fixed, rows, netVars, run, html, cancel>>

\* check_filing_limit of the command: before every filing but the first of a
\* form (checked before the form), before every filing across forms.
CommandFull == mode.is = "cli" /\ (pos > 1 \/ mode.across) /\ Cardinality(rows) >= MaxFilings
WorkerFull  == mode.is = "api" /\ Unknown(pos) /\ cached >= MaxFilings

Stop ==
  /\ pc = "next"
  /\ \/ pos > Len(work)
     \/ mode.is = "api" /\ cancel
     \/ pos <= Len(work) /\ (CommandFull \/ WorkerFull)
  /\ pc' = "close"
  /\ UNCHANGED <<fixed, rows, netVars, run, work, lost, existing, pos, cached, html, fetched, tally,
                 cancel>>

Going == pc = "next" /\ pos <= Len(work) /\ ~(mode.is = "api" /\ cancel)
               /\ ~CommandFull /\ ~WorkerFull

SkipDuplicate ==
  /\ Going /\ ~Unknown(pos)
  /\ Tally("skipped") /\ pos' = pos + 1
  /\ UNCHANGED <<fixed, rows, netVars, run, pc, work, lost, existing, cached, html, fetched, cancel>>

TakeNext ==
  /\ Going /\ Unknown(pos)
  /\ pc' = "fetch"
  /\ UNCHANGED <<fixed, rows, netVars, run, work, lost, existing, pos, cached, html, fetched, tally,
                 cancel>>

\* The filing fails: at its fetch, in the pipeline, or in the store.
FilingFails ==
  /\ \/ /\ pc \in {"join", "inline"} /\ call[Caller].step = "error"
        /\ call' = [call EXCEPT ![Caller] = Quiet]
        /\ ahead' = [ahead EXCEPT ![run] = IF pc = "join" THEN "none" ELSE @]
     \/ pc \in {"process", "store"} /\ UNCHANGED <<call, ahead>>
  /\ Tally("failed") /\ pos' = pos + 1 /\ pc' = "next" /\ html' = "none"
  /\ UNCHANGED <<fixed, rows, identity, lock, run, work, lost, existing, cached, fetched, cancel>>

\* PipelineOrchestrator.process_filing: parse, chunk, embed; a cancelled task
\* leaves it at a progress report.
Process ==
  /\ pc = "process"
  /\ pc' = IF mode.is = "api" /\ cancel THEN "close" ELSE "store"
  /\ UNCHANGED <<fixed, rows, netVars, run, work, lost, existing, pos, cached, html, fetched, tally,
                 cancel>>

\* The worker's claim may find a late duplicate; the command's default path
\* reports it as a storage failure.
Store ==
  /\ pc = "store"
  /\ IF Item.id \notin rows
     THEN rows' = rows \cup {Item.id} /\ cached' = cached + 1 /\ Tally("ok")
     ELSE UNCHANGED <<rows, cached>> /\ Tally(IF mode.is = "api" THEN "skipped" ELSE "failed")
  /\ pos' = pos + 1 /\ pc' = "next" /\ html' = "none"
  /\ UNCHANGED <<fixed, netVars, run, work, lost, existing, fetched, cancel>>

\* Another process registers a filing the list had as new.
Elsewhere ==
  /\ pc \notin {"over", "refused"} /\ Cardinality(rows) < MaxFilings
  /\ \E i \in 1..Len(edgar) : edgar[i].id \notin rows /\ rows' = rows \cup {edgar[i].id}
  /\ UNCHANGED <<fixed, netVars, run, loopVars, cancel>>

Cancel ==
  /\ mode.is = "api" /\ ~cancel /\ pc # "over"
  /\ cancel' = TRUE
  /\ UNCHANGED <<fixed, rows, netVars, run, loopVars>>

\* The slot goes to the next task, the command to its next form or ticker.
NextRun ==
  /\ pc = "over" /\ run < Runs
  /\ run' = run + 1 /\ pc' = "build" /\ cancel' = FALSE
  /\ work' = <<>> /\ lost' = {} /\ existing' = {} /\ pos' = 1 /\ fetched' = <<>> /\ tally' = Zero
  /\ UNCHANGED <<fixed, rows, netVars, cached, html>>

FetchingInit ==
  /\ mode \in [is : {"api", "cli"}, across : BOOLEAN]
  /\ edgar \in Catalogue
  /\ count \in 1..2
  /\ rows \in {{}} \cup {{edgar[i].id} : i \in 1..Len(edgar)}
  /\ identity = 0 /\ lock = "free"
  /\ run = 1 /\ pc = "build"
  /\ work = <<>> /\ lost = {} /\ existing = {} /\ pos = 1 /\ cached = 0
  /\ cancel = FALSE /\ html = "none"
  /\ call = [c \in Callers |-> Quiet]
  /\ ahead = [r \in 1..Runs |-> "none"]
  /\ fetched = <<>> /\ tally = Zero

Loop ==
  \/ Refuse \/ BuildList \/ Stop \/ SkipDuplicate \/ TakeNext \/ FetchHere \/ Collected \/ StartAfter
  \/ FilingFails \/ Process \/ Store \/ Close \/ NextRun

FetchingNext ==
  \/ Loop \/ Elsewhere \/ Cancel
  \/ \E c \in Callers : Network(c)

\* The threads are scheduled and a call to EDGAR returns (httpx times out).
FetchingSpec ==
  /\ FetchingInit /\ [][FetchingNext]_fetchingVars
  /\ WF_fetchingVars(Loop) /\ \A c \in Callers : WF_fetchingVars(Network(c))

-----------------------------------------------------------------------------
(* Every call to EDGAR of a task is made under that task's identity, from  *)
(* the moment it is sent to its answer, prefetched or not and whichever    *)
(* task comes next (pipeline/prefetch.py:23, api/tasks.py:1252).           *)
OwnIdentity == \A c \in Callers : call[c].step = "call" => identity = Own(RunOf(c))

(* Asked for the newest n filings, of every form or of each, an ingest      *)
(* works on as many originals as there are up to n, and EDGAR has none      *)
(* newer that it leaves out, but of a form whose listing failed.            *)
NewestOf(forms) ==
  LET left == {i \in 1..Len(edgar) : ~edgar[i].amended /\ edgar[i].form \in forms}
      got  == {p \in 1..Len(work) : work[p].form \in forms}
  IN /\ Cardinality(got) = Min({count, Cardinality(left)})
     /\ \A p \in got : ~work[p].amended
     /\ \A i \in left : edgar[i] \in ToSet(work)
                       \/ \A p \in got : work[p].date >= edgar[i].date
WorksOnNewest ==
  pc \notin {"build", "refused"} =>
    LET listed == {Forms[k] : k \in AskedForms \ lost}
    IN IF mode.across THEN NewestOf(listed) ELSE \A form \in listed : NewestOf({form})

(* Every run ends, its thread with it.                                     *)
EveryRunEnds == \A r \in 1..Runs : run = r ~> (pc \in {"over", "refused"} \/ run > r)

(* A run fetches no filing twice, none that was a duplicate when it began, *)
(* and in the order of its list: prefetching changes when a filing is      *)
(* fetched and nothing else.                                               *)
FetchedOnceInOrder ==
  \A i \in 1..Len(fetched) :
    /\ fetched[i] \notin existing
    /\ \E p \in 1..Len(work) : work[p].id = fetched[i]
    /\ \A j \in 1..(i - 1) : \E p, q \in 1..Len(work) :
         p < q /\ work[p].id = fetched[j] /\ work[q].id = fetched[i]

(* A run that went through its whole list accounts for every filing of it: *)
(* ingested, skipped or failed.                                            *)
AllAccounted ==
  pc = "close" /\ pos > Len(work) =>
    tally.ok + tally.skipped + tally.failed = Len(work)

(* What is asked for is listed, fetched and accounted for.                 *)
ListWorkedThrough == WorksOnNewest /\ FetchedOnceInOrder /\ AllAccounted
=============================================================================
