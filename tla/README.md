# Formal models of SEC Generative Search

This directory holds TLA+ modules, TLC configurations and TLAPS proofs about
the Python package `sec_generative_search` (`src/src/sec_generative_search`; all
paths below are relative to it). The program ingests SEC filings into two stores
(a SQLite registry and a ChromaDB collection), answers questions over them with
retrieval-augmented generation, and serves both through a FastAPI application, a
command line and a browser client. What is hard in it is where threads, two stores,
timers, sessions, processes and failures meet, and that is what most modules are about;
the rest are the data paths (chunker, retrieval, catalogue merge), checked on every input of a small set.

`PROJECT.json` lists, for every definition that models code, the lines it
models, and for every run, property, theorem and hazard what it is.

## Running it

    tlasany M.tla                       parse a module
    tlc -workers 2 -config X.cfg M      model-check module M under X.cfg
    tlapm M.tla                         check the proofs of module M

## Modules

| Component module | Proofs | Checked through | Of |
|---|---|---|---|
| `FilingStore` | `StoreProofs` | `MCStores`, `MCFilingStore` | the two stores |
| `TaskManager`, `IngestQueue` | `TaskManagerProofs` | `MCTaskManager` | ingest tasks, and what a client may rely on |
| `TaskStream` | `TaskStreamProofs` | `MCServing` | progress frames to WebSocket clients |
| `Reindex` | `StoreProofs` | `MCStores`, `MCReindex` | the sealed collection and its re-index |
| `Sessions`, `Accounts` | `IdentityProofs` | `MCIdentity` | session stores; account row and browser vault |
| `Answer` | `AnswerProofs` | itself | routes, retry, breaker, health and the answer stream |
| `Fetching`, `Chunking`, `Retrieval` | `PipelineProofs` | `MCPipeline` | EDGAR's list to fetched filings, document to chunks, question to citations |
| `Schema`, `Archive` | `MaintenanceProofs` | `MCMaintenance` | opening and migrating the registry; backup, restore, export, import |
| `Catalogue`, `Embedder`, `Requests` | `ServingProofs` | `MCServing`, `MCPipeline` (the embedder) | model catalogue, on-device embedder, gates before a handler |

Where one MC module holds several components they share no state: a variable `part`
is chosen in the initial state, and a behaviour takes the steps of that part while the others stand still. The state spaces add
up instead of multiplying, and every state of each component is visited.
## Inventory

| Part | State it keeps | Operations | What is hard about it | What makes it correct |
|---|---|---|---|---|
| Dual store (`database/store.py`, `client.py`, `metadata.py`) | rows in SQLite, chunks in ChromaDB, nothing spans both | store (atomic claim or carry-over), delete, batch delete, evict by age, clear all | several callers, a failure or a crash between the two halves, sliced adds | the stores agree at rest; success means both halves are done; one writer per filing |
| Task manager (`api/tasks.py`) | task dict, states, resolvers, cancel events, timers, one GPU slot, maintenance gate, shutdown flag | create, cancel, time out, run, evict, roll back, persist, sweep, expire, shut down | one thread per task beside the event loop, timers, routes and the reset | one task at work; ceiling; cancelled leaves nothing; terminal is final; every worker ends |
| One-ahead prefetch (`pipeline/prefetch.py`) | one pending future, a one-thread pool | start_after, fetch, close | one background thread, `BackgroundFetch`, fetches under the tenant's identity | nothing runs past `close`; the answer is the one for the filing asked |
| Task stream (`api/websocket.py`, `_push` in `api/tasks.py`) | a bounded queue per task | push, snapshot, forward, heartbeat, disconnect | frames dropped, two viewers, a task ending while a viewer connects | frames in order; a viewer that stays is told the end |
| Re-index (`database/reindex.py`, `cli/reindex.py`) | live and staging collections | stage, verify, swap | a failure in the middle of the swap | no chunk is lost on failure |
| Sessions (`core/credentials.py`, `core/edgar_identity.py`, `api/routes/session.py`) | two in-memory maps with a sliding lifetime | set, read, bind, clear, sweep | two stores with one key, lazily swept | both are cleared together; nothing outlives twice its lifetime |
| Accounts (`database/users.py`, `core/user_auth.py`, `api/routes/auth.py`, `users.py`) | accounts, lockout counters, wrapped vaults, enrolment tokens | create, enrol, log in, change password, update vault, unlock, delete | lockout over time, a vault sealed under an old key, whole-vault writes from stale copies, a name enrolled again | lockout as promised; password and vault agree; what was saved stays |
| Resilience (`core/resilience.py`, `core/provider_health.py`) | breaker state and counters per provider | call, retry, record | the breaker only observes: nobody asks it before a call; its state changes when it is read | what an operator sees follows the calls that were made; delays stay within their cap |
| Rate limits and policies (`api/middleware.py`, `policies.py`, `dependencies.py`) | a sliding window of hits per key | admit, evict idle keys | window boundaries, the clock read outside the lock, the bound on keys | at most the limit per window |
| Migration, backup, portable files (`database/migrations.py`, `backup.py`, `portable.py`) | schema version, archive directories, a record stream | migrate, back up, restore, export, import | a crash between steps, a partial import | resumable, nothing half restored |
| Pipeline (`pipeline/fetch.py`, `parse.py`, `chunk.py`, `orchestrator.py`) | none across calls (a company cache per build) | list, fetch, parse, chunk, embed | token limits and overlap in the splitter | chunks cover the text, none above the limit |
| Retrieval (`search/retrieval.py`) | none | search, floor, pack, diversify | budgets, caps, ties | caps and budget kept, order kept |
| Answers (`rag/`, `api/routes/rag.py`) | an answer in the making, a plan to confirm | plan, retrieve, prompt, stream, cite, refuse | a stream cut by the client, a refusal, an invalid citation | one final frame; citations only of what was retrieved |
| Providers (`providers/`) | an idle-unloaded local model, a catalogue cache | call, embed, refresh | unload while in use, two refreshes | a model in use is loaded; one refresh at a time |
| Wiring, read routes, command line, evaluation, settings, logging, types | none of their own | | | |
| Browser client (`src/frontend/src`) | the unwrapped vault, the admin session | | | |

How they interact: a route calls `TaskManager.create_task`, which starts a worker
thread. The worker takes the GPU slot, asks the fetcher under its tenant's EDGAR
identity (a resolver that reads the session store), runs the pipeline, and stores
each filing through `FilingStore`, which alone writes both stores. The worker
pushes frames onto its task's queue on the event loop; the WebSocket forwarder
drains it. Delete routes, the demo reset, the retention sweep and the command
line call `FilingStore` from other threads and processes at any time. The answer
path reads the stores, calls a provider through the retry and breaker wrapper, and
streams frames to the client. Sessions and accounts gate all of it.
## The dual store: `FilingStore`, `StoreProofs`, `MCStores`, `MCFilingStore`

`FilingStore` models `database/store.py` over the two stores it co-ordinates. Its
state is the set of registry `rows`, the slices of each filing ChromaDB holds
(`chunks`), whether the collection exists (`live`), and for each caller which call it is in, at
which step, and for which filings. One atomic step of the model is one call of a
collaborator: a slice added, a delete in ChromaDB, a SQLite transaction (a batch
delete takes 999 accessions in each: `DeleteRowsBatch`). Every call may raise; one caller may be interrupted between any two
of them while the others go on (`CutOff`: Ctrl-C passes `except DatabaseError`, so nothing is rolled back), all may stop at once (`Crash`), and a power
loss may drop inserts that SQLite acknowledged under `synchronous=NORMAL`
(`database/metadata.py`). History variables remember what excuses a disagreement:
`overlapped` (a store was under way while a delete of the filing was between its two halves, or began then, or two stores
overlapped of which one on the default path), `faulted` (a second step failed or a crash cut the call).

| Action | Code |
|---|---|
| `Claim`, `ClaimRefused`, `AddSlice`, `Unclaim` … | `store_filing(register_if_new=True)`: registry first, then chunks, the claim taken back on failure |
| `StoreCarryOver`, `Register`, `Undo` … | the default path: look-up, chunks, then the row, `_rollback_chroma` on failure |
| `DeleteIndex`, `DeleteRows` … | `delete_filing(s_batch)`: chunks first, then the rows |
| `EvictExpired`, `GrowOld` | `evict_expired`: list by age, then the batch delete by accession |
| `Clear…` | `clear_all`: drop and recreate the collection, then clear the registry |

Run `stores` (in the part "calls" two callers, two filings, two slices each, every kind of
call, every failure, crashes): `OneWriterPerFiling` (two claimants converge on one
writer whose claim stays while it writes), `StoresAgree` (at rest a filing is in both stores
completely or in neither, unless an overlap or a failed second step is on record),
`CallsComplete` (a delete or a store that reports success did all of its
work: `DeleteLeavesNothing` and `StoreMakesBoth`). The part "reindex" of the run is described below. Two slices are the smallest number with a partial add, two filings the
smallest batch, and a third caller adds no new kind of interference: the proofs cover any number.
In the run every filing has its own (ticker, form, date), `Key <- OwnKey`; a shared key is
the second disagreement below.

Finding (`store_sweep`): the retention sweep lists the expired accessions and then deletes whatever stands under them
(`store.py:310`–`320`), without a lock over both and without a second look at the age. A filing that a request deletes and an ingest
stores anew in between is deleted with its new row and chunks: `SweepSparesTheNew`, which says that what the sweep takes from a filing
at rest has aged (`store.py:280`: "Drop filings older than the cutoff"), is violated.

Disagreements between code and comments, in the model and without a run of their own:

- On the default path two writers may both pass the look-up; the loser's roll
  back deletes the winner's chunks, which `store.py:161` calls unreachable (`overlapped` marks it).
- `register_filing_if_new` (`metadata.py:645`) reports every `IntegrityError` as "already
  registered", also that of `UNIQUE(ticker, form_type, filing_date)` of another
  accession, while the docstring of `store_filing` says `False` only when the accession
  was already registered.
- Chunks that a failed roll back orphaned are not cleaned up by "the next delete", because every
  delete request first looks the row up and answers "not found".
- The cutoff of the retention sweep is compared as text (`metadata.py:1003`): the
  cutoff has a blank between date and time, a row's `ingested_at` a `T`, so on the cutoff's day no row is old enough.

Proved (`StoreProofs`), for any callers, filings, keys and slices, from
`StoreAssumption`: type correctness and the three safety properties, from the inductive invariant `StoreInv`. The properties alone are not inductive: that a
claim has one holder needs to know that a row exists throughout the
claim, and that chunks on hand at each step are those the caller's step counts.

## The task manager: `TaskManager`, `IngestQueue`, `TaskManagerProofs`, `MCTaskManager`

`TaskManager` models `api/tasks.py` with one process per worker thread. `pc[t]` is
where the worker of task `t` stands between two places another thread can get in;
`state`, `history`, `resolvers`, `cancel`, `timer`, `slot`, `maintenance` and `shutdown`
are the fields of the same name (`history` is the status in `task_history`). The two
stores are one sequence here, `registry`, oldest first, because `FilingStore` already
says how they agree. `owner` and `kept` are history variables: who stored a
row, and whose roll back failed.

| Action | Code |
|---|---|
| `Request`, `Insert`, `Refuse`, `StartThread`, `StartFails` | `create_task`: the shutdown test outside the lock, gate, capacity and insert inside, then `thread.start()` |
| `Acquire`, `CancelledWaiting`, `Run` | the head of `_run_task_body` |
| `Build`, `MakeRoom`, `DropOldest`, `Count` | `_execute`, `_build_work_list`, `_maybe_evict` |
| `SeeCancel`, `SkipDuplicate`, `FailWithLimit`, `Take`, `MakeRoomOne`, `Recount`, `StillFull`, `Fetched`, `Processed`, `FilingFails`, `Store`, `StoreRefused`, `StoreFails`, `Complete` | `_ingest_work_list`, every branch |
| `RollBack`, `RollBackFails`, `Cancelled` | `_rollback` |
| `Persist`, `Sweep` | `_mark_terminal`, `run_retention_eviction_safe` |
| `SeeTimer`, `Disarm`, `DisarmBreaks`, `DropResolver`, `Release` | the `finally` of `_run_task_body` |
| `Cancel`, `Timeout`, `Expire`, `RouteDelete` | other threads |
| `CliStore` | a store by `sec-rag ingest` in another process |
| `EnterReset`, `Clear`, `LeaveReset` | `exclusive_maintenance` around `clear_all` in the demo reset |
| `SetShutdown`, `CancelTimers` | `shutdown` |

`IngestQueue` is the abstract specification: a task is refused or becomes pending,
at most `MaxActive` are unfinished, one runs, terminal is final, and the gate closes only
on an idle queue. `TaskManager` implements it with `status <- state`, `closed <- maintenance`.

Runs. `tasks_two`: demo mode (eviction makes room), two tasks over two filings, a ceiling of one,
with cancels, route deletes, stores by a `sec-rag` process (`CliStore`), a demo reset, expiry and
shutdown between any two steps of a worker. It checks `CeilingKept` (what the workers store does not take the registry over its
ceiling), `CancelledLeavesNothing` (a cancelled task's filings are gone unless its roll back failed), `ManagerSound` (one task on
the GPU slot; a worker that may call EDGAR has its tenant's resolver and a finished one leaves none; nobody
puts a filing back behind the clear of a reset inside the gate) and the refinement `ImplementsQueue`. `tasks_live`: no demo mode, timers armed, one filing, under fairness: `WorkersEnd`. Two tasks are enough for one to wait while the other works, two filings for one
to be kept while the next meets the ceiling; a work list may name a filing twice, because two tickers of one
company list the same filings. `MaxActive = 2` never refuses by capacity with two tasks; that
branch is the same step as refusal by the gate, which does occur, and the theorem covers
every capacity. `CHECK_DEADLOCK FALSE`: the number of tasks is bounded by `NumTasks`, so the system stops.

Fairness (`FairSpec`): weak fairness of each worker's step. A worker thread is
never suspended for good, its network and model calls have time-outs and so
return or raise, and the slot, once free for good, is taken by a waiter. Nothing is assumed of clients,
timers, resets or shutdown. `WorkersEnd` excuses exactly one case, a worker broken by the shutdown race below.

Finding (`tasks_shutdown_timer`): the worker's `finally` tests `info._duration_timer` and
then calls `cancel()` on it without the lock; `shutdown()` may set it to `None` in
between, `AttributeError` leaves the block, and the slot is never released, so
waiting workers hang although `shutdown` says they run to completion.

Disagreements without a run: a worker marks its task COMPLETED before its retention sweep, and
`exclusive_maintenance` looks at states only, so the sweep (`tasks.py:1233`) may write beside a reset
that is promised to be the only writer (`tasks.py:683`). The slot is not FIFO (`threading.Semaphore` promises no
order). A request that read the shutdown flag before it was set inserts its task afterwards. A cancel accepted
while the work list is being built can leave an empty list, so that the task completes instead of being cancelled.
`existing` is read before the demo eviction (`tasks.py:806`), which may delete filings the loop then
skips as duplicates. A roll back deletes by accession whatever stands there by then (`tasks.py:1445`): the slot keeps other tasks away,
not a route that deletes the filing and a `sec-rag` process that stores it anew.

Proved (`TaskManagerProofs`), for any number of tasks, filings, resets and any limits: `TaskInv` and, from it,
`ManagerSound` with its three parts, that a terminal state is final, and the
refinement `ImplementsQueue`. `TaskInv` adds to them which public state and which resolver a worker has at each of
its steps (`StateOfStep`, `ResolverOfStep`), that a worker past the acquire leaves the slot at
zero, and that the gate is closed while a reset is inside. Without `StateOfStep` nothing ties "no task is
active", which `exclusive_maintenance` tests, to "no worker is about to store", which the reset needs.
`CeilingKept` and `CancelledLeavesNothing` follow from `RegistryInv`, which adds what a worker knows of the registry: one
about to store has counted every filing that workers answer for and found the count below the ceiling (`RoomOf`), and a filing it stored is on
its own list for as long as it may be rolled back (`RowsOf`). Both need that only one worker is past the slot, so that
the count is not old when it is used.

The rows that another process stored are not counted by `CeilingKept` and may be deleted by a roll back that
finds the same accession; nothing in the code excludes that.

Merged: the count and the listing of the victims of a demo eviction are one step (`PickVictims`; `tasks.py:1468`, `1480`), although a store of another process may come between.
Left out: a `Timer.start` that fails (`tasks.py:760`), progress counters, result lists, log records, the ownership filter of the routes, the
frames (they are `TaskStream`), the fetch ahead (it is in `Fetching`), and a `_push` that raises because the loop closed in the middle of it.

## The progress stream: `TaskStream`, `TaskStreamProofs`, `MCServing`

`TaskStream` models what a client sees of one task: `_push` on the worker thread, the
event loop's callbacks, and the handlers of `api/websocket.py`. Its state is the
task's progress (`pushed`, `ended`), the
queue the task names (`queue`) and what each queue object holds (`content`), the
callbacks handed to the loop and not yet run (`scheduled`), which handler is running
between two awaits (`loop`), and for each viewer its step, the queue it reads, the frame in
its hand and what its client received. `lost` is a history variable: frames dropped to
make room. Frames are numbers; `End` is the terminal frame of any kind.

| Action | Code |
|---|---|
| `Work`, `MarkTerminal`, `SaveRow`, `SeeQueue`, `MakeQueue`, `Schedule` | the worker: a progress update, `_mark_terminal`, `_persist_task`, and the three parts of `_push` another thread can get between |
| `Put` | `_put_dropping_oldest` on the loop |
| `Connect`, `Stream`, `Drain`, `LookForQueue`, `CreateQueue`, `Listen` | the handler up to its first wait: snapshot, terminal replay, stale frames dropped, queue made if missing |
| `Get`, `Wait`, `IdleEnd`, `Heartbeat` | one turn of `_stream_loop` |
| `Sent`, `SendFails`, `Leave` | the send came back, raised, or the client left |

Run `serving`, part "stream" (two connections, which may be one client's reconnect; two progress frames
and the terminal one; a queue of two, so that it overflows): `FramesSound` (a client's frames come
in order and none twice, and a frame a client did not get was told by a later snapshot, dropped for room or
taken by the other connection), `BufferSound` (a queue keeps its bound and
never drops the terminal frame) and `ClientIsTold`: a client that stays
gets a frame or a close that says the task ended, whichever connection took the terminal
frame. It needs fairness (in `StreamSpec`): the worker reaches its end, the loop runs its callbacks and
resumes handlers whose wait is over, sends return or raise. The idle poll of the
handler, which looks at the task's state, is what makes it true with two viewers on one queue.

Disagreements without a run. The state becomes terminal before the history row is tried, and the
frame is pushed whether or not it was written, so a client told of the end, by the frame or from the state
(`websocket.py:208`), may find no row, though `api/tasks.py:1535` says that it exists by then. And worker and handler
both make the queue when they find none, without a lock, so a handler
can be left reading a queue that no frame will enter, though `api/tasks.py` says the two share it; the idle poll ends it.

Proved (`TaskStreamProofs`), for any viewers, frames and capacity: `BufferSound`, from
`StreamInv`: a worker that pushed `End` pushes nothing more, `End` is last in its queue and
among the callbacks, and no callback is left once it is in. Dropping the oldest frame spares the
terminal one only because of that order, and because the capacity is not zero.
And `FramesSound`, from `FrameInv` beside it: the frames lie in successive stretches along callbacks, queues and
clients (`InOrder`, `ClientAhead`), none that was handed over is nowhere (`NoneNowhere`), and nothing reaches the queue
a handler made before it is the queue of the task (`ViewersQueue`). That last part is what the race of the two makers needs:
frames may be left behind in the worker's queue, never in the handler's.

Left out: handshake and authentication before the snapshot, the direct put of a
manager without a loop, a loop closed during a push.

## The sealed collection and re-index: `Reindex`, `StoreProofs`, `MCStores`, `MCReindex`

`Reindex` models `database/reindex.py` and the open, seal, store, delete and clear of
`database/client.py`, in processes of their own. A collection has a seal (the stamp of
the embedder it was made for) and rows in insertion order, each with the stamp its vector was made under.
`handles` says who holds a handle on the live collection; ChromaDB handles name an object, so
they die with it. History variables: `base` (the live chunks when the run began),
`disturbed` (a service changed the live collection since) and `takenOver` (a seal or a
clear took a collection that another had sealed since it looked).

| Action | Code |
|---|---|
| `Open`, `Seal`, `RefuseUnsealed`, `Restart` | `ChromaDBClient.__init__` and `_verify_stamp` |
| `Store`, `Delete`, `ClearCount`, `ClearDrop`, `ClearCreate` | the calls of the same names, `clear_collection` in its three parts |
| `Start`, `Count`, `CreateStaging`, `EmbedPage`, `Embedded`, `DropLive`, `CreateLive`, `CopyPage`, `Copied` | `ReindexService.run`, call by call |
| `CreateStagingFails`, `Fail`, `CleanUp`, `Interrupt` | a call raises; the process ends |

Run `stores`, part "reindex" (two services, two stamps, two chunks, pages of one): `VectorsSound` (every vector of a
sealed collection was made by the embedder of its seal, and a ready service queries
vectors of its own embedder), `DoneKeepsAll` (a completed run beside no writer keeps every chunk) and
`InterruptedKeepsAll` (cut anywhere, all chunks are in the live or the staging collection). The
properties about seals hold up to the first take-over; two services that first open a new
directory under different embedders (`client.py:155`), or a clear beside such an open, do take over, and nothing in the code excludes it.
Two chunks over pages of one are the fewest with a page boundary inside both the embedding and the copy.

Finding (`reindex_failure`): the docstring of `run` says that a failure drops the staging
collection and leaves the live one untouched; a failure after the swap's drop loses both.

Disagreements without a run: `sec-rag reindex` advises to re-run after an
interrupt in the swap, but the next run reads the half-filled live collection as its
source; an unsealed populated collection is refused by every open with advice to
re-index, which refuses it too and advises `manage clear`, which opens it the same way; and pages are read by offset over a
total counted once (`reindex.py:391`), so a delete beside the run makes it skip a chunk (`disturbed` excuses `DoneKeepsAll` for it).

Proved (`StoreProofs`), for any finite set of chunks, any services, stamps and page size: `VectorsSound`, `DoneKeepsAll` and
`InterruptedKeepsAll`, from `ReindexInv`. `Sealed` adds to the first that the run's copy, too, holds a collection of the wanted seal
while it fills it, and `Staged` that the staging collection never has a vector of another model, because the swap copies it under that seal. The
other two follow from `Copying`, which says of every step of a run beside no writer where the chunks are: all in the live collection
up to the drop, all in staging from the last page to the end of the copy, and in between exactly the first `offset` rows of the one in the other.
What a delete or an `add` keeps of a sequence of rows (`RowsBut`) is a recursive function; what it computes is shown by induction over a set of numbers
(`SetInduction`, from the well-foundedness of `<`). Assumed: the chunks are finite, "none" and "missing" are no stamps, the run's two handles
are named apart from the services'.

Merged: the count and the `modify` of the first seal of an unsealed empty collection are one step (`Seal`; `client.py:180`, `186`).
Left out: the dimension check before anything is touched,
the one-time `filing_date_int` back-fill, two runs at once.

## Sessions: `Sessions`, `IdentityProofs`, `MCIdentity`

`Sessions` models the two in-memory stores that live under the cookie's session id,
the credential store with its user bindings (`core/credentials.py`) and the store of EDGAR
identities (`core/edgar_identity.py`), and the routes that mint, rotate and close sessions
(`api/routes/session.py`, `auth.py`). `creds` and `edgar` are the two maps, `credsSwept` and `edgarSwept` their
`_last_sweep`, `now` the monotonic clock. `minted`, `closed` and `deleted` say which ids
were handed out, which were rotated away or logged out, and which user rows are gone.
History variables: when each store was last operated on, and which closed ids a late
request used again (`late`).

| Action | Code |
|---|---|
| `Sweep`, `EvictIfExpired`, `Touched` | `_maybe_sweep_locked`, `_evict_if_expired`, `_touch`: part of every operation below |
| `StoreKey`, `ReadKey`, `ListKeys`, `DropKey` | `set`, `get`, `list_providers`, `delete` of the credential store |
| `ResolveUser` | `_resolve_active_user`: a binding to a deleted row is undone on sight |
| `RegisterIdentity`, `ReadIdentity`, `ClearIdentity` | `set`, `get`, `delete` of the identity store |
| `MintSession`, `Login`, `Logout` | mint or rotate; rotate and bind; both sign-outs |
| `DeleteUser`, `Restart`, `Tick` | a row goes; the process restarts; time passes |

A request may carry any id ever minted, closed ones included, because it may have been
under way when its cookie was replaced; an operation is one step, because each store holds its
lock throughout, and the calls a route makes to the two stores in a row are one step too
(also the clear, mint and bind of a login, `auth.py:313`–`327`: no `await` comes between them, but a route on the thread pool may). No route of this version stores a key under a session: `StoreKey` and `DropKey` are the
interface of the store.

Run `identity`, part "sessions" (two ids, one user, lifetime 2, time to 5, so that an entry can be
used, expire, be swept and come back): `SessionsSound` (an operation leaves nothing in its store that
is two lifetimes old, the docstring's bound, which hangs on one strict and one
non-strict comparison; a rotated or logged-out id stays without a user; nothing is left
under a closed id but what a later request put there) and `LifetimeKept`, about steps (an expired entry that no sweep has
reached yet is not brought back; an entry in its lifetime goes by requests for its own session only).
Two ids let one session's request sweep the other's entry and let one be rotated into
the other; the proofs cover any number.

Proved (`IdentityProofs`), for any ids, users, lifetime and clock bound: type correctness and `SessionsSound` with its three
parts, from `SessionInv`. Its first part is not inductive: it needs that no entry's
lifetime ended before the last sweep (`credsSwept <= touched + TTL`) and that a store is operated on
less than one lifetime after the sweep it remembers (`credsAt < credsSwept + TTL`), because a later operation sweeps
again. `LifetimeKept` is shown step by step: beside the session it is for, an operation leaves what is within its
lifetime and changes nothing of what it leaves (`Beside`); a login writes an id that nothing was held under, which is
where the invariant is needed.

A disagreement without a run: `api/app.py:173` says an entry "cannot outlive the cookie". The cookie's
`Max-Age` counts from the mint, the entry's lifetime from its last use, so an entry used late does. In the
model a request may carry an id at any time, so the properties hold with and without a cookie's end.

## Accounts and the vault: `Accounts`, `IdentityProofs`, `MCIdentity`

`Accounts` models one user name from the database to the browser: the row with its lockout and
its sealed vault (`database/users.py`), the account routes (`api/routes/auth.py`, `users.py`), and the
pages that open the vault, change it and send it back whole (`src/frontend/src/lib/user-vault.ts`). The
server never opens a vault. Proof and sealing key both come from the password and the row's salt, so
`hash` (what proof the row accepts) and `kek` (what key seals its vault) are both named by the
number of a salt. `tab` is what a page holds: key, copy, and the row its session is bound to. `login`, `upload` and
`change` are the calls it has under way, one `upload` per row of the providers page. History variables:
`guesses`, `enteredFor`, `kept`, `current` (copies and requests made from the vault as it is now) and
`overwrote` (a write was made from an older copy).

| Action | Code |
|---|---|
| `Enrol`, `DeleteRow`, `Unlock`, `LockExpires` | `complete_enrolment`, the admin routes, `locked_until` |
| `WrongProof`, `Failed`, `Passed` | `verify_login`, `_record_failure`, `_record_success` |
| `LoginParams`, `LoginAccepted`, `LoginRefused`, `LoginFails`, `OpenVault` | `loginUser` and the login route |
| `SendVault`, `HandleVault`, `VaultSaved`, `VaultNotSaved` | `mutateVault` and `update_vault` |
| `SendChange`, `HandleChange`, `ChangeRefused`, `Changed`, `ChangeFails` | `changePassword` of page and route |
| `ClosePage`, `SessionEnds`, `CutOff` | sign-out and page load; the end of a session, which refuses what is under way |

Run `identity`, part "accounts" (two pages in two browsers, two keys, threshold 2, two enrolments, three salts, at most two
failures on the count). `VaultOpens`: what the accepted proof comes from opens the vault (`SealMatches`), and a
page that opened the vault, or saw its own write succeed, with nothing written since, holds the vault
and its key (`TabHoldsVault`). `NothingLost`: a key the user saw saved is in the vault. These hold as long as
no write was made from an older copy: they say nothing of what two saves from one copy, or a save under the old key beside a
password change, do to the vault. The first two disagreements below are what those do.
`OnlyOwnKeys`: a name that was deleted and enrolled again starts empty and stays apart from sessions, pages
and requests of the old row. Two browsers are the fewest that can write from two copies; two rows the
fewest for a name to come back; two failures reach the threshold, so a lock and its end occur;
three salts are one password change per row and one more.

Abstractions: each page has a cookie of its own, so two tabs of one browser that share a session are not modelled;
asking for the old salt and sealing under the new one are one step (an older salt is only refused, as if replaced under
way); entering a key stands for every update of the map; each key is entered once; token
signature and expiry, decoy salts and the listing of users are left out. No component of the client calls `changePassword` yet:
its actions are the function and the route as they are.

Proved (`IdentityProofs`), for any pages, keys, threshold, enrolments and salts (the keys are only assumed not to be
named "tab", "login" or "change", which `current` uses beside them): the three properties, from `AccountInv`. None of them is
inductive. What is added is, page by page (`TabOk`): each copy of a vault, on a page or in a call, holds only keys
entered for the row it names; a page is open under one row, and its calls carry that row's id or none; and what
each entry of `current` says of page, login, save and change (`CurrentTab`). The hardest part of that: a page may have a
save and a change under way at once. Each needs only the half of the page, key or copy, that its own answer
will not replace; the one handled first takes the other out of `current`; and an answer on its way back excludes
every other current entry of its page. A step of one page is shown to keep its own part; a lemma
(`TabKeeps`) says when that suffices for the others: the row has the same vault, or nothing of theirs is
current any more.

Disagreements without a run. One page, two provider rows saved at once: `mutateVault` (`user-vault.ts:549`) reads `liveMap` before
its awaits and sends the whole of it; the busy flag is one per row
(`components/provider-key-row.tsx:45`). The second save is built from the copy before the first, and the first
key, reported as saved, is gone from the vault. `user-vault.ts:462-465` calls a wrong password after an accepted proof unreachable; it
is reached when a page with the old key saves after another browser changed the password (`overwrote` with
`row.kek # row.hash`). `database/users.py:37-41` says that a slow drip of guesses never trips the lock;
the count has no age (`users.py:475`), so it does. `consume_enrolment_nonce` is not called by the enrolment route; a token is good once
only because the name has a row after it. A password change does not end other sessions. The EDGAR card registers an
identity with the session first and writes the vault second, so a failure of the second leaves the two apart until the next login.

## Answers: `Answer`, `AnswerProofs`

`Answer` models one provider under questions asked at the same time: the routes `/api/rag/plan`, `/query` and `/stream`
(`api/routes/rag.py`), the orchestrator (`rag/orchestrator.py`), the retry loop of every provider
call (`core/resilience.py`), the breaker and the health registry (`core/provider_health.py`), and, for a
stream, the producer thread, the queue to the event loop, the SSE body and a client that may leave at any step. `pc` is
the step of the thread that works for a request, `llm` its SDK client, `call` its retry loop,
`queue`, `stop`, `body`, `frames` and `audit` the stream, `health` the breaker with the registry's counters.
`wasted` (events produced for a body that had ended) and `recorded` (the outcome reported) are history variables.

| Action | Code |
|---|---|
| `Reject`, `BuildLLM`, `BadRequest`, `Accept`, `OpenBody` | the routes up to the provider call; a streamed response starts its thread when it is first read |
| `RetrievalFails`, `Refuse`, `StartCall`, `CallSucceeds`, `CallFailsForGood`, `CallFails`, `Wake` | `generate`, `generate_stream`, `resilient_call`, `_next_retry_delay` |
| `HalfOpen`, `OnSuccess`, `OnFailure`, `RecordSuccess`, `RecordFailure`, `Report`, `Snapshot` | `CircuitBreaker`, `ProviderHealthRegistry`, the two seams of the orchestrator |
| `NextDelta`, `StreamExhausted`, `StreamBreaks`, `PassOn`, `PassError`, `Teardown`, `PutSentinel` | the producer thread |
| `Take`, `Resume`, `Heartbeat`, `Leave` | the SSE body and its client |

Run `answer` (one plan, one question, one stream; one retry, a deadline of 2, Retry-After of 0 to 2, threshold 2 with one
failure on record): `StopsWithinOneEvent` (an abandoned stream costs at most one further event that the orchestrator yields; pieces of the SDK's stream without text, `orchestrator.py:473`, are not events, and the flag is not looked at between them), `FramesTellTheTruth` (frames in
order, one end, the final frame after all the text, the audit line says what was sent),
`HealthSound` (breaker and registry agree, and count every call that ended and nothing else), `CallBounded` (no attempt begins at or past the deadline),
`EverythingEnds` (every body that is awaited ends and every SDK client is closed). One request of each kind lets two
outcomes interleave at the breaker; with one failure on record two requests can open it, cool it down, probe it and fail
the probe. Deadlock is checked: `AllDone` is the only state without a further step.

Fairness: time goes on while somebody sleeps; threads are scheduled, and the SDK's time-outs end every attempt and every
read; the event loop runs a body whose client is there. A client need neither stay nor leave, and a body need not be read.

Disagreements without a run, all in the model: a streamed response whose body is never read leaves its SDK client open
(`rag.py:1264`; `NeverRead` excuses it in `EverythingEnds`); a failure recorded after the cool-down with nobody having read the
state in between is counted against the open breaker (`resilience.py:273`), as nobody asks the breaker before a call; the outcomes of
query plans reach no registry; an embedder's `ProviderError` during retrieval is answered as the model provider's.

Proved (`AnswerProofs`), for any finite set of requests of the three kinds, any threshold, deadline and number of retries: every property but
`EverythingEnds`, from `AnswerInv`. `StreamInv` is its heart: six phases of a stream (not started, flowing, ending, showing its final frame, failing, over)
say how the producer's step, the queue, the body, the frames sent and the audit line fit together. `StopInv` bounds what was produced for a body that ended, step
by step of the thread that has yet to look; `TimeInv` bounds the clock by the attempt under way; `BreakerInv` ties the breaker's counters to the registry's; `Tally`
counts the requests that ended either way. `HealthSound` is not inductive without the tally, nor `FramesTellTheTruth` without the queue.

Left out: latencies, error names, the words of prompts, the parsing of a plan.

## Data paths: `Fetching`, `Chunking`, `Retrieval`, `MCPipeline`

`Fetching` models the list of filings (`pipeline/fetch.py`), the thread that fetches one filing ahead
(`pipeline/prefetch.py`) and the two loops that use them, the API's worker (`api/tasks.py`) and the ingest commands
(`cli/ingest.py`), run after run. EDGAR's identity is a process global: a fetch of the API takes the lock and sets its task's
before the call, a command's identity is set once. `call[c]` is the fetch of the loop (0) or of run `c`'s thread.

`Chunking` models the parser's walk over the tree of a filing (`pipeline/parse.py`) and the cut of its segments
(`pipeline/chunk.py`). A text is the sequence of its sentences' token counts, a chunk an interval of sentences.

`Retrieval` models one question: the prompt's budget (`rag/context.py`), its legs with rank, rerank, caps and packing
(`search/retrieval.py`, `rag/orchestrator.py`), and the citations taken from the answer (`rag/citations.py`).

| Action or operator | Code |
|---|---|
| `ListAvailable`, `AcrossForms`, `PerForm`, `WorkList`, `BuildList` | `list_available`, `list_available_across_forms`, `_build_work_list` and the listing of a command |
| `Resolve`, `Apply`, `Return` | one fetch: resolver, `set_identity` under the lock, the call |
| `FetchHere`, `Collected`, `StartAfter`, `Close` | `OneAheadFetches`, `BackgroundFetch` |
| `Refuse`, `Stop`, `SkipDuplicate`, `TakeNext`, `Process`, `Store`, `FilingFails`, `NextRun`, `Cancel`, `Elsewhere` | the loops, the cancel flag, other processes |
| `Visit`, `EndParse` | `_extract_segments` |
| `WholeSegment`, `AddSentence`, `Finalise`, `Flush`, `TailFrom`, `ShouldFinalise` | `TextChunker` |
| `Allocate`, `LegsOf`, `Fetch`, `Reranked`, `Sieve`, `Capped`, `Packed`, `RunLeg`, `Merged` | `ContextBudget`, `RetrievalService.retrieve`, `_retrieve_for_plan` |
| `FromIds`, `FromMarkers`, `Build`, `Answer` | citation extraction |

Run `pipeline`: every document of up to five sentences of one to six tokens (limit 5, tolerance 1, overlap 2: under,
on, over and far over the band) and a small tree; every question of a set over every ranking of four chunks of two tickers; two runs,
of either kind, over up to three filings of two forms with amendments and ties, under a ceiling of two.
`ChunksFaithful` (no sentence lost, no chunk outside the band without need, each under the titles it stands under),
`AnswerGrounded` (the prompt has each chunk once, of a ticker asked for, within caps and budget, and no better one was left out but for a limit; the
citations name only what was in the prompt, once, under growing indexes), `OwnIdentity` (no call to EDGAR under another task's
identity), `ListWorkedThrough` (the newest originals up to the number asked for; each fetched once, in order, and accounted
for), `EveryRunEnds`. Ranking and packing are exercised on four chunks only; the theorems hold for any number. Four are the fewest with two tickers, two filings of one, and two sections of a filing. Two runs
are the fewest for one to begin beside a thread of the other. `CHECK_DEADLOCK FALSE`: a document is chunked, a question
answered, the runs over. Fairness, for `EveryRunEnds` only: the loop goes on, and a call to EDGAR ends by its time-out.

Proved (`PipelineProofs`), for every document, corpus, ranking, question, listing and number of runs:

- `OwnIdentity`, from `FetchingInv`. The property is not inductive: it needs that a thread works for the run in hand
  only, so that nothing is under way between two runs (`close` waits for the thread), that a call that has
  resolved an identity has its own task's, and that whoever is in a call of the API holds the lock alone.
- `ListWorkedThrough`, from `ListInv` and `FetchingInv`. That the work list is the newest originals is a fact about the
  listing: each form brings its first `count` originals (`AvailableIs`: one left out comes behind `count` others), the
  sort puts what was brought in an order (`RankIs`, `OrderedIs`: the ranks are the numbers from 1, each once), and the cut of a total
  leaves out only what `count` newer ones of its own form, or of the sorted list, precede (`NewestOfForm`, `NewestOfAll`). That it is worked
  through needs where the run has got to: all it fetched is at new places before the one in hand, or, with one ahead, before that one
  (`Reached`), and the one ahead is the next new filing of the list (`OneAhead`), so that the run meets it before any other
  and takes its result instead of a second call. Assumed: an ingest names some form and none twice (`api/schemas.py:1294`
  and `config/constants.py` drop repeats and refuse none), EDGAR lists newest first and no accession twice.
- `ChunksFaithful`, from `ChunkingInv`: the walk carries exactly the titled ancestors of a node, at any depth; the chunks cut
  so far begin at the front of their segment and join on; the one in hand has a sentence that no chunk has, and is
  over the band only by that sentence. Sums of tokens are recursive functions; that they exist and grow is proved by
  induction over a set of numbers (`SetInduction`). Assumed of a document: it is a finite tree.
- `AnswerGrounded`, from `RetrievalInv`: the legs left are the last of the question's, and the context is
  what the others brought, each chunk once, its cost within their slices. A filing's chunks all come with one leg
  because a filing is of one company. That nothing better was left out follows from the caps as a sieve: what does not pass
  met a full limit. Citations are taken at places that grow. Assumed: a filing is of one company, a ranking names a chunk once.

Disagreements without a run: the hard cap of a chunk can be exceeded by a carried tail and one sentence (`CutsInBand` allows exactly
that); the legs of a comparison each get at least the floor, so their sum can exceed the prompt's budget, and a ticker named
twice halves the budget of each leg; a section cap counts a path over all filings; without a reranker exactly
`top_k` matches are fetched, so caps shrink the result; indexes of inline markers do not line up with the display index
after citations are deduplicated; `_allocate_budget` asks for capabilities without naming the model;
`list_available_across_forms` swallows the failure of a form; `sec-rag ingest` on Ctrl-C does not wait for the
thread ahead.

Left out of `Fetching`: the form a listing asks for does not enter the skip of known accessions (`Skipped`; `fetch.py:239`), and a demo eviction
does not change what is fetched ahead (`StartAfter`; `tasks.py:884`–`891`, `964`).

## Maintenance: `Schema`, `Archive`, `MaintenanceProofs`, `MCMaintenance`

`Schema` models the opening of the registry, statement by statement: `bootstrap_schema_version`, `apply_pending_migrations`
(`database/migrations.py`) and `_initialise_schema` (`database/metadata.py`), by two processes that may die or leave between any
two statements, under two drivers that commit at different ones: `sqlite3` keeps DDL inside an open
transaction, `pysqlcipher3` commits before it.

`Archive` models backup and restore (`database/backup.py`, `cli/backup.py`) and portable export and import
(`database/portable.py`, `cli/portable.py`), file operation by file operation, over the stores of two hosts whose settings, build or
encryption may differ, beside an application on the first host that stores and deletes there.
An import goes filing by filing as the code does: embed and claim, one slice of chunks after the other, and on a failure the delete of the slices and of the
claim, each of which may fail too. `marred` is a history variable: which filings a store, delete or import that was cut off or failed, or a restore, may have left half
done. `rmtree`, `move` and the replacement of the SQLite
file pass through a state that cannot be opened.

| Action | Code |
|---|---|
| `Open`, `Bootstrap`, `Current`, `Body`, `StampBody`, `Migrated`, `CreateFilings`, `CreateTaskHistory`, `Commit`, `Refused`, `Exit` | bootstrap, migrations, schema; a loser's `IntegrityError` or busy time-out; death or close |
| `Backup`, `SnapshotSqlite`, `CopyChromaTree`, `OpenTarball`, `Pack` | `BackupService.backup` |
| `Restore`, `Accepts`, `Extract`, `ClearChroma`, `MoveChroma`, `ReplaceSqlite` | `BackupService.restore`, `_replace_target_paths` |
| `Export`, `Fetch`, `WriteLine`, `WriteManifest` | `PortableExportService.export` |
| `Import`, `ImportClaim`, `ImportFails`, `Imported` | `PortableImportService.import_` |
| `ImportSlice`, `ImportAddFails`, `ImportUnclaim` | `FilingStore._store_filing_atomic`, `ChromaDBClient.store_filing` with their roll backs |
| `AppStart`, `AppStop`, `AppStep`, `Interrupt` | the application beside it; a command cut off at any step |

Run `maintenance` (two openers over every file a build may meet, two drivers, three versions; two filings of two chunks, one
kind of archive per behaviour, exports between hosts of one configuration, one filing half stored at a time, one filing in all beside an artefact or while an
export is forced over another; `Bounds` in `MCMaintenance`): `SchemaSound` (a version stands for its tables, an opened registry is complete, and no open makes a file
that later opens refuse), `RestoreSafe` (a refused restore touched nothing, a successful one is the artefact, and at no moment are
live stores and artefact of `Here` unusable at once, also when the artefact is of an older build), `ImportSafe` (after an import that reported success every filing
asked for is registered, a registered filing has every chunk it was registered with, and one the import brought every chunk the export read, whatever earlier imports failed at and whatever
the application stored and deleted beside; a filing the host had is not changed). Left out of `ImportSafe` are the filings that an interrupted call or a failed roll back had left half done
before (`marred`), those of a restored host, and what the application has touched since the import began. Two openers are enough for a loser; three versions give two migrations, so that a death can
come between them. `CHECK_DEADLOCK FALSE`: the protocols end.

Finding (`import_rerun`): after Ctrl-C `sec-rag manage import` prints that "it is safe to re-run" on the same input (`cli/portable.py:354`). The claim of a filing comes before its chunks, and only a
`DatabaseError` rolls it back (`store.py:196`); an interrupt in between leaves the row without all its chunks, and the re-run skips the filing as a duplicate and reports success: `RerunIsSafe`
is violated.

Disagreements without a run, in the model: a backup beside a writer may hold rows without their chunks (two moments are copied);
the artefact is written in place, so `--force` over an old one loses both when cut off; a forced export over an older one keeps the old
manifest until its end (`residue` excuses it in `ImportedWhole`); a restore cut off between directory and file leaves
stores of two states; after an import's failed roll back a filing stays registered without chunks, for good as well; of two first opens of a new file the loser is refused by the primary key instead of finding the file ready; under
`pysqlcipher3` a stamp may be committed before `filings` and `task_history` exist, although `metadata.py:401`–`404` promises one transaction (`StampMeansTables` covers the versions from 2 on;
the next open creates the two tables); the manifest's schema version is read before the snapshot (`backup.py:233`), so it may be older than the snapshot's own, `schema` in the model, when an
application of a newer build migrates in between.

Merged: the creation of `schema_version` and the first read of it (`Open`; `migrations.py:217`–`228`), and the removal of the SQLite file with its `-wal` and `-shm` (`ReplaceSqlite`; `backup.py:849`–`855`).

Proved (`MaintenanceProofs`): `SchemaSound` for any set of openers and one to three versions, `RestoreSafe` and `ImportSafe` for any filings, chunks, stamps,
keys and builds. `SchemaInv` says of the file and of the open transaction that a stamp has its tables and the transaction is ahead of the file, and of each opener
what it relies on at its step about what it would see (`Needs` of its `View`), which a rival's commit may only add to. `ArchiveInv` says for each
command what it has in hand and what it has not touched yet: `Restoring` (what is extracted is the artefact, accepted, and the stores are the old ones until the first removal),
`Dumped` (a manifest stands for its lines, unless lines are being rewritten under it), `Importing` (which filings it is done with, and that the one it is at is not one the host had). Beside them
stand `Registered` (a registered filing that nothing has marred has its chunks, or the import at it holds the rest, `BeingAdded`), `Brought` (the same of what the export read) and `Ended`. The marks are what makes them
inductive: whoever leaves a filing half done marks it, and only a complete store or delete takes the mark away. Assumed: the two hosts differ, the step names "claim" and
"unclaim" are no filings, and chunks are numbered.

Left out: the indexes of `filings`, created between the two tables (`metadata.py:464`), file modes, sizes, the path checks of the tarball, line formats (whole or torn).

## What requests share: `Catalogue`, `Embedder`, `Requests`, `ServingProofs`, `MCServing`, `MCPipeline`

`Catalogue` models the model catalogue: the bundled baseline, the refresh that fetches, normalises, validates and replaces
the overlay file, and the merged cache of each process, filled on first use without a lock (`providers/catalogue.py`,
`refresh.py`, `registry.py`, `api/routes/catalogue.py`). `Embedder` models the on-device embedder of a process
(`providers/local.py`): loads under a lock, encodes outside it, an idle unload from the task manager's sweeps, the warm-up of the
boot. `Requests` models what stands before a handler: the policy table (`api/policies.py`), the sliding windows and the body
cap (`api/middleware.py`, the login route's window).

| Action | Code |
|---|---|
| `Check`, `Load`, `Assign`, `ReturnActive` | `model_catalogue` |
| `FetchJson`, `Normalise`, `Validate`, `WriteTemp`, `Replace`, `Reset`, `Finish`, `Restart`, `EditByHand` | `refresh_overlay` and its route and command; a process ends; the file is edited |
| `WarmUp`, `EmbedTexts`, `EnterLoad`, `LoadFails`, `Enter`, `Encode`, `LeaveEncode`, `MaybeUnload`, `Tick` | boot, `embed_texts`, `_ensure_model_locked`, `maybe_unload` |
| `Arrive`, `RateLimit`, `ContentLength`, `Receive`, `Respond`, `ReadOn`, `Return`, `AnswerSent`, `HalfSecond` | the two middlewares, the handler's read and answer |

Runs `serving` (the parts "windows", "bodies" and "catalogue", beside the stream of `TaskStream`: one worker with two threads and two changes of the overlay; every entry of the policy table, with bodies about a cap, and windows of 2 seconds in half-second steps) and, because chunks and questions pass through it, `pipeline`, part "embedder" (two encoders, three loads, five clock readings): `CatalogueSound` (nothing
of the baseline is lost, the served key's row wins over an alias's, the file is never half written),
`RefreshTakesEffect` (a worker that reported a refresh answers from nothing older, unless a look-up was loading when the
cache was dropped: `raced`; so it says nothing of that look-up's own late assignment, which `routes/catalogue.py:116` calls safe), `OneModel` (one model at most, none taken from under an encode), `IdleIsReleased`, `WindowExact` (at most
the limit in any window, and whoever waits as long as told is let through), `OneAnswer` (one start on the
wire, never more body than the cap). The four documents have aliases before and after the served key, rows out of bounds,
other spellings. Two threads are the fewest for a look-up beside a refresh, or an unload beside an encode. `CHECK_DEADLOCK FALSE`:
clock, loads and writes are bounded.

Fairness, for `IdleIsReleased` only: threads of the embedder are scheduled, a load and an encode end, and the task endpoints go on
being polled, because the unload is tried only after a task and on their sweeps (`tasks.py:1572`); a process nobody polls
keeps its model.

Proved (`ServingProofs`): every property but `IdleIsReleased`.
`OneModel`, for any encoders, times and loads, from the invariant that `inFlight` is the number of
encoders between entry and leave, that an encoder's reference is to the resident model, and that the lock's holder found none.
`RefreshTakesEffect`, for any workers, threads, baseline and documents, from the invariant
that nothing newer than the file is in hand or reported, and that what a thread is about to assign is old only where `raced` says so.
`CatalogueSound`, from `SoundInv`: what the file, each cache and each thread hold is clean and keeps the baseline. What normalisation keeps of a document of any length is shown by
induction over its entries (`Taken`, the entries looked at so far). Assumed of the baseline, and true of the bundled `model_catalogue.json`: no two names of a provider's model
that differ in case only, and costs in bounds; of a document, that a key occurs once, as in any JSON object.
`WindowExact` and `OneAnswer`, for any windows, limits, keys and bodies, from `RequestsInv`: a deque is in the order of time and agrees with the history of what was let through as far as
the window reaches, whatever the cleaning dropped; a caller who was told a time has room from then on; and a body is answered once or not yet.

Disagreements without a run: a look-up beside a reset may return `None` (`catalogue.py:367`, `routes/catalogue.py:115`); two aliases
of one slug are decided by the order of the document; a crash between the temporary file and its replacement leaves
`.overlay-*.tmp` behind; an infinite count raises in `_coerce_int` outside the handled errors (`refresh.py:236`), so the route answers 500;
`_SlidingWindow` reads the clock outside its lock (`middleware.py:467`; here the gates run on the loop, one after the other);
a validation refused by its session's window has already used the address's.

Left out: a declared length below zero (`ContentLength` has "none" and "not a number" beside the lengths), security headers, correlation ids, the cookie and admin-key checks, other providers' adapters.

## Plan

The order was by what would hurt most: the two stores, the workers that fill them, what a viewer sees, the re-index,
sessions and accounts; then the answer path with its provider call, the fetch with its prefetch thread, the files that are
migrated, backed up and carried over, the gates before a handler, the catalogue and the on-device embedder; and the pure data
paths (chunker, retrieval) by exhaustion over small inputs. `TaskManager` is composed with its abstract queue by
refinement. It treats the dual store as one sequence because `FilingStore` says how its halves agree.

Left, in this order:

1. An abstract map from filings to complete contents that `FilingStore` implements at rest, outside `overlapped`
   and `faulted`.
2. Two tabs of one browser: one session, two copies of the vault.
3. The tracker of enrolment nonces, if a route comes to use it.
## The runs

| Run | Configuration | Distinct states | Outcome |
|---|---|---|---|
| `stores` | `MCStores.cfg` | 2 344 844 | all hold |
| `store_sweep` | `MCFilingStoreSweepSparesTheNew.cfg` | – | `SweepSparesTheNew` violated |
| `tasks_two` | `MCTaskManager.cfg` | 2 784 807 | all hold |
| `tasks_live` | `MCTaskManagerLive.cfg` | 289 008 | all hold |
| `tasks_shutdown_timer` | `MCTaskManagerThreadsRunToCompletion.cfg` | – | `ThreadsRunToCompletion` violated |
| `reindex_failure` | `MCReindexFailureLeavesLive.cfg` | – | `FailureLeavesLive` violated |
| `identity` | `MCIdentity.cfg` | 1 418 879 | all hold |
| `answer` | `MCAnswer.cfg` | 285 796 | all hold |
| `pipeline` | `MCPipeline.cfg` | 542 305 | all hold |
| `maintenance` | `MCMaintenance.cfg` | 2 845 197 | all hold |
| `import_rerun` | `MCMaintenanceRerunIsSafe.cfg` | – | `RerunIsSafe` violated |
| `serving` | `MCServing.cfg` | 1 003 017 | all hold |

A run with the outcome "violated" checks one property that states what the repository says, and TLC finds the
behaviour of the code that breaks it. The sections above name more disagreements, without a run, at their lines.

## Mutants

Each property of a passing run has a mutant in `PROJECT.json`: a definition of the module
(commented "Mutant") that stands for a plausible bug and, put in place of the mapped
definition, makes TLC find the property violated under the same configuration.

## Only model-checked

Liveness under fairness: `WorkersEnd`, `ClientIsTold`, `EverythingEnds`, `EveryRunEnds`, `IdleIsReleased`. The prover does not do it.
Every invariant and every refinement or action property that a passing run checks without fairness is also a theorem.

The theorems about induction in the provers' library take an operator as a parameter and cannot be used. Where a proof needs
induction it is over a set of numbers, from the least element of a set that is not empty (`SetInduction`, `LeastExists`), which is enough for the
recursive functions of the models; operators such as `SelectSeq`, which recur over a sequence, were replaced by functions.

## Not modelled

- Evaluation (`rag/evaluation.py`, `search/evaluation.py`): offline sums over a file of questions.
- Settings, logging, metrics and shared types: configuration, redaction and value types, with no protocol.
- The browser client beyond vault and provider keys: user interface and request plumbing.
- HTML parsing (`doc2dict`), downloading (`edgartools`), embedding and the vector index: external libraries, in
  the models by what they may return.
- The wire formats of the provider adapters, of archives and of portable files: the models keep what is read
  back, what is refused and in which order.
- The parts of a partly modelled component that `PROJECT.json` names in its note: they read state, or shape text.
