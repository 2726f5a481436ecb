----------------------------- MODULE TaskManager -----------------------------
(***************************************************************************)
(* The ingest task manager (api/tasks.py): one worker thread per accepted  *)
(* task, one GPU slot they queue for, the cancel flag and the duration     *)
(* timer that stop a task, the ceiling and the demo eviction that make     *)
(* room for filings, the roll back of a cancelled task, the retention      *)
(* sweep after a completed one, the maintenance gate of the demo reset,    *)
(* and shutdown.  The two stores are one registry here: a filing is in it  *)
(* or not (FilingStore models how they agree), and a failed delete leaves  *)
(* the rows.  Between any two steps of a worker the other threads move.    *)
(***************************************************************************)
EXTENDS Naturals, Sequences, FiniteSets

CONSTANTS NumTasks,    \* tasks ever created (a bound)
          Accessions,  \* accession numbers
          WorkLists,   \* work lists EDGAR may answer with
          Tenants,     \* tasks created with an EDGAR identity resolver
          Resets,      \* request threads of the demo reset route
          MaxActive,   \* API_MAX_TASK_QUEUE_SIZE
          MaxFilings,  \* DB_MAX_FILINGS
          Buffer,      \* API_DEMO_EVICTION_BUFFER
          Demo,        \* API_DEMO_MODE
          TimeLimit    \* API_MAX_TASK_DURATION_MINUTES > 0

Tasks == 1..NumTasks

ASSUME TaskAssumption ==
  /\ NumTasks \in Nat
  /\ WorkLists \subseteq Seq(Accessions)
  /\ Tenants \subseteq Tasks
  /\ MaxActive \in Nat /\ MaxFilings \in Nat /\ Buffer \in Nat
  /\ Demo \in BOOLEAN /\ TimeLimit \in BOOLEAN

VARIABLES
  created,    \* tasks created so far
  known,      \* tasks in the in-memory dict
  state,      \* TaskInfo.state
  history,    \* the status in task_history
  resolvers,  \* tasks whose EDGAR identity resolver the manager holds
  cancel,     \* cancel_event
  timer,      \* TaskInfo._duration_timer, and whether it has fired
  pc,         \* where the worker stands
  slot,       \* value of the GPU semaphore
  work, existing, cached, victims,  \* locals of _execute
  stored,     \* TaskInfo._stored_accessions
  registry,   \* accessions in both stores, oldest first
  owner,      \* history: the task that stored the accession last, 0 for none
  kept,       \* history: tasks whose roll back failed
  maintenance, rpc,  \* the maintenance gate, and where each reset stands
  shutdown    \* shutdown(): not called, event set, timers cancelled

taskVars  == <<created, known, state, history, resolvers, cancel, timer>>
localVars == <<work, existing, cached, victims, stored>>
storeVars == <<registry, owner, kept>>
gateVars  == <<maintenance, rpc, shutdown>>
vars == <<taskVars, pc, slot, localVars, storeVars, gateVars>>

Active   == {"PENDING", "RUNNING"}
Terminal == {"COMPLETED", "FAILED", "CANCELLED"}

\* From the acquire to the release a worker holds the slot.
Holding == {"start", "build", "room", "drop", "count", "loop", "room1", "drop1",
            "count1", "fetch", "process", "store", "rollback", "cancelled",
            "except", "persist", "sweep", "finally", "disarm", "pop", "release"}
Steps   == Holding \cup {"none", "request", "inserted", "unstarted", "wait", "done", "broken"}

ActiveTasks == {t \in known : state[t] \in Active}
Filings     == {registry[i] : i \in 1..Len(registry)}
Least(m, n) == IF m < n THEN m ELSE n

\* The registry after a delete of the filings of S.
Without(S) ==
  LET left[i \in 0..Len(registry)] ==
        IF i = 0 THEN <<>>
        ELSE IF registry[i] \in S THEN left[i - 1] ELSE Append(left[i - 1], registry[i])
  IN left[Len(registry)]

Init ==
  /\ created = 0 /\ known = {}
  /\ state = [t \in Tasks |-> "absent"]
  /\ history = [t \in Tasks |-> "absent"]
  /\ resolvers = {}
  /\ cancel = [t \in Tasks |-> FALSE]
  /\ timer = [t \in Tasks |-> "none"]
  /\ pc = [t \in Tasks |-> "none"]
  /\ slot = 1
  /\ work = [t \in Tasks |-> <<>>]
  /\ existing = [t \in Tasks |-> {}]
  /\ cached = [t \in Tasks |-> 0]
  /\ victims = [t \in Tasks |-> {}]
  /\ stored = [t \in Tasks |-> {}]
  /\ registry = <<>>
  /\ owner = [a \in Accessions |-> 0]
  /\ kept = {}
  /\ maintenance = FALSE
  /\ rpc = [r \in Resets |-> "idle"]
  /\ shutdown = "no"

GoTo(t, step) == pc' = [pc EXCEPT ![t] = step]
At(t, step)   == pc[t] = step

-----------------------------------------------------------------------------
(* create_task.  The shutdown flag is read before the lock is taken; the   *)
(* maintenance gate, the capacity and the insert are one critical section. *)
(* A task's number is the order of its insert.                             *)

Request ==
  /\ shutdown = "no"
  /\ created < NumTasks
  /\ created' = created + 1
  /\ GoTo(created + 1, "request")
  /\ UNCHANGED <<known, state, history, resolvers, cancel, timer, slot,
                 localVars, storeVars, gateVars>>

\* Mutant: the gate is not read under the lock.
InsertUngated(t) ==
  /\ At(t, "request")
  /\ Cardinality(ActiveTasks) < MaxActive
  /\ known' = known \cup {t}
  /\ state' = [state EXCEPT ![t] = "PENDING"]
  /\ resolvers' = resolvers \cup ({t} \cap Tenants)
  /\ GoTo(t, "inserted")
  /\ UNCHANGED <<created, history, cancel, timer, slot, localVars, storeVars, gateVars>>

Insert(t) ==
  /\ At(t, "request")
  /\ ~maintenance
  /\ Cardinality(ActiveTasks) < MaxActive
  /\ known' = known \cup {t}
  /\ state' = [state EXCEPT ![t] = "PENDING"]
  /\ resolvers' = resolvers \cup ({t} \cap Tenants)
  /\ GoTo(t, "inserted")
  /\ UNCHANGED <<created, history, cancel, timer, slot, localVars, storeVars, gateVars>>

\* IngestPausedError and TaskQueueFullError.
Refuse(t) ==
  /\ At(t, "request")
  /\ maintenance \/ Cardinality(ActiveTasks) >= MaxActive
  /\ GoTo(t, "done")
  /\ UNCHANGED <<taskVars, slot, localVars, storeVars, gateVars>>

StartThread(t) ==
  /\ At(t, "inserted")
  /\ GoTo(t, "wait")
  /\ UNCHANGED <<taskVars, slot, localVars, storeVars, gateVars>>

\* thread.start() raises: nothing takes the inserted task out again.
StartFails(t) ==
  /\ At(t, "inserted")
  /\ GoTo(t, "unstarted")
  /\ UNCHANGED <<taskVars, slot, localVars, storeVars, gateVars>>

-----------------------------------------------------------------------------
(* _run_task_body: the GPU slot, an early cancel, RUNNING and the timer.   *)

\* threading.Semaphore promises no order among the waiting threads.
Acquire(t) ==
  /\ At(t, "wait") /\ slot > 0
  /\ slot' = slot - 1
  /\ GoTo(t, "start")
  /\ UNCHANGED <<taskVars, localVars, storeVars, gateVars>>

\* _mark_terminal flips the state; persisting it is the next step.  The locals
\* of _execute go with it.
Finish(t, s) ==
  /\ state' = [state EXCEPT ![t] = s]
  /\ GoTo(t, "persist")
  /\ work' = [work EXCEPT ![t] = <<>>]
  /\ existing' = [existing EXCEPT ![t] = {}]
  /\ cached' = [cached EXCEPT ![t] = 0]
  /\ victims' = [victims EXCEPT ![t] = {}]
  /\ UNCHANGED <<created, known, history, resolvers, cancel, timer, slot, stored,
                 storeVars, gateVars>>

CancelledWaiting(t) ==
  /\ At(t, "start") /\ cancel[t]
  /\ Finish(t, "CANCELLED")

Run(t) ==
  /\ At(t, "start") /\ ~cancel[t]
  /\ state' = [state EXCEPT ![t] = "RUNNING"]
  /\ timer' = [timer EXCEPT ![t] = IF TimeLimit THEN "armed" ELSE @]
  /\ GoTo(t, "build")
  /\ UNCHANGED <<created, known, history, resolvers, cancel, slot, localVars, storeVars, gateVars>>

-----------------------------------------------------------------------------
(* _execute: the work list, the duplicates, and room for the new filings.  *)
(* Per-form fetch errors are swallowed and a cancel cuts the listing short,*)
(* so any member of WorkLists may come back, the empty list too.           *)

Build(t) ==
  /\ At(t, "build")
  /\ \E w \in WorkLists :
       /\ work' = [work EXCEPT ![t] = w]
       /\ existing' = [existing EXCEPT ![t] = {w[i] : i \in 1..Len(w)} \cap Filings]
  /\ GoTo(t, IF Demo THEN "room" ELSE "count")
  /\ UNCHANGED <<taskVars, slot, cached, victims, stored, storeVars, gateVars>>

NewFilings(t) == Cardinality({i \in 1..Len(work[t]) : work[t][i] \notin existing[t]})

\* _maybe_evict picks the oldest filings when n more would not fit.
Oldest(n) ==
  LET wanted == n + Len(registry)
  IN IF wanted <= MaxFilings THEN {}
     ELSE {registry[i] : i \in 1..Least(wanted - MaxFilings + Buffer, Len(registry))}

PickVictims(t, n, yes, no) ==
  /\ victims' = [victims EXCEPT ![t] = Oldest(n)]
  /\ GoTo(t, IF Oldest(n) = {} THEN no ELSE yes)
  /\ UNCHANGED <<taskVars, slot, work, existing, cached, stored, storeVars, gateVars>>

MakeRoom(t)    == At(t, "room") /\ PickVictims(t, NewFilings(t), "drop", "count")
MakeRoomOne(t) == At(t, "room1") /\ PickVictims(t, 1, "drop1", "count1")

DropOldest(t) ==
  /\ pc[t] \in {"drop", "drop1"}
  /\ registry' = Without(victims[t])
  /\ victims' = [victims EXCEPT ![t] = {}]
  /\ GoTo(t, IF At(t, "drop") THEN "count" ELSE "count1")
  /\ UNCHANGED <<taskVars, slot, work, existing, cached, stored, owner, kept, gateVars>>

Count(t) ==
  /\ At(t, "count")
  /\ cached' = [cached EXCEPT ![t] = Len(registry)]
  /\ GoTo(t, "loop")
  /\ UNCHANGED <<taskVars, slot, work, existing, victims, stored, storeVars, gateVars>>

\* The filings stored so far stay when the ceiling fails the task.
Recount(t) ==
  /\ At(t, "count1")
  /\ Len(registry) < MaxFilings
  /\ cached' = [cached EXCEPT ![t] = Len(registry)]
  /\ GoTo(t, "fetch")
  /\ UNCHANGED <<taskVars, slot, work, existing, victims, stored, storeVars, gateVars>>

StillFull(t) == At(t, "count1") /\ Len(registry) >= MaxFilings /\ Finish(t, "FAILED")

\* A listing, a query, an eviction or a thread start raises out of _execute.
Raise(t) ==
  /\ pc[t] \in {"build", "room", "drop", "count", "room1", "drop1", "count1", "process"}
  /\ GoTo(t, "except")
  /\ UNCHANGED <<taskVars, slot, localVars, storeVars, gateVars>>

Except(t) == At(t, "except") /\ Finish(t, "FAILED")

-----------------------------------------------------------------------------
(* _ingest_work_list, one filing at a time.                                *)

Complete(t) ==
  /\ At(t, "loop") /\ work[t] = <<>>
  /\ Finish(t, "COMPLETED")

More(t)  == At(t, "loop") /\ work[t] # <<>>
\* Mutant: one filing too many.
CeilingOffByOne(t) == cached[t] > MaxFilings
Ceiling(t) == cached[t] >= MaxFilings

\* Mutant: a cancel seen between two filings forgets the roll back.
CancelUnrolled(t) ==
  /\ More(t) /\ cancel[t]
  /\ GoTo(t, "cancelled")
  /\ UNCHANGED <<taskVars, slot, localVars, storeVars, gateVars>>

SeeCancel(t) ==
  /\ More(t) /\ cancel[t]
  /\ GoTo(t, "rollback")
  /\ UNCHANGED <<taskVars, slot, localVars, storeVars, gateVars>>

\* On to the next filing: skipped, failed or stored.
NextFiling(t) ==
  /\ work' = [work EXCEPT ![t] = Tail(@)]
  /\ GoTo(t, "loop")
  /\ UNCHANGED <<taskVars, slot, existing, victims, gateVars>>

SkipDuplicate(t) ==
  /\ More(t) /\ ~cancel[t]
  /\ Head(work[t]) \in existing[t]
  /\ NextFiling(t)
  /\ UNCHANGED <<cached, stored, storeVars>>

FailWithLimit(t) ==
  /\ More(t) /\ ~cancel[t]
  /\ Head(work[t]) \notin existing[t]
  /\ Ceiling(t) /\ ~Demo
  /\ Finish(t, "FAILED")

Take(t) ==
  /\ More(t) /\ ~cancel[t]
  /\ Head(work[t]) \notin existing[t]
  /\ Ceiling(t) => Demo
  /\ GoTo(t, IF Ceiling(t) THEN "room1" ELSE "fetch")
  /\ UNCHANGED <<taskVars, slot, localVars, storeVars, gateVars>>

\* The cancel check after the fetch, and the one before the store.
Advance(t, from, to) ==
  /\ At(t, from)
  /\ GoTo(t, IF cancel[t] THEN "rollback" ELSE to)
  /\ UNCHANGED <<taskVars, slot, localVars, storeVars, gateVars>>

Fetched(t)   == Advance(t, "fetch", "process")
Processed(t) == Advance(t, "process", "store")

FilingFails(t) ==
  /\ pc[t] \in {"fetch", "process"}
  /\ NextFiling(t)
  /\ UNCHANGED <<cached, stored, storeVars>>

Store(t) ==
  LET a == Head(work[t]) IN
  /\ At(t, "store") /\ a \notin Filings
  /\ registry' = Append(registry, a)
  /\ owner' = [owner EXCEPT ![a] = t]
  /\ stored' = [stored EXCEPT ![t] = @ \cup {a}]
  /\ cached' = [cached EXCEPT ![t] = @ + 1]
  /\ NextFiling(t)
  /\ UNCHANGED kept

\* The claim is refused: a late duplicate.
StoreRefused(t) ==
  /\ At(t, "store") /\ Head(work[t]) \in Filings
  /\ NextFiling(t)
  /\ UNCHANGED <<cached, stored, storeVars>>

\* store_filing raises; the claimed row is taken back, or that fails too.
StoreFails(t) ==
  /\ At(t, "store")
  /\ NextFiling(t)
  /\ \/ UNCHANGED storeVars
     \/ /\ Head(work[t]) \notin Filings
        /\ registry' = Append(registry, Head(work[t]))
        /\ owner' = [owner EXCEPT ![Head(work[t])] = 0]
        /\ UNCHANGED kept
  /\ UNCHANGED <<cached, stored>>

-----------------------------------------------------------------------------
(* _rollback, then CANCELLED.  A failed delete is logged, never raised, and *)
(* the list of stored filings is cleared in either case.                   *)

RollBack(t) ==
  /\ At(t, "rollback")
  /\ registry' = Without(stored[t])
  /\ stored' = [stored EXCEPT ![t] = {}]
  /\ GoTo(t, "cancelled")
  /\ UNCHANGED <<taskVars, slot, work, existing, cached, victims, owner, kept, gateVars>>

RollBackFails(t) ==
  /\ At(t, "rollback") /\ stored[t] # {}
  /\ stored' = [stored EXCEPT ![t] = {}]
  /\ kept' = kept \cup {t}
  /\ GoTo(t, "cancelled")
  /\ UNCHANGED <<taskVars, slot, work, existing, cached, victims, registry, owner, gateVars>>

Cancelled(t) == At(t, "cancelled") /\ Finish(t, "CANCELLED")

-----------------------------------------------------------------------------
(* save_task_history is best effort; a completed task then sweeps.         *)

Persist(t) ==
  /\ At(t, "persist")
  /\ \/ history' = [history EXCEPT ![t] = state[t]]
     \/ UNCHANGED history
  /\ GoTo(t, IF state[t] = "COMPLETED" THEN "sweep" ELSE "finally")
  /\ UNCHANGED <<created, known, state, resolvers, cancel, timer, slot, localVars, storeVars, gateVars>>

\* The expired filings are the first n of the registry; none when retention
\* is disabled or the sweep fails.
Sweep(t) ==
  /\ At(t, "sweep")
  /\ \E n \in 0..Len(registry) : registry' = SubSeq(registry, n + 1, Len(registry))
  /\ GoTo(t, "finally")
  /\ UNCHANGED <<taskVars, slot, localVars, owner, kept, gateVars>>

-----------------------------------------------------------------------------
(* The finally block: cancel the timer, drop the resolver, free the slot.  *)

SeeTimer(t) ==
  /\ At(t, "finally")
  /\ GoTo(t, IF timer[t] = "none" THEN "pop" ELSE "disarm")
  /\ UNCHANGED <<taskVars, slot, localVars, storeVars, gateVars>>

Disarm(t) ==
  /\ At(t, "disarm") /\ timer[t] # "none"
  /\ timer' = [timer EXCEPT ![t] = "none"]
  /\ GoTo(t, "pop")
  /\ UNCHANGED <<created, known, state, history, resolvers, cancel, slot,
                 localVars, storeVars, gateVars>>

\* shutdown() has set the timer to None since: AttributeError, and the rest
\* of the finally block is not run.
DisarmBreaks(t) ==
  /\ At(t, "disarm") /\ timer[t] = "none"
  /\ GoTo(t, "broken")
  /\ UNCHANGED <<taskVars, slot, localVars, storeVars, gateVars>>

DropResolver(t) ==
  /\ At(t, "pop")
  /\ resolvers' = resolvers \ {t}
  /\ GoTo(t, "release")
  /\ UNCHANGED <<created, known, state, history, cancel, timer, slot, localVars, storeVars, gateVars>>

\* Mutant: the slot is lost.
ReleaseLost(t) ==
  /\ At(t, "release")
  /\ GoTo(t, "done")
  /\ UNCHANGED <<taskVars, slot, localVars, storeVars, gateVars>>

Release(t) ==
  /\ At(t, "release")
  /\ slot' = slot + 1
  /\ GoTo(t, "done")
  /\ UNCHANGED <<taskVars, localVars, storeVars, gateVars>>

-----------------------------------------------------------------------------
(* The other threads.                                                      *)

\* cancel_task answers True.
Cancel(t) ==
  /\ t \in known /\ state[t] \in Active
  /\ cancel' = [cancel EXCEPT ![t] = TRUE]
  /\ UNCHANGED <<created, known, state, history, resolvers, timer, pc, slot,
                 localVars, storeVars, gateVars>>

Timeout(t) ==
  /\ timer[t] = "armed"
  /\ timer' = [timer EXCEPT ![t] = "fired"]
  /\ cancel' = [cancel EXCEPT ![t] = @ \/ state[t] = "RUNNING"]
  /\ UNCHANGED <<created, known, state, history, resolvers, pc, slot,
                 localVars, storeVars, gateVars>>

\* _evict_stale_locked, a day after the task became terminal (a worker that
\* takes a day between two steps of its finally block is left out).
Expire(t) ==
  /\ t \in known /\ state[t] \in Terminal /\ pc[t] \in {"done", "broken"}
  /\ known' = known \ {t}
  /\ resolvers' = resolvers \ {t}
  /\ UNCHANGED <<created, state, history, cancel, timer, pc, slot,
                 localVars, storeVars, gateVars>>

\* A delete route.
RouteDelete(a) ==
  /\ a \in Filings
  /\ registry' = Without({a})
  /\ UNCHANGED <<taskVars, pc, slot, localVars, owner, kept, gateVars>>

\* A sec-rag command of another process stores a filing beside the API.
CliStore(a) ==
  /\ a \notin Filings
  /\ registry' = Append(registry, a)
  /\ owner' = [owner EXCEPT ![a] = 0]
  /\ UNCHANGED <<taskVars, pc, slot, localVars, kept, gateVars>>

\* Mutant: the reset does not look for tasks at work.
EnterBusy(r) ==
  /\ rpc[r] = "idle" /\ ~maintenance
  /\ maintenance' = TRUE
  /\ rpc' = [rpc EXCEPT ![r] = "inside"]
  /\ UNCHANGED <<taskVars, pc, slot, localVars, storeVars, shutdown>>

\* exclusive_maintenance around clear_all, in demo_reset.
EnterReset(r) ==
  /\ rpc[r] = "idle"
  /\ ActiveTasks = {} /\ ~maintenance
  /\ maintenance' = TRUE
  /\ rpc' = [rpc EXCEPT ![r] = "inside"]
  /\ UNCHANGED <<taskVars, pc, slot, localVars, storeVars, shutdown>>

Clear(r) ==
  /\ rpc[r] = "inside"
  /\ registry' = <<>>
  /\ owner' = [a \in Accessions |-> 0]
  /\ rpc' = [rpc EXCEPT ![r] = "cleared"]
  /\ UNCHANGED <<taskVars, pc, slot, localVars, kept, maintenance, shutdown>>

\* After the clear, or after it failed.
LeaveReset(r) ==
  /\ rpc[r] \in {"inside", "cleared"}
  /\ maintenance' = FALSE
  /\ rpc' = [rpc EXCEPT ![r] = "idle"]
  /\ UNCHANGED <<taskVars, pc, slot, localVars, storeVars, shutdown>>

\* shutdown: the event, then the timers under the lock.
SetShutdown ==
  /\ shutdown = "no"
  /\ shutdown' = "set"
  /\ UNCHANGED <<taskVars, pc, slot, localVars, storeVars, maintenance, rpc>>

CancelTimers ==
  /\ shutdown = "set"
  /\ shutdown' = "done"
  /\ timer' = [t \in Tasks |-> IF t \in known THEN "none" ELSE timer[t]]
  /\ UNCHANGED <<created, known, state, history, resolvers, cancel, pc, slot,
                 localVars, storeVars, maintenance, rpc>>

-----------------------------------------------------------------------------
Ingest(t) ==
  \/ Build(t) \/ MakeRoom(t) \/ MakeRoomOne(t) \/ DropOldest(t) \/ Count(t) \/ Recount(t) \/ StillFull(t)
  \/ Complete(t) \/ SeeCancel(t) \/ SkipDuplicate(t) \/ FailWithLimit(t) \/ Take(t)
  \/ Fetched(t) \/ Processed(t) \/ FilingFails(t)
  \/ Store(t) \/ StoreRefused(t) \/ StoreFails(t)

WorkerStep(t) ==
  \/ Acquire(t) \/ CancelledWaiting(t) \/ Run(t) \/ Ingest(t) \/ Raise(t) \/ Except(t)
  \/ RollBack(t) \/ RollBackFails(t) \/ Cancelled(t) \/ Persist(t) \/ Sweep(t)
  \/ SeeTimer(t) \/ Disarm(t) \/ DisarmBreaks(t) \/ DropResolver(t) \/ Release(t)

CreateStep(t) == Insert(t) \/ Refuse(t) \/ StartThread(t) \/ StartFails(t)

Clients ==
  \/ Request
  \/ \E t \in Tasks : CreateStep(t) \/ Cancel(t) \/ Timeout(t) \/ Expire(t)
  \/ \E a \in Accessions : RouteDelete(a) \/ CliStore(a)
  \/ \E r \in Resets : EnterReset(r) \/ Clear(r) \/ LeaveReset(r)
  \/ SetShutdown \/ CancelTimers

Next == (\E t \in Tasks : WorkerStep(t)) \/ Clients

Spec == Init /\ [][Next]_vars

\* A worker thread is never stopped for good, its network and model calls
\* return or raise, and a started semaphore wait is served once the slot stays
\* free: no other thread takes the slot for ever.
FairSpec == Spec /\ \A t \in Tasks : WF_vars(WorkerStep(t))

-----------------------------------------------------------------------------
(* Properties.                                                             *)

TypeOK ==
  /\ created \in 0..NumTasks /\ known \subseteq Tasks
  /\ state \in [Tasks -> {"absent"} \cup Active \cup Terminal]
  /\ history \in [Tasks -> {"absent"} \cup Terminal]
  /\ resolvers \subseteq Tasks
  /\ cancel \in [Tasks -> BOOLEAN]
  /\ timer \in [Tasks -> {"none", "armed", "fired"}]
  /\ pc \in [Tasks -> Steps]
  /\ slot \in 0..1
  /\ work \in [Tasks -> Seq(Accessions)]
  /\ existing \in [Tasks -> SUBSET Accessions]
  /\ cached \in [Tasks -> Nat]
  /\ victims \in [Tasks -> SUBSET Accessions]
  /\ stored \in [Tasks -> SUBSET Accessions]
  /\ registry \in Seq(Accessions)
  /\ owner \in [Accessions -> {0} \cup Tasks]
  /\ kept \subseteq Tasks
  /\ maintenance \in BOOLEAN
  /\ rpc \in [Resets -> {"idle", "inside", "cleared"}]
  /\ shutdown \in {"no", "set", "done"}

\* The semaphore admits one worker from its acquire to its release, also past
\* the terminal state, through the retention sweep and the finally block.
OneTaskOnGpu ==
  \A t, u \in Tasks : pc[t] \in Holding /\ pc[u] \in Holding => t = u

\* A worker that may call EDGAR still has its tenant's resolver, and no
\* resolver outlives a worker that ran to its end.
IdentityLifetime ==
  /\ \A t \in Tenants : pc[t] \in Holding \ {"release"} => t \in resolvers
  /\ \A t \in Tasks : pc[t] = "done" => t \notin resolvers

\* However the cached count of a task goes stale, through roll backs, deletes,
\* evictions and sweeps, the rows that stores have answered True for never
\* exceed the ceiling.  Rows a failed roll back of a claim left are not counted.
CeilingKept ==
  Cardinality({a \in Filings : owner[a] # 0}) <= MaxFilings

\* A cancelled task leaves none of the filings it stored, unless the one
\* batch delete of its roll back failed.
CancelledLeavesNothing ==
  \A a \in Filings :
    owner[a] # 0 /\ state[owner[a]] = "CANCELLED" => owner[a] \in kept

\* What the demo reset cleared stays cleared until it opens the gate again: no
\* worker stores a filing behind the clear (another process may).
ResetLeavesNothing ==
  \A r \in Resets : rpc[r] = "cleared" => \A a \in Accessions : owner[a] = 0

\* A terminal state is final, and what the history table keeps agrees with it.
TerminalIsFinal ==
  [][\A t \in Tasks :
       /\ state[t] \in Terminal => state'[t] = state[t]
       /\ history'[t] # "absent" => history'[t] = state'[t]]_vars

\* The manager implements the abstract queue, step by step.
Queue == INSTANCE IngestQueue WITH status <- state, closed <- maintenance
ImplementsQueue == Queue!Spec

\* Every worker whose thread started ends in a terminal state with the slot
\* and its resolver given back, unless shutdown broke the slot's holder.
WorkersEnd ==
  \A t \in Tasks :
    pc[t] = "wait" ~> \/ pc[t] = "done" /\ state[t] \in Terminal
                      \/ \E u \in Tasks : pc[u] = "broken"

\* shutdown: "Existing worker threads run to completion".
ThreadsRunToCompletion ==
  \A t \in Tasks : pc[t] = "wait" ~> pc[t] = "done"

-----------------------------------------------------------------------------
(* The inductive invariant behind the theorems about slot, states and gate; *)
(* what the locals and the registry hold has no part in it.                *)

ControlTypes ==
  /\ created \in 0..NumTasks /\ known \subseteq Tasks /\ resolvers \subseteq Tasks
  /\ state \in [Tasks -> {"absent"} \cup Active \cup Terminal]
  /\ history \in [Tasks -> {"absent"} \cup Terminal]
  /\ timer \in [Tasks -> {"none", "armed", "fired"}]
  /\ pc \in [Tasks -> Steps]
  /\ slot \in 0..1
  /\ owner \in [Accessions -> {0} \cup Tasks]
  /\ maintenance \in BOOLEAN
  /\ rpc \in [Resets -> {"idle", "inside", "cleared"}]

Ending == {"persist", "sweep", "finally", "disarm", "pop", "release"}

\* The public state a worker has at each of its steps.
StateOfStep(t) ==
  /\ t > created => pc[t] = "none"
  /\ pc[t] \in {"none", "request"} => state[t] = "absent"
  /\ pc[t] \in {"inserted", "unstarted", "wait", "start"} => state[t] = "PENDING"
  /\ pc[t] \in Holding \ (Ending \cup {"start"}) => state[t] = "RUNNING"
  /\ pc[t] \in Ending \cup {"broken"} => state[t] \in Terminal
  /\ pc[t] = "done" => state[t] \in Terminal \cup {"absent"}
  /\ state[t] \in Active => t \in known
  /\ history[t] # "absent" => history[t] = state[t]

ResolverOfStep(t) ==
  /\ t \in Tenants /\ pc[t] \in {"inserted", "unstarted", "wait"} \cup (Holding \ {"release"})
       => t \in resolvers
  /\ pc[t] \in {"none", "request", "release", "done"} => t \notin resolvers

SlotHeld == \A t \in Tasks : pc[t] \in Holding => slot = 0

\* Inside the gate no task is unfinished and only one reset is at work.
GateHeld ==
  /\ maintenance => \A t \in Tasks : state[t] \notin Active
  /\ \A r \in Resets : rpc[r] # "idle" => maintenance
  /\ \A q, r \in Resets : rpc[q] # "idle" /\ rpc[r] # "idle" => q = r

TaskInv ==
  /\ ControlTypes
  /\ \A t \in Tasks : StateOfStep(t) /\ ResolverOfStep(t)
  /\ SlotHeld /\ OneTaskOnGpu
  /\ GateHeld /\ ResetLeavesNothing

\* The slot, the tenant's identity and the reset, at every moment.
ManagerSound == OneTaskOnGpu /\ IdentityLifetime /\ ResetLeavesNothing
=============================================================================
