-------------------------- MODULE TaskManagerProofs --------------------------
(***************************************************************************)
(* Theorems of TaskManager, for every number of tasks, filings and resets. *)
(* Most steps of a worker move it among steps that share a public state;   *)
(* Quiet says so once, and the invariant is shown to survive a quiet step  *)
(* and each of the few others.  The second half is about the registry: the *)
(* ceiling and the roll back.                                              *)
(***************************************************************************)
EXTENDS TaskManager, FiniteSetTheorems, WellFoundedInduction, TLAPS

Running == Holding \ (Ending \cup {"start"})

\* The moves that change nothing but the worker's place and its data.
Near(p, q) ==
  \/ p \in Running /\ q \in Running
  \/ p \in {"sweep", "finally", "disarm"} /\ q \in {"finally", "disarm", "pop", "broken"}
  \/ p = "inserted" /\ q \in {"wait", "unstarted"}
  \/ p = "request" /\ q = "done"

Quiet(t) ==
  /\ \E q \in Steps : Near(pc[t], q) /\ pc' = [pc EXCEPT ![t] = q]
  /\ UNCHANGED <<taskVars, slot, gateVars>>
  /\ owner' \in [Accessions -> {0} \cup Tasks]
  /\ owner' = owner \/ pc[t] \in Running

\* The steps of _execute and of the finally block that are quiet.
LEMMA QuietSteps ==
  ASSUME NEW t \in Tasks, TaskInv,
         \/ Build(t) \/ MakeRoom(t) \/ MakeRoomOne(t) \/ DropOldest(t) \/ Count(t)
         \/ Recount(t) \/ SeeCancel(t) \/ SkipDuplicate(t) \/ Take(t) \/ Fetched(t)
         \/ Processed(t) \/ FilingFails(t) \/ Store(t) \/ StoreRefused(t) \/ StoreFails(t)
         \/ Raise(t) \/ RollBack(t) \/ RollBackFails(t) \/ Sweep(t)
         \/ SeeTimer(t) \/ DisarmBreaks(t) \/ Refuse(t) \/ StartThread(t) \/ StartFails(t)
  PROVE  Quiet(t)
<1> USE DEF At, GoTo, Quiet, Near, Running, Holding, Ending, Steps
<1>0. owner \in [Accessions -> {0} \cup Tasks]
  BY DEF TaskInv, ControlTypes
<1>1. CASE Build(t) \/ Count(t) \/ Recount(t) \/ Raise(t)
  BY <1>0, <1>1 DEF storeVars, Build, Count, Recount, Raise
<1>2. CASE MakeRoom(t) \/ MakeRoomOne(t)
  BY <1>0, <1>2 DEF storeVars, MakeRoom, MakeRoomOne, PickVictims
<1>3. CASE DropOldest(t)
  BY <1>0, <1>3 DEF storeVars, DropOldest
<1>4. CASE SeeCancel(t) \/ SkipDuplicate(t) \/ Take(t)
  BY <1>0, <1>4 DEF storeVars, SeeCancel, SkipDuplicate, Take, More, NextFiling
<1>5. CASE Fetched(t) \/ Processed(t) \/ FilingFails(t)
  BY <1>0, <1>5 DEF storeVars, Fetched, Processed, Advance, FilingFails, NextFiling
<1>6. CASE Store(t) \/ StoreRefused(t) \/ StoreFails(t)
  BY <1>0, <1>6 DEF storeVars, Store, StoreRefused, StoreFails, NextFiling
<1>7. CASE RollBack(t) \/ RollBackFails(t)
  BY <1>0, <1>7 DEF storeVars, RollBack, RollBackFails
<1>8. CASE Sweep(t)
  BY <1>0, <1>8 DEF storeVars, Sweep
<1>9. CASE SeeTimer(t) \/ DisarmBreaks(t)
  BY <1>0, <1>9 DEF storeVars, SeeTimer, DisarmBreaks, storeVars
<1>10. CASE Refuse(t) \/ StartThread(t) \/ StartFails(t)
  BY <1>0, <1>10 DEF storeVars, Refuse, StartThread, StartFails, storeVars
<1> QED
  BY <1>1, <1>2, <1>3, <1>4, <1>5, <1>6, <1>7, <1>8, <1>9, <1>10

\* A quiet step keeps the invariant.
LEMMA QuietKeeps == ASSUME NEW t \in Tasks, TaskInv, Quiet(t) PROVE TaskInv'
<1> USE DEF storeVars, TaskInv, ControlTypes
<1>0. PICK q \in Steps : Near(pc[t], q) /\ pc' = [pc EXCEPT ![t] = q]
  BY DEF storeVars, Quiet
<1>u. /\ UNCHANGED <<created, known, state, history, resolvers, cancel, timer, slot,
                     maintenance, rpc, shutdown>>
      /\ \A u \in Tasks : pc'[u] = IF u = t THEN q ELSE pc[u]
  BY <1>0 DEF Quiet, taskVars, gateVars
<1>1. ControlTypes'
  BY <1>0, <1>u DEF Quiet
<1>2. (\A u \in Tasks : StateOfStep(u) /\ ResolverOfStep(u))'
  <2> SUFFICES ASSUME NEW u \in Tasks PROVE (StateOfStep(u) /\ ResolverOfStep(u))'
    OBVIOUS
  <2>1. StateOfStep(u) /\ ResolverOfStep(u) /\ StateOfStep(t)
    OBVIOUS
  <2> QED
    BY <1>0, <1>u, <2>1 DEF StateOfStep, ResolverOfStep, Near, Running, Holding, Ending, Active, Terminal
<1>3. pc[t] \notin Holding => q \notin Holding
  BY <1>0 DEF Near, Running, Holding, Ending
<1>4. (SlotHeld /\ OneTaskOnGpu)'
  BY <1>u, <1>3 DEF SlotHeld, OneTaskOnGpu
<1>5. GateHeld'
  BY <1>u DEF GateHeld
<1>6. ResetLeavesNothing'
  BY <1>u DEF ResetLeavesNothing, GateHeld, StateOfStep, Quiet, Running, Active
<1> QED
  BY <1>1, <1>2, <1>4, <1>5, <1>6

\* A worker's terminal transition keeps it.
LEMMA FinishKeeps ==
  ASSUME NEW t \in Tasks, TaskInv, pc[t] \in Running \cup {"start"},
         NEW s \in Terminal, Finish(t, s)
  PROVE  TaskInv'
<1> USE DEF TaskInv, ControlTypes
<1>u. /\ UNCHANGED <<created, known, history, resolvers, timer, slot, maintenance, rpc, owner>>
      /\ \A u \in Tasks : /\ pc'[u] = IF u = t THEN "persist" ELSE pc[u]
                          /\ state'[u] = IF u = t THEN s ELSE state[u]
      /\ pc' = [pc EXCEPT ![t] = "persist"] /\ state' = [state EXCEPT ![t] = s]
  BY DEF Finish, GoTo, gateVars, storeVars
<1>h. pc[t] \in Holding /\ state[t] \in Active /\ "persist" \in Holding /\ "persist" \in Steps
  BY DEF Running, Holding, Steps, StateOfStep, Active, Ending
<1>1. ControlTypes'
  BY <1>u, <1>h
<1>2. (\A u \in Tasks : StateOfStep(u) /\ ResolverOfStep(u))'
  <2> SUFFICES ASSUME NEW u \in Tasks PROVE (StateOfStep(u) /\ ResolverOfStep(u))'
    OBVIOUS
  <2>1. StateOfStep(u) /\ ResolverOfStep(u)
    OBVIOUS
  <2> QED
    BY <1>u, <1>h, <2>1 DEF StateOfStep, ResolverOfStep, Running, Holding, Ending, Active, Terminal
<1>3. (SlotHeld /\ OneTaskOnGpu)'
  BY <1>u, <1>h DEF SlotHeld, OneTaskOnGpu
<1>4. GateHeld'
  BY <1>u DEF GateHeld, Active, Terminal
<1>5. ResetLeavesNothing'
  BY <1>u DEF ResetLeavesNothing
<1> QED
  BY <1>1, <1>2, <1>3, <1>4, <1>5

\* The worker's other steps: taking and giving back the slot, RUNNING, the
\* history row, the timer and the resolver.
LEMMA WorkerKeeps ==
  ASSUME NEW t \in Tasks, TaskInv, WorkerStep(t)
  PROVE  TaskInv'
<1> USE DEF TaskInv, ControlTypes
<1> DEFINE Others == \A u \in Tasks : u # t => StateOfStep(u) /\ ResolverOfStep(u)
<1>a. StateOfStep(t) /\ ResolverOfStep(t) /\ Others
  OBVIOUS
<1>1. CASE Acquire(t)
  <2>1. /\ UNCHANGED <<created, known, state, history, resolvers, timer, maintenance, rpc, owner>>
        /\ pc' = [pc EXCEPT ![t] = "start"] /\ pc[t] = "wait" /\ slot = 1 /\ slot' = 0
    BY <1>1 DEF Acquire, At, GoTo, taskVars, gateVars, storeVars
  <2>2. \A u \in Tasks : pc[u] \notin Holding
    BY <2>1 DEF SlotHeld
  <2>3. (SlotHeld /\ OneTaskOnGpu)'
    BY <2>1, <2>2 DEF SlotHeld, OneTaskOnGpu
  <2>4. ControlTypes' /\ GateHeld' /\ ResetLeavesNothing'
    BY <2>1 DEF GateHeld, ResetLeavesNothing, Holding, Steps
  <2> QED
    BY <2>1, <2>3, <2>4, <1>a DEF StateOfStep, ResolverOfStep, Holding, Ending, Active, Terminal
<1>2. CASE CancelledWaiting(t) \/ StillFull(t) \/ Except(t) \/ Complete(t) \/ FailWithLimit(t) \/ Cancelled(t)
  BY <1>2, FinishKeeps DEF CancelledWaiting, StillFull, Except, Complete, FailWithLimit, Cancelled,
       More, At, Running, Holding, Ending, Terminal
<1>3. CASE Run(t)
  <2>1. /\ UNCHANGED <<created, known, history, resolvers, slot, maintenance, rpc, owner>>
        /\ pc' = [pc EXCEPT ![t] = "build"] /\ pc[t] = "start"
        /\ state' = [state EXCEPT ![t] = "RUNNING"]
        /\ timer' \in [Tasks -> {"none", "armed", "fired"}]
    BY <1>3 DEF Run, At, GoTo, gateVars, storeVars
  <2>2. (SlotHeld /\ OneTaskOnGpu)'
    BY <2>1 DEF SlotHeld, OneTaskOnGpu, Holding
  <2>3. ControlTypes' /\ ResetLeavesNothing'
    BY <2>1 DEF ResetLeavesNothing, Holding, Steps, Active
  <2>4. GateHeld'
    BY <2>1, <1>a DEF GateHeld, StateOfStep, Active
  <2> QED
    BY <2>1, <2>2, <2>3, <2>4, <1>a DEF StateOfStep, ResolverOfStep, Holding, Ending, Active, Terminal
<1>4. CASE Persist(t)
  <2>1. /\ UNCHANGED <<created, known, state, resolvers, timer, slot, maintenance, rpc, owner>>
        /\ pc[t] = "persist"
        /\ pc' = [pc EXCEPT ![t] = IF state[t] = "COMPLETED" THEN "sweep" ELSE "finally"]
        /\ history' = [history EXCEPT ![t] = state[t]] \/ history' = history
    BY <1>4 DEF Persist, At, GoTo, gateVars, storeVars
  <2>2. (SlotHeld /\ OneTaskOnGpu)'
    BY <2>1 DEF SlotHeld, OneTaskOnGpu, Holding
  <2>3. state[t] \in Terminal
    BY <2>1, <1>a DEF StateOfStep, Ending
  <2>4. ControlTypes' /\ GateHeld' /\ ResetLeavesNothing'
    BY <2>1, <2>3 DEF GateHeld, ResetLeavesNothing, Holding, Steps
  <2> QED
    BY <2>1, <2>2, <2>3, <2>4, <1>a DEF StateOfStep, ResolverOfStep, Holding, Ending, Active, Terminal
<1>5. CASE Disarm(t) \/ DropResolver(t)
  <2>1. /\ UNCHANGED <<created, known, state, history, slot, maintenance, rpc, owner>>
        /\ \/ pc[t] = "disarm" /\ pc' = [pc EXCEPT ![t] = "pop"] /\ resolvers' = resolvers
           \/ pc[t] = "pop" /\ pc' = [pc EXCEPT ![t] = "release"] /\ resolvers' = resolvers \ {t}
        /\ timer' \in [Tasks -> {"none", "armed", "fired"}]
    BY <1>5 DEF Disarm, DropResolver, At, GoTo, gateVars, storeVars
  <2>2. (SlotHeld /\ OneTaskOnGpu)'
    BY <2>1 DEF SlotHeld, OneTaskOnGpu, Holding
  <2>4. ControlTypes' /\ GateHeld' /\ ResetLeavesNothing'
    BY <2>1 DEF GateHeld, ResetLeavesNothing, Holding, Steps
  <2> QED
    BY <2>1, <2>2, <2>4, <1>a DEF StateOfStep, ResolverOfStep, Holding, Ending, Active, Terminal
<1>6. CASE Release(t)
  <2>1. /\ UNCHANGED <<created, known, state, history, resolvers, timer, maintenance, rpc, owner>>
        /\ pc' = [pc EXCEPT ![t] = "done"] /\ pc[t] = "release" /\ slot' = slot + 1
    BY <1>6 DEF Release, At, GoTo, taskVars, gateVars, storeVars
  <2>2. slot = 0 /\ \A u \in Tasks : u # t => pc[u] \notin Holding
    BY <2>1 DEF SlotHeld, OneTaskOnGpu, Holding
  <2>3. (SlotHeld /\ OneTaskOnGpu)'
    BY <2>1, <2>2 DEF SlotHeld, OneTaskOnGpu, Holding
  <2>4. ControlTypes' /\ GateHeld' /\ ResetLeavesNothing'
    BY <2>1, <2>2 DEF GateHeld, ResetLeavesNothing, Holding, Steps
  <2> QED
    BY <2>1, <2>3, <2>4, <1>a DEF StateOfStep, ResolverOfStep, Holding, Ending, Active, Terminal
<1> QED
  BY <1>1, <1>2, <1>3, <1>4, <1>5, <1>6, QuietSteps, QuietKeeps DEF WorkerStep, Ingest

\* The request threads, the timers, the eviction of old entries, the delete
\* routes, the demo reset and shutdown keep it.
LEMMA ClientKeeps == ASSUME TaskInv, Clients PROVE TaskInv'
<1> USE DEF TaskInv, ControlTypes
<1>a. \A u \in Tasks : StateOfStep(u) /\ ResolverOfStep(u)
  OBVIOUS
<1>1. CASE Request
  <2> DEFINE n == created + 1
  <2>1. /\ n \in Tasks /\ created' = n /\ pc' = [pc EXCEPT ![n] = "request"] /\ pc[n] = "none"
        /\ UNCHANGED <<known, state, history, resolvers, timer, slot, maintenance, rpc, owner>>
    BY <1>1, <1>a, TaskAssumption DEF Request, GoTo, gateVars, storeVars, Tasks, StateOfStep
  <2>2. (SlotHeld /\ OneTaskOnGpu)'
    BY <2>1 DEF SlotHeld, OneTaskOnGpu, Holding
  <2>3. ControlTypes' /\ GateHeld' /\ ResetLeavesNothing'
    BY <2>1 DEF GateHeld, ResetLeavesNothing, Steps, Tasks
  <2>4. \A u \in Tasks : u > created' => u # n /\ u > created
    BY <2>1 DEF Tasks
  <2> QED
    BY <2>1, <2>2, <2>3, <2>4, <1>a DEF StateOfStep, ResolverOfStep, Holding, Ending, Active, Terminal, Tasks
<1>2. ASSUME NEW t \in Tasks, Insert(t) PROVE TaskInv'
  <2>1. /\ pc' = [pc EXCEPT ![t] = "inserted"] /\ pc[t] = "request" /\ ~maintenance
        /\ state' = [state EXCEPT ![t] = "PENDING"] /\ known' = known \cup {t}
        /\ resolvers' = resolvers \cup ({t} \cap Tenants)
        /\ UNCHANGED <<created, history, timer, slot, maintenance, rpc, owner>>
    BY <1>2 DEF Insert, At, GoTo, gateVars, storeVars
  <2>2. (SlotHeld /\ OneTaskOnGpu)'
    BY <2>1 DEF SlotHeld, OneTaskOnGpu, Holding
  <2>3. ControlTypes' /\ GateHeld' /\ ResetLeavesNothing'
    BY <2>1 DEF GateHeld, ResetLeavesNothing, Steps, Active
  <2> QED
    BY <2>1, <2>2, <2>3, <1>a DEF StateOfStep, ResolverOfStep, Holding, Ending, Active, Terminal
<1>3. ASSUME NEW t \in Tasks, Refuse(t) \/ StartThread(t) \/ StartFails(t) PROVE TaskInv'
  BY <1>3, QuietSteps, QuietKeeps
<1>4. ASSUME NEW t \in Tasks, Cancel(t) \/ Timeout(t) PROVE TaskInv'
  <2>1. /\ UNCHANGED <<created, known, state, history, resolvers, pc, slot, maintenance, rpc, owner>>
        /\ timer' \in [Tasks -> {"none", "armed", "fired"}]
    BY <1>4 DEF Cancel, Timeout, gateVars, storeVars
  <2> QED
    BY <2>1 DEF StateOfStep, ResolverOfStep, SlotHeld, OneTaskOnGpu, GateHeld, ResetLeavesNothing
<1>5. ASSUME NEW t \in Tasks, Expire(t) PROVE TaskInv'
  <2>1. /\ UNCHANGED <<created, state, history, timer, pc, slot, maintenance, rpc, owner>>
        /\ known' = known \ {t} /\ resolvers' = resolvers \ {t}
        /\ state[t] \in Terminal /\ pc[t] \in {"done", "broken"}
    BY <1>5 DEF Expire, gateVars, storeVars
  <2> QED
    BY <2>1, <1>a DEF StateOfStep, ResolverOfStep, SlotHeld, OneTaskOnGpu, GateHeld, ResetLeavesNothing,
         Holding, Ending, Active, Terminal
<1>6. ASSUME NEW a \in Accessions, RouteDelete(a) \/ CliStore(a) PROVE TaskInv'
  <2>1. /\ UNCHANGED <<created, known, state, history, resolvers, timer, pc, slot, maintenance, rpc>>
        /\ owner' \in [Accessions -> {0} \cup Tasks]
        /\ \A b \in Accessions : owner[b] = 0 => owner'[b] = 0
    BY <1>6 DEF RouteDelete, CliStore, taskVars, gateVars
  <2> QED
    BY <2>1 DEF StateOfStep, ResolverOfStep, SlotHeld, OneTaskOnGpu, GateHeld, ResetLeavesNothing
<1>7. ASSUME NEW r \in Resets, EnterReset(r) \/ Clear(r) \/ LeaveReset(r) PROVE TaskInv'
  <2>1. UNCHANGED <<created, known, state, history, resolvers, timer, pc, slot>>
    BY <1>7 DEF EnterReset, Clear, LeaveReset, taskVars
  <2>2. maintenance' \in BOOLEAN /\ rpc' \in [Resets -> {"idle", "inside", "cleared"}]
    BY <1>7 DEF EnterReset, Clear, LeaveReset
  <2>3. ActiveTasks = {} => \A t \in Tasks : state[t] \notin Active
    BY <1>a DEF ActiveTasks, StateOfStep
  <2>4. GateHeld'
    BY <1>7, <2>1, <2>3 DEF EnterReset, Clear, LeaveReset, GateHeld
  <2>5. ResetLeavesNothing'
    BY <1>7 DEF EnterReset, Clear, LeaveReset, GateHeld, ResetLeavesNothing, storeVars
  <2>6. owner' \in [Accessions -> {0} \cup Tasks]
    BY <1>7 DEF EnterReset, Clear, LeaveReset, storeVars
  <2> QED
    BY <2>1, <2>2, <2>4, <2>5, <2>6 DEF StateOfStep, ResolverOfStep, SlotHeld, OneTaskOnGpu
<1>8. CASE SetShutdown \/ CancelTimers
  <2>1. /\ UNCHANGED <<created, known, state, history, resolvers, pc, slot, maintenance, rpc, owner>>
        /\ timer' \in [Tasks -> {"none", "armed", "fired"}]
    BY <1>8 DEF SetShutdown, CancelTimers, taskVars, storeVars
  <2> QED
    BY <2>1 DEF StateOfStep, ResolverOfStep, SlotHeld, OneTaskOnGpu, GateHeld, ResetLeavesNothing
<1> QED
  BY <1>1, <1>2, <1>3, <1>4, <1>5, <1>6, <1>7, <1>8 DEF Clients, CreateStep

\* The invariant holds at first and is kept by every step.
LEMMA InitTaskInv == Init => TaskInv
<1> SUFFICES ASSUME Init PROVE TaskInv
  OBVIOUS
<1> USE DEF Init
<1>1. ControlTypes
  <2>1. created \in 0..NumTasks
    BY TaskAssumption
  <2>2. pc \in [Tasks -> Steps] /\ slot \in 0..1
    BY DEF Steps
  <2>3. rpc \in [Resets -> {"idle", "inside", "cleared"}] /\ maintenance \in BOOLEAN
    OBVIOUS
  <2> QED
    BY <2>1, <2>2, <2>3 DEF ControlTypes
<1>2. \A t \in Tasks : pc[t] = "none" /\ state[t] = "absent" /\ history[t] = "absent"
  OBVIOUS
<1>3. \A t \in Tasks : StateOfStep(t) /\ ResolverOfStep(t)
  BY <1>2 DEF StateOfStep, ResolverOfStep, Holding, Ending, Active, Terminal
<1>4. SlotHeld /\ OneTaskOnGpu
  BY <1>2 DEF SlotHeld, OneTaskOnGpu, Holding
<1>5. GateHeld /\ ResetLeavesNothing
  BY <1>2 DEF GateHeld, ResetLeavesNothing
<1> QED
  BY <1>1, <1>3, <1>4, <1>5 DEF TaskInv

\* Every step keeps the invariant.
LEMMA StepTaskInv == TaskInv /\ [Next]_vars => TaskInv'
<1> SUFFICES ASSUME TaskInv, [Next]_vars PROVE TaskInv'
  OBVIOUS
<1>1. CASE UNCHANGED vars
  BY <1>1 DEF vars, taskVars, gateVars, storeVars, TaskInv, ControlTypes, StateOfStep, ResolverOfStep,
       SlotHeld, OneTaskOnGpu, GateHeld, ResetLeavesNothing
<1> QED
  BY <1>1, WorkerKeeps, ClientKeeps DEF Next

\* Every reachable state satisfies the invariant.
THEOREM TaskInvariant == Spec => []TaskInv
BY InitTaskInv, StepTaskInv, PTL DEF Spec

\* At most one worker at a time is between its acquire and its release of the
\* GPU slot, for every number of tasks.
THEOREM TaskOneOnGpu == Spec => []OneTaskOnGpu
<1>1. TaskInv => OneTaskOnGpu
  BY DEF TaskInv
<1> QED
  BY <1>1, TaskInvariant, PTL

\* A worker has its tenant's EDGAR identity for as long as it may need it, and
\* the manager keeps none of a worker that ran to its end.
THEOREM TaskIdentityLifetime == Spec => []IdentityLifetime
<1>1. TaskInv => IdentityLifetime
  BY TaskAssumption DEF TaskInv, ResolverOfStep, IdentityLifetime
<1> QED
  BY <1>1, TaskInvariant, PTL

\* Nothing an ingest worker or a route does puts a filing back behind the
\* demo reset's clear while the gate is closed.
THEOREM TaskResetComplete == Spec => []ResetLeavesNothing
<1>1. TaskInv => ResetLeavesNothing
  BY DEF TaskInv
<1> QED
  BY <1>1, TaskInvariant, PTL

\* A terminal state is final and the history row agrees with it.
THEOREM TaskTerminalFinal == Spec => TerminalIsFinal
<1>1. TaskInv /\ TaskInv' /\ [Next]_vars =>
        [\A t \in Tasks :
           /\ state[t] \in Terminal => state'[t] = state[t]
           /\ history'[t] # "absent" => history'[t] = state'[t]]_vars
  <2> SUFFICES ASSUME TaskInv, TaskInv', Next, NEW t \in Tasks
               PROVE  /\ state[t] \in Terminal => state'[t] = state[t]
                      /\ history'[t] # "absent" => history'[t] = state'[t]
    OBVIOUS
  <2>1. history'[t] # "absent" => history'[t] = state'[t]
    BY DEF TaskInv, StateOfStep
  <2>2. CASE \E u \in Tasks : WorkerStep(u)
    <3> PICK u \in Tasks : WorkerStep(u)
      BY <2>2
    <3>0. StateOfStep(u) /\ state \in [Tasks -> {"absent"} \cup Active \cup Terminal]
      BY DEF TaskInv, ControlTypes
    <3>1. CASE Quiet(u)
      BY <3>1, <2>1 DEF Quiet, taskVars
    <3>2. CASE CancelledWaiting(u) \/ StillFull(u) \/ Except(u) \/ Complete(u) \/ FailWithLimit(u) \/ Cancelled(u)
      <4>1. state[u] \in Active /\ \E s \in Terminal : state' = [state EXCEPT ![u] = s]
        BY <3>0, <3>2 DEF CancelledWaiting, StillFull, Except, Complete, FailWithLimit, Cancelled, Finish,
             More, At, StateOfStep, Holding, Ending, Terminal, Active
      <4> QED
        BY <3>0, <4>1, <2>1 DEF Active, Terminal
    <3>3. CASE Run(u)
      BY <3>0, <3>3, <2>1 DEF Run, At, StateOfStep, Terminal
    <3>4. CASE Acquire(u) \/ Persist(u) \/ Disarm(u) \/ DropResolver(u) \/ Release(u)
      BY <3>4, <2>1 DEF Acquire, Persist, Disarm, DropResolver, Release, taskVars
    <3> QED
      BY <3>1, <3>2, <3>3, <3>4, QuietSteps DEF WorkerStep, Ingest
  <2>3. CASE \E u \in Tasks : Insert(u)
    <3> PICK u \in Tasks : Insert(u)
      BY <2>3
    <3>1. state[u] = "absent" /\ state' = [state EXCEPT ![u] = "PENDING"]
      BY DEF Insert, At, TaskInv, StateOfStep
    <3> QED
      BY <3>1, <2>1 DEF TaskInv, ControlTypes, Terminal
  <2>4. CASE Clients /\ ~ \E u \in Tasks : Insert(u)
    <3>1. state' = state
      BY <2>4 DEF Clients, CreateStep, Request, Refuse, StartThread, StartFails, Cancel, Timeout, Expire,
           RouteDelete, CliStore, EnterReset, Clear, LeaveReset, SetShutdown, CancelTimers, taskVars
    <3> QED
      BY <3>1, <2>1
  <2> QED
    BY <2>2, <2>3, <2>4 DEF Next
<1> QED
  BY <1>1, TaskInvariant, PTL DEF Spec, TerminalIsFinal

\* Every step of the manager is a step of the abstract queue, or none.
LEMMA QueueStep ==
  ASSUME TaskInv, [Next]_vars
  PROVE  [Queue!Next]_<<state, maintenance>>
<1> USE DEF TaskInv, ControlTypes
<1>0. \A u \in Tasks : StateOfStep(u)
  OBVIOUS
<1>1. Queue!Unfinished = ActiveTasks
  BY <1>0 DEF Queue!Unfinished, ActiveTasks, StateOfStep, Active
<1>2. ASSUME NEW u \in Tasks, WorkerStep(u) PROVE [Queue!Next]_<<state, maintenance>>
  <2>1. CASE Quiet(u)
    BY <2>1 DEF Quiet, taskVars, gateVars
  <2>2. CASE CancelledWaiting(u)
    <3>1. state[u] = "PENDING" /\ state' = [state EXCEPT ![u] = "CANCELLED"] /\ maintenance' = maintenance
      BY <1>0, <2>2 DEF CancelledWaiting, Finish, At, StateOfStep, gateVars
    <3>2. Queue!Withdraw(u)
      BY <3>1 DEF Queue!Withdraw, Queue!Become
    <3> QED
      BY <3>2 DEF Queue!Next
  <2>3. CASE StillFull(u) \/ Except(u) \/ Complete(u) \/ FailWithLimit(u) \/ Cancelled(u)
    <3>1. pc[u] \in Running
      BY <2>3 DEF StillFull, Except, Complete, FailWithLimit, Cancelled, More, At, Running, Holding, Ending
    <3>2. state[u] = "RUNNING"
      BY <1>0, <3>1 DEF StateOfStep, Running
    <3>3. \E s \in {"COMPLETED", "FAILED", "CANCELLED"} :
             state' = [state EXCEPT ![u] = s] /\ maintenance' = maintenance
      BY <2>3 DEF StillFull, Except, Complete, FailWithLimit, Cancelled, Finish, gateVars
    <3>4. Queue!End(u)
      BY <3>2, <3>3 DEF Queue!End, Queue!Become
    <3> QED
      BY <3>4 DEF Queue!Next
  <2>4. CASE Run(u)
    <3>1. /\ state[u] = "PENDING" /\ pc[u] = "start"
          /\ state' = [state EXCEPT ![u] = "RUNNING"] /\ maintenance' = maintenance
      BY <1>0, <2>4 DEF Run, At, StateOfStep, gateVars
    <3>2. ASSUME NEW v \in Tasks, state[v] = "RUNNING" PROVE FALSE
      <4>1. pc[v] \in Holding
        BY <1>0, <3>2 DEF StateOfStep, Steps, Ending, Terminal
      <4>2. v = u
        BY <3>1, <4>1 DEF OneTaskOnGpu, Holding
      <4> QED
        BY <3>1, <3>2, <4>2
    <3>3. Queue!Begin(u)
      BY <3>1, <3>2 DEF Queue!Begin, Queue!Become
    <3> QED
      BY <3>3 DEF Queue!Next
  <2>5. CASE Acquire(u) \/ Persist(u) \/ Disarm(u) \/ DropResolver(u) \/ Release(u)
    BY <2>5 DEF Acquire, Persist, Disarm, DropResolver, Release, taskVars, gateVars
  <2> QED
    BY <1>2, <2>1, <2>2, <2>3, <2>4, <2>5, QuietSteps DEF WorkerStep, Ingest
<1>3. ASSUME NEW u \in Tasks, Insert(u) PROVE [Queue!Next]_<<state, maintenance>>
  <2>1. /\ state[u] = "absent" /\ ~maintenance /\ Cardinality(ActiveTasks) < MaxActive
        /\ state' = [state EXCEPT ![u] = "PENDING"] /\ maintenance' = maintenance
    BY <1>0, <1>3 DEF Insert, At, StateOfStep, gateVars
  <2>2. Queue!Submit(u)
    BY <1>1, <2>1 DEF Queue!Submit, Queue!Become, Queue!Cardinality, Cardinality
  <2> QED
    BY <2>2 DEF Queue!Next
<1>4. ASSUME NEW r \in Resets, EnterReset(r) PROVE [Queue!Next]_<<state, maintenance>>
  <2>1. Queue!Close
    BY <1>1, <1>4 DEF EnterReset, Queue!Close, taskVars
  <2> QED
    BY <2>1 DEF Queue!Next
<1>5. ASSUME NEW r \in Resets, LeaveReset(r) PROVE [Queue!Next]_<<state, maintenance>>
  <2>1. Queue!Open
    BY <1>5 DEF LeaveReset, Queue!Open, taskVars, GateHeld
  <2> QED
    BY <2>1 DEF Queue!Next
<1>6. CASE Clients /\ ~(\E u \in Tasks : Insert(u)) /\ ~(\E r \in Resets : EnterReset(r) \/ LeaveReset(r))
  BY <1>6 DEF Clients, CreateStep, Request, Refuse, StartThread, StartFails, Cancel, Timeout, Expire,
       RouteDelete, CliStore, Clear, SetShutdown, CancelTimers, taskVars, gateVars
<1>7. CASE UNCHANGED vars
  BY <1>7 DEF vars, taskVars, gateVars
<1> QED
  BY <1>2, <1>3, <1>4, <1>5, <1>6, <1>7 DEF Next

\* The task manager implements the abstract ingest queue.
THEOREM TaskImplementsQueue == Spec => ImplementsQueue
<1>1. Init => Queue!Init
  BY DEF Init, Queue!Init
<1>2. TaskInv /\ [Next]_vars => [Queue!Next]_<<state, maintenance>>
  BY QueueStep
<1> QED
  BY <1>1, <1>2, TaskInvariant, PTL DEF Spec, Queue!Spec, ImplementsQueue

\* The slot, the identities and the demo reset, together.
THEOREM TaskManagerSound == Spec => []ManagerSound
  BY TaskOneOnGpu, TaskIdentityLifetime, TaskResetComplete, PTL DEF ManagerSound

-----------------------------------------------------------------------------
(* What the stores answered for: the ceiling and the roll back.            *)

\* Induction on the numbers.
LEMMA SetInduction ==
  ASSUME NEW S, 0 \in S, \A n \in Nat : n \in S => n + 1 \in S
  PROVE  Nat \subseteq S
<1> DEFINE R == OpToRel(<, Nat)
<1>1. IsWellFoundedOn(R, Nat)
  BY NatLessThanWellFounded, Zenon
<1>2. \A x, y \in Nat : x < y => <<x, y>> \in R
  BY DEF OpToRel
<1> HIDE DEF R
<1>3. SUFFICES ASSUME Nat \ S # {} PROVE FALSE
  OBVIOUS
<1>4. PICK x \in Nat \ S : \A y \in Nat \ S : ~(<<y, x>> \in R)
  BY <1>1, <1>3, WFMin
<1>5. x # 0 /\ x - 1 \in Nat /\ x - 1 < x /\ (x - 1) + 1 = x
  BY <1>4
<1>6. x - 1 \notin Nat \ S
  BY <1>2, <1>4, <1>5
<1> QED BY <1>4, <1>5, <1>6

\* One filing more: it stays, unless it is in S.
OneLeft(left, a, S) == IF a \in S THEN left ELSE Append(left, a)
LeftOf(left, S, n) ==
  left = [i \in 0..n |-> IF i = 0 THEN <<>> ELSE OneLeft(left[i - 1], registry[i], S)]

\* A delete goes over the filings one after the other.
LEMMA LeftAre ==
  ASSUME NEW S, Len(registry) \in Nat
  PROVE  \E left : LeftOf(left, S, Len(registry)) /\ Without(S) = left[Len(registry)]
<1> DEFINE N == {n \in Nat : \E f : LeftOf(f, S, n)}
<1>1. 0 \in N
  <2> DEFINE f == [i \in 0..0 |-> <<>>]
  <2>1. LeftOf(f, S, 0)
    BY DEF LeftOf
  <2> QED BY <2>1
<1>2. ASSUME NEW n \in Nat, n \in N PROVE n + 1 \in N
  <2>1. PICK f : LeftOf(f, S, n)
    BY <1>2
  <2> DEFINE g == [i \in 0..n + 1 |-> IF i = n + 1 THEN OneLeft(f[n], registry[n + 1], S) ELSE f[i]]
  <2>2. n + 1 \in Nat /\ n \in 0..n /\ 0..n + 1 = (0..n) \cup {n + 1} /\ n + 1 \notin 0..n
    OBVIOUS
  <2>3. g[n + 1] = OneLeft(f[n], registry[n + 1], S) /\ \A i \in 0..n : g[i] = f[i]
    BY <2>2, Zenon
  <2>4. \A i \in 0..n : f[i] = IF i = 0 THEN <<>> ELSE OneLeft(f[i - 1], registry[i], S)
    BY <2>1, Zenon DEF LeftOf
  <2>5. DOMAIN g = 0..n + 1 /\ g = [i \in 0..n + 1 |-> g[i]]
    OBVIOUS
  <2> HIDE DEF g
  <2>6. ASSUME NEW i \in 0..n + 1
        PROVE  g[i] = IF i = 0 THEN <<>> ELSE OneLeft(g[i - 1], registry[i], S)
    <3>1. CASE i = n + 1
      <4>1. i # 0 /\ i - 1 = n
        BY <3>1
      <4> QED BY <2>2, <2>3, <3>1, <4>1, Zenon
    <3>2. CASE i \in 0..n
      <4>1. i = 0 \/ i - 1 \in 0..n
        BY <3>2
      <4> QED BY <2>3, <2>4, <3>2, <4>1, Zenon
    <3> QED BY <2>2, <3>1, <3>2
  <2>7. LeftOf(g, S, n + 1)
    BY <2>5, <2>6, Zenon DEF LeftOf
  <2> QED BY <2>2, <2>7
<1>3. Len(registry) \in N
  <2> HIDE DEF N
  <2> QED BY <1>1, <1>2, SetInduction
<1>4. \E left : LeftOf(left, S, Len(registry))
  BY <1>3
<1> QED BY <1>4, Zenon DEF Without, LeftOf, OneLeft

\* A delete leaves exactly the filings that are not in S.
LEMMA WithoutIs ==
  ASSUME NEW S, registry \in Seq(Accessions)
  PROVE  LET r == Without(S)
         IN  r \in Seq(Accessions) /\ {r[i] : i \in 1..Len(r)} = Filings \ S
<1>1. Len(registry) \in Nat /\ \A i \in 1..Len(registry) : registry[i] \in Accessions
  OBVIOUS
<1>2. PICK f : LeftOf(f, S, Len(registry)) /\ Without(S) = f[Len(registry)]
  BY <1>1, LeftAre
<1> DEFINE Fits(r, n) == r \in Seq(Accessions) /\ {r[i] : i \in 1..Len(r)} = {registry[i] : i \in 1..n} \ S
           N == {n \in Nat : n <= Len(registry) => Fits(f[n], n)}
<1>3. f[0] = <<>> /\ \A i \in 1..Len(registry) : f[i] = OneLeft(f[i - 1], registry[i], S)
  <2>1. \A i \in 0..Len(registry) : f[i] = IF i = 0 THEN <<>> ELSE OneLeft(f[i - 1], registry[i], S)
    BY <1>2, Zenon DEF LeftOf
  <2> QED BY <1>1, <2>1
<1>4. 0 \in N
  <2>1. Fits(<<>>, 0)
    OBVIOUS
  <2> HIDE DEF Fits
  <2>2. Fits(f[0], 0)
    BY <1>3, <2>1
  <2> QED BY <2>2
<1>5. ASSUME NEW n \in Nat, n \in N PROVE n + 1 \in N
  <2>1. ASSUME n + 1 <= Len(registry) PROVE Fits(f[n + 1], n + 1)
    <3>0. Fits(f[n], n)
      <4> HIDE DEF Fits
      <4> QED BY <1>1, <1>5, <2>1
    <3>1. /\ n + 1 \in 1..Len(registry) /\ (n + 1) - 1 = n /\ registry[n + 1] \in Accessions
          /\ 1..n + 1 = (1..n) \cup {n + 1}
      BY <1>1, <2>1
    <3>2. {registry[i] : i \in 1..n + 1} = {registry[i] : i \in 1..n} \cup {registry[n + 1]}
      BY <3>1
    <3>3. CASE registry[n + 1] \in S
      <4>1. f[n + 1] = f[n]
        BY <1>3, <3>1, <3>3 DEF OneLeft
      <4> QED BY <3>0, <3>2, <3>3, <4>1
    <3>4. CASE registry[n + 1] \notin S
      <4>1. f[n + 1] = Append(f[n], registry[n + 1])
        BY <1>3, <3>1, <3>4 DEF OneLeft
      <4>2. /\ f[n + 1] \in Seq(Accessions) /\ Len(f[n + 1]) = Len(f[n]) + 1 /\ Len(f[n]) \in Nat
            /\ f[n + 1][Len(f[n]) + 1] = registry[n + 1]
            /\ \A i \in 1..Len(f[n]) : f[n + 1][i] = f[n][i]
        BY <3>0, <3>1, <4>1
      <4>3. 1..Len(f[n + 1]) = (1..Len(f[n])) \cup {Len(f[n]) + 1}
        BY <4>2
      <4>4. {f[n + 1][i] : i \in 1..Len(f[n + 1])} = {f[n][i] : i \in 1..Len(f[n])} \cup {registry[n + 1]}
        BY <4>2, <4>3
      <4> QED BY <3>0, <3>2, <3>4, <4>2, <4>4
    <3> QED BY <3>3, <3>4
  <2> HIDE DEF Fits
  <2> QED BY <2>1
<1>6. Len(registry) \in N
  <2> HIDE DEF N
  <2> QED BY <1>1, <1>4, <1>5, SetInduction
<1> QED BY <1>1, <1>2, <1>6 DEF Filings

\* The filings that a worker answered for.
Credited == {a \in Filings : owner[a] # 0}

\* The registry has no more filings than entries.
LEMMA FilingsBounded ==
  ASSUME registry \in Seq(Accessions)
  PROVE  /\ IsFiniteSet(Filings) /\ Cardinality(Filings) \in Nat
         /\ Cardinality(Filings) <= Len(registry)
<1> DEFINE f == [i \in 1..Len(registry) |-> registry[i]]
<1>1. f \in Surjection(1..Len(registry), Filings)
  BY DEF Surjection, Filings
<1>2. IsFiniteSet(1..Len(registry)) /\ Cardinality(1..Len(registry)) = Len(registry)
  <2>1. 1 \in Int /\ Len(registry) \in Int /\ Len(registry) >= 0
    OBVIOUS
  <2>2. /\ IsFiniteSet(1..Len(registry))
        /\ Cardinality(1..Len(registry)) = IF 1 > Len(registry) THEN 0 ELSE Len(registry) - 1 + 1
    BY <2>1, FS_Interval, Zenon
  <2> QED BY <2>1, <2>2
<1>3. IsFiniteSet(Filings) /\ Cardinality(Filings) <= Len(registry)
  BY <1>1, <1>2, FS_Surjection
<1> QED BY <1>3, FS_CardinalityType

\* What this part relies on of the data.
DataTypes ==
  /\ registry \in Seq(Accessions) /\ kept \subseteq Tasks
  /\ work \in [Tasks -> Seq(Accessions)] /\ stored \in [Tasks -> SUBSET Accessions]
  /\ cached \in [Tasks -> Nat]

\* A worker that is about to store has counted every filing answered for, and
\* found the count below the ceiling.
RoomOf(t) ==
  /\ pc[t] \in {"room1", "drop1", "count1", "fetch", "process", "store"} => work[t] # <<>>
  /\ pc[t] \in {"loop", "fetch", "process", "store"} => Cardinality(Credited) <= cached[t]
  /\ pc[t] \in {"fetch", "process", "store"} => cached[t] < MaxFilings

\* Steps at which a worker has nothing in the registry: it has not begun, or has
\* rolled back.
Empty == {"none", "request", "inserted", "unstarted", "wait", "start", "cancelled"}

\* A filing that a worker stored is on its list for as long as it may be rolled back.
RowsOf(t) ==
  \A a \in Filings : owner[a] = t /\ t \notin kept =>
    /\ pc[t] \notin Empty
    /\ pc[t] \in Running => a \in stored[t]
    /\ state[t] # "CANCELLED"

\* The inductive invariant of the ceiling and the roll back.
RegistryInv == DataTypes /\ CeilingKept /\ \A t \in Tasks : RoomOf(t) /\ RowsOf(t)

\* No filing is there now that a worker has stored since.
NoneNew == \A a \in Filings' : owner'[a] = 0 \/ (a \in Filings /\ owner'[a] = owner[a])

\* The filings answered for become fewer by such a step.
LEMMA Fewer ==
  ASSUME DataTypes, NoneNew
  PROVE  /\ IsFiniteSet(Credited) /\ Cardinality(Credited) \in Nat /\ Cardinality(Credited') \in Nat
         /\ Cardinality(Credited) <= Len(registry) /\ Len(registry) \in Nat
         /\ Cardinality(Credited') <= Cardinality(Credited)
<1>1. Credited \subseteq Filings /\ Credited' \subseteq Credited
  BY DEF Credited, NoneNew
<1>2. /\ IsFiniteSet(Filings) /\ Cardinality(Filings) \in Nat
      /\ Cardinality(Filings) <= Len(registry) /\ Len(registry) \in Nat
  BY FilingsBounded DEF DataTypes
<1>3. IsFiniteSet(Credited) /\ Cardinality(Credited) <= Cardinality(Filings)
  BY <1>1, <1>2, FS_Subset
<1>4. IsFiniteSet(Credited') /\ Cardinality(Credited') <= Cardinality(Credited)
  BY <1>1, <1>3, FS_Subset
<1>5. Cardinality(Credited) \in Nat /\ Cardinality(Credited') \in Nat
  BY <1>3, <1>4, FS_CardinalityType
<1> QED BY <1>2, <1>3, <1>4, <1>5

\* Such a step keeps what concerns a task that stands still.
LEMMA OthersKeep ==
  ASSUME RegistryInv, NoneNew, kept \subseteq kept', NEW t \in Tasks,
         pc'[t] = pc[t], state'[t] = state[t], work'[t] = work[t],
         stored'[t] = stored[t], cached'[t] = cached[t]
  PROVE  RoomOf(t)' /\ RowsOf(t)'
<1>1. RoomOf(t) /\ RowsOf(t) /\ cached[t] \in Nat
  BY DEF RegistryInv, DataTypes
<1>2. /\ Cardinality(Credited) \in Nat /\ Cardinality(Credited') \in Nat
      /\ Cardinality(Credited') <= Cardinality(Credited)
  BY Fewer DEF RegistryInv
<1>3. RoomOf(t)'
  BY <1>1, <1>2 DEF RoomOf
<1>4. t # 0
  BY DEF Tasks
<1>5. RowsOf(t)'
  BY <1>1, <1>4 DEF RowsOf, NoneNew
<1> QED BY <1>3, <1>5

\* Such a step of one worker keeps the invariant, if the worker keeps its own part.
LEMMA StepKeeps ==
  ASSUME RegistryInv, NoneNew, DataTypes', kept \subseteq kept', NEW t \in Tasks,
         \A u \in Tasks \ {t} : /\ pc'[u] = pc[u] /\ state'[u] = state[u] /\ work'[u] = work[u]
                                /\ stored'[u] = stored[u] /\ cached'[u] = cached[u],
         RoomOf(t)', RowsOf(t)'
  PROVE  RegistryInv'
<1>1. \A u \in Tasks : RoomOf(u)' /\ RowsOf(u)'
  <2> SUFFICES ASSUME NEW u \in Tasks \ {t} PROVE RoomOf(u)' /\ RowsOf(u)'
    OBVIOUS
  <2> QED BY OthersKeep
<1>2. CeilingKept'
  <2>1. /\ Cardinality(Credited) \in Nat /\ Cardinality(Credited') \in Nat
        /\ Cardinality(Credited') <= Cardinality(Credited)
    BY Fewer DEF RegistryInv
  <2>2. Cardinality(Credited) <= MaxFilings /\ MaxFilings \in Nat
    BY TaskAssumption DEF RegistryInv, CeilingKept, Credited
  <2>3. Cardinality(Credited') <= MaxFilings
    BY <2>1, <2>2
  <2> QED BY <2>3 DEF CeilingKept, Credited
<1> QED BY <1>1, <1>2 DEF RegistryInv

\* Steps of a worker that leave the stores and its own list as they are.
Elsewhere(t) ==
  /\ UNCHANGED <<storeVars, stored>>
  /\ \A u \in Tasks \ {t} : /\ pc'[u] = pc[u] /\ state'[u] = state[u]
                            /\ work'[u] = work[u] /\ cached'[u] = cached[u]

LEMMA ElsewhereKeeps ==
  ASSUME RegistryInv, NEW t \in Tasks, Elsewhere(t),
         work' \in [Tasks -> Seq(Accessions)], cached' \in [Tasks -> Nat],
         pc'[t] \in {"room1", "drop1", "count1", "fetch", "process", "store"} => work'[t] # <<>>,
         pc'[t] \in {"loop", "fetch", "process", "store"} =>
           \/ cached'[t] = Len(registry)
           \/ cached'[t] = cached[t] /\ pc[t] \in {"loop", "fetch", "process", "store"},
         pc'[t] \in {"fetch", "process", "store"} => cached'[t] < MaxFilings,
         \/ pc[t] \in Empty
         \/ /\ pc'[t] \notin Empty
            /\ (state'[t] # "CANCELLED" \/ state'[t] = state[t])
            /\ pc'[t] \in Running => pc[t] \in Running
  PROVE  RegistryInv'
<1>1. registry' = registry /\ owner' = owner /\ kept' = kept /\ stored' = stored
  BY DEF Elsewhere, storeVars
<1>2. NoneNew /\ DataTypes' /\ Credited' = Credited
  BY <1>1 DEF NoneNew, Filings, RegistryInv, DataTypes, Credited
<1>3. RoomOf(t) /\ RowsOf(t)
  BY DEF RegistryInv
<1>4. RoomOf(t)'
  <2>1. Cardinality(Credited) <= Len(registry)
    BY <1>2, Fewer DEF RegistryInv
  <2> QED BY <1>2, <1>3, <2>1 DEF RoomOf
<1>5. RowsOf(t)'
  BY <1>1, <1>3 DEF RowsOf, Filings
<1> QED BY <1>1, <1>2, <1>4, <1>5, StepKeeps DEF Elsewhere

\* The steps of a worker and of the request that creates its task that leave the
\* stores alone.
LEMMA QuietInRegistry ==
  ASSUME RegistryInv, TaskInv, NEW t \in Tasks,
         \/ WorkerStep(t) \/ CreateStep(t),
         ~ (DropOldest(t) \/ RollBack(t) \/ RollBackFails(t) \/ Sweep(t) \/ Store(t) \/ StoreFails(t))
  PROVE  RegistryInv'
<1> USE DEF At, GoTo, Running, Holding, Ending, Empty
<1>0. /\ DOMAIN pc = Tasks /\ DOMAIN state = Tasks /\ work \in [Tasks -> Seq(Accessions)]
      /\ cached \in [Tasks -> Nat] /\ RoomOf(t) /\ Len(registry) \in Nat
  BY DEF TaskInv, ControlTypes, RegistryInv, DataTypes
<1>1. CASE Acquire(t) \/ Run(t) \/ Raise(t) \/ SeeCancel(t) \/ Take(t) \/ Fetched(t) \/ Processed(t)
  <2>1. Elsewhere(t) /\ work' = work /\ cached' = cached
    BY <1>0, <1>1 DEF Elsewhere, Acquire, Run, Raise, SeeCancel, Take, Fetched, Processed, Advance, taskVars, localVars
  <2>2. /\ pc'[t] \in {"room1", "drop1", "count1", "fetch", "process", "store"} => work'[t] # <<>>
        /\ pc'[t] \in {"loop", "fetch", "process", "store"} => pc[t] \in {"loop", "fetch", "process", "store"}
        /\ pc'[t] \in {"fetch", "process", "store"} => cached'[t] < MaxFilings
        /\ pc[t] \notin Empty => pc'[t] \notin Empty /\ state'[t] = state[t]
        /\ pc[t] \notin Empty => (pc'[t] \in Running => pc[t] \in Running)
    BY <1>0, <1>1, <2>1, TaskAssumption DEF Acquire, Run, Raise, SeeCancel, Take, Fetched, Processed, Advance, More, Ceiling, RoomOf, taskVars
  <2> HIDE DEF Empty, Running
  <2> QED BY <1>0, <2>1, <2>2, ElsewhereKeeps
<1>2. CASE Build(t) \/ MakeRoom(t) \/ MakeRoomOne(t) \/ Count(t) \/ Recount(t)
  <2>1. Elsewhere(t) /\ work' \in [Tasks -> Seq(Accessions)] /\ cached' \in [Tasks -> Nat]
    BY <1>0, <1>2, TaskAssumption DEF Elsewhere, Build, MakeRoom, MakeRoomOne, PickVictims, Count, Recount, taskVars
  <2>2. /\ pc'[t] \in {"room1", "drop1", "count1", "fetch", "process", "store"} => work'[t] # <<>>
        /\ pc'[t] \in {"loop", "fetch", "process", "store"} => cached'[t] = Len(registry)
        /\ pc'[t] \in {"fetch", "process", "store"} => cached'[t] < MaxFilings
        /\ pc'[t] \notin Empty /\ state'[t] = state[t] /\ pc[t] \in Running
    BY <1>0, <1>2, <2>1, TaskAssumption DEF Build, MakeRoom, MakeRoomOne, PickVictims, Count, Recount, RoomOf, taskVars
  <2> HIDE DEF Empty, Running
  <2> QED BY <1>0, <2>1, <2>2, ElsewhereKeeps
<1>3. CASE SkipDuplicate(t) \/ FilingFails(t) \/ StoreRefused(t)
  <2>1. /\ work[t] # <<>> /\ pc[t] \in {"loop", "fetch", "process", "store"}
        /\ work' = [work EXCEPT ![t] = Tail(@)] /\ cached' = cached /\ state' = state
        /\ pc' = [pc EXCEPT ![t] = "loop"] /\ UNCHANGED <<storeVars, stored>>
    BY <1>0, <1>3 DEF SkipDuplicate, FilingFails, StoreRefused, NextFiling, More, RoomOf, taskVars
  <2>2. Tail(work[t]) \in Seq(Accessions)
    BY <1>0, <2>1
  <2>3. Elsewhere(t) /\ work' \in [Tasks -> Seq(Accessions)]
    BY <1>0, <2>1, <2>2 DEF Elsewhere
  <2>4. pc'[t] = "loop" /\ pc'[t] \notin Empty /\ pc[t] \in Running
    BY <1>0, <2>1
  <2> HIDE DEF Empty, Running
  <2> QED BY <1>0, <2>1, <2>3, <2>4, ElsewhereKeeps
<1>4. CASE CancelledWaiting(t) \/ StillFull(t) \/ Except(t) \/ Complete(t) \/ FailWithLimit(t) \/ Cancelled(t)
  <2>1. /\ \E s : Finish(t, s) /\ (s = "CANCELLED" => pc[t] \in Empty)
    BY <1>4 DEF CancelledWaiting, StillFull, Except, Complete, FailWithLimit, Cancelled
  <2>2. /\ Elsewhere(t) /\ pc'[t] = "persist" /\ (pc[t] \notin Empty => state'[t] # "CANCELLED")
        /\ work' \in [Tasks -> Seq(Accessions)] /\ cached' \in [Tasks -> Nat]
    BY <1>0, <2>1 DEF Elsewhere, Finish
  <2>3. pc'[t] \notin Empty /\ pc'[t] \notin Running
    BY <2>2
  <2> HIDE DEF Empty, Running
  <2> QED BY <1>0, <2>2, <2>3, ElsewhereKeeps
<1>5. CASE Persist(t) \/ SeeTimer(t) \/ Disarm(t) \/ DisarmBreaks(t) \/ DropResolver(t) \/ Release(t)
  <2>1. /\ Elsewhere(t) /\ work' = work /\ cached' = cached /\ state' = state
        /\ pc'[t] \in {"sweep", "finally", "pop", "disarm", "broken", "release", "done"}
    BY <1>0, <1>5 DEF Elsewhere, Persist, SeeTimer, Disarm, DisarmBreaks, DropResolver, Release, taskVars, localVars
  <2>2. pc'[t] \notin Empty /\ pc'[t] \notin Running
    BY <2>1
  <2> HIDE DEF Empty, Running
  <2> QED BY <1>0, <2>1, <2>2, ElsewhereKeeps
<1>6. CASE CreateStep(t)
  <2>1. /\ Elsewhere(t) /\ work' = work /\ cached' = cached /\ pc[t] \in Empty
        /\ pc'[t] \in {"inserted", "wait", "unstarted", "done"}
    BY <1>0, <1>6 DEF Elsewhere, CreateStep, Insert, Refuse, StartThread, StartFails, taskVars, localVars
  <2> HIDE DEF Empty, Running
  <2> QED BY <1>0, <2>1, ElsewhereKeeps
<1> QED BY <1>1, <1>2, <1>3, <1>4, <1>5, <1>6 DEF WorkerStep, Ingest

\* A registry that only lost filings.
Lost == registry' \in Seq(Accessions) /\ Filings' \subseteq Filings /\ owner' = owner

\* Removing filings keeps the invariant: the eviction, the roll back, the sweep.
LEMMA RemovalKeeps ==
  ASSUME RegistryInv, TaskInv, NEW t \in Tasks,
         DropOldest(t) \/ RollBack(t) \/ RollBackFails(t) \/ Sweep(t)
  PROVE  RegistryInv'
<1> USE DEF At, GoTo, Running, Holding, Ending, Empty
<1>0. /\ DOMAIN pc = Tasks /\ DOMAIN state = Tasks /\ DataTypes /\ RoomOf(t) /\ RowsOf(t)
      /\ registry \in Seq(Accessions) /\ t # 0
  BY DEF TaskInv, ControlTypes, RegistryInv, DataTypes, Tasks
<1>1. Lost
  <2>1. CASE DropOldest(t) \/ RollBack(t)
    <3>1. PICK S : registry' = Without(S)
      BY <2>1 DEF DropOldest, RollBack
    <3>2. registry' \in Seq(Accessions) /\ Filings' = Filings \ S
      <4>1. Without(S) \in Seq(Accessions) /\ {Without(S)[i] : i \in 1..Len(Without(S))} = Filings \ S
        BY <1>0, WithoutIs, Zenon
      <4> QED BY <3>1, <4>1 DEF Filings
    <3> QED BY <2>1, <3>2 DEF DropOldest, RollBack, Lost
  <2>2. CASE RollBackFails(t)
    BY <1>0, <2>2 DEF RollBackFails, Lost, Filings
  <2>3. CASE Sweep(t)
    <3>1. PICK n \in 0..Len(registry) : registry' = SubSeq(registry, n + 1, Len(registry))
      BY <2>3 DEF Sweep
    <3>2. /\ registry' \in Seq(Accessions) /\ Len(registry') = Len(registry) - n
          /\ \A i \in 1..Len(registry') : registry'[i] = registry[i + n] /\ i + n \in 1..Len(registry)
      BY <1>0, <3>1
    <3> QED BY <2>3, <3>2 DEF Sweep, Lost, Filings
  <2> QED BY <2>1, <2>2, <2>3
<1>2. NoneNew /\ kept \subseteq kept' /\ DataTypes'
  BY <1>0, <1>1 DEF Lost, NoneNew, DataTypes, DropOldest, RollBack, RollBackFails, Sweep, Filings, localVars
<1>3. RoomOf(t)'
  BY <1>0 DEF RoomOf, DropOldest, RollBack, RollBackFails, Sweep
<1>4. RowsOf(t)'
  <2>1. CASE DropOldest(t) \/ Sweep(t)
    BY <1>0, <1>1, <2>1 DEF RowsOf, Lost, DropOldest, Sweep, taskVars
  <2>2. CASE RollBack(t)
    <3>1. Filings' = Filings \ stored[t]
      <4>1. {Without(stored[t])[i] : i \in 1..Len(Without(stored[t]))} = Filings \ stored[t]
        BY <1>0, WithoutIs, Zenon
      <4>2. registry' = Without(stored[t])
        BY <2>2 DEF RollBack
      <4> QED BY <4>1, <4>2 DEF Filings
    <3>2. pc[t] = "rollback" /\ owner' = owner /\ kept' = kept
      BY <2>2 DEF RollBack
    <3>3. \A a \in Filings' : owner[a] = t => t \in kept
      BY <1>0, <3>1, <3>2 DEF RowsOf
    <3> QED BY <3>2, <3>3 DEF RowsOf
  <2>3. CASE RollBackFails(t)
    BY <2>3 DEF RollBackFails, RowsOf
  <2> QED BY <2>1, <2>2, <2>3
<1>5. \A u \in Tasks \ {t} : /\ pc'[u] = pc[u] /\ state'[u] = state[u] /\ work'[u] = work[u]
                             /\ stored'[u] = stored[u] /\ cached'[u] = cached[u]
  BY <1>0 DEF DataTypes, DropOldest, RollBack, RollBackFails, Sweep, taskVars, localVars
<1> QED BY <1>2, <1>3, <1>4, <1>5, StepKeeps

\* A store that fails stores nothing, or leaves a row that nobody answered for.
LEMMA StoreFailsKeeps ==
  ASSUME RegistryInv, TaskInv, NEW t \in Tasks, StoreFails(t)
  PROVE  RegistryInv'
<1> USE DEF At, GoTo, Running, Holding, Ending, Empty
<1>0. /\ DOMAIN pc = Tasks /\ DOMAIN state = Tasks /\ DataTypes /\ RoomOf(t) /\ RowsOf(t) /\ t # 0
      /\ registry \in Seq(Accessions) /\ owner \in [Accessions -> {0} \cup Tasks]
      /\ work \in [Tasks -> Seq(Accessions)] /\ DOMAIN stored = Tasks /\ DOMAIN cached = Tasks
  BY DEF TaskInv, ControlTypes, RegistryInv, DataTypes, Tasks
<1>1. /\ pc[t] = "store" /\ pc' = [pc EXCEPT ![t] = "loop"] /\ work' = [work EXCEPT ![t] = Tail(@)]
      /\ state' = state /\ UNCHANGED <<cached, stored, kept>>
  BY DEF StoreFails, NextFiling, storeVars, taskVars
<1>2. work[t] # <<>> /\ Head(work[t]) \in Accessions /\ Tail(work[t]) \in Seq(Accessions)
  BY <1>0, <1>1 DEF RoomOf
<1>3. NoneNew /\ registry' \in Seq(Accessions)
  <2>1. CASE UNCHANGED storeVars
    BY <1>0, <2>1 DEF storeVars, NoneNew, Filings
  <2>2. CASE /\ registry' = Append(registry, Head(work[t]))
             /\ owner' = [owner EXCEPT ![Head(work[t])] = 0]
    <3>1. /\ registry' \in Seq(Accessions) /\ Len(registry') = Len(registry) + 1
          /\ registry'[Len(registry) + 1] = Head(work[t]) /\ Len(registry) \in Nat
          /\ \A i \in 1..Len(registry) : registry'[i] = registry[i]
      BY <1>0, <1>2, <2>2
    <3>2. Filings' \subseteq Filings \cup {Head(work[t])}
      BY <3>1 DEF Filings
    <3>3. Filings' \subseteq Accessions
      BY <3>1 DEF Filings
    <3>4. ASSUME NEW a \in Filings' PROVE owner'[a] = 0 \/ (a \in Filings /\ owner'[a] = owner[a])
      <4>1. a \in Accessions
        BY <3>3, <3>4
      <4>2. CASE a = Head(work[t])
        BY <1>0, <1>2, <2>2, <4>1, <4>2
      <4>3. CASE a # Head(work[t])
        BY <1>0, <2>2, <3>2, <4>1, <4>3
      <4> QED BY <4>2, <4>3
    <3> QED BY <3>1, <3>4 DEF NoneNew
  <2> QED BY <2>1, <2>2 DEF StoreFails
<1>4. DataTypes'
  BY <1>0, <1>1, <1>2, <1>3 DEF DataTypes
<1>5. RoomOf(t)'
  <2>1. /\ Cardinality(Credited') <= Cardinality(Credited) /\ Cardinality(Credited) \in Nat
        /\ Cardinality(Credited') \in Nat /\ Cardinality(Credited) <= cached[t] /\ cached[t] \in Nat
    BY <1>0, <1>1, <1>3, Fewer DEF RoomOf, DataTypes
  <2> QED BY <1>0, <1>1, <2>1 DEF RoomOf
<1>6. RowsOf(t)'
  BY <1>0, <1>1, <1>3 DEF RowsOf, NoneNew
<1>7. \A u \in Tasks \ {t} : /\ pc'[u] = pc[u] /\ state'[u] = state[u] /\ work'[u] = work[u]
                             /\ stored'[u] = stored[u] /\ cached'[u] = cached[u]
  BY <1>0, <1>1
<1> QED BY <1>1, <1>3, <1>4, <1>5, <1>6, <1>7, StepKeeps

\* A store that succeeds: the worker had counted below the ceiling, no other worker
\* is at work, and the filing goes on its list.
LEMMA StoreKeeps ==
  ASSUME RegistryInv, TaskInv, NEW t \in Tasks, Store(t)
  PROVE  RegistryInv'
<1> USE DEF At, GoTo, Running, Holding, Ending, Empty
<1> DEFINE f == Head(work[t])
<1>0. /\ DOMAIN pc = Tasks /\ DOMAIN state = Tasks /\ DataTypes /\ RoomOf(t) /\ RowsOf(t) /\ t # 0
      /\ registry \in Seq(Accessions) /\ owner \in [Accessions -> {0} \cup Tasks]
      /\ work \in [Tasks -> Seq(Accessions)] /\ stored \in [Tasks -> SUBSET Accessions]
      /\ cached \in [Tasks -> Nat] /\ MaxFilings \in Nat /\ StateOfStep(t) /\ OneTaskOnGpu
  BY TaskAssumption DEF TaskInv, ControlTypes, RegistryInv, DataTypes, Tasks
<1>1. /\ pc[t] = "store" /\ pc' = [pc EXCEPT ![t] = "loop"] /\ work' = [work EXCEPT ![t] = Tail(@)]
      /\ state' = state /\ kept' = kept /\ f \notin Filings
      /\ registry' = Append(registry, f) /\ owner' = [owner EXCEPT ![f] = t]
      /\ stored' = [stored EXCEPT ![t] = @ \cup {f}] /\ cached' = [cached EXCEPT ![t] = @ + 1]
  BY DEF Store, NextFiling, taskVars
<1>2. work[t] # <<>> /\ f \in Accessions /\ Tail(work[t]) \in Seq(Accessions)
  BY <1>0, <1>1 DEF RoomOf
<1> HIDE DEF f
<1>3. /\ registry' \in Seq(Accessions) /\ Len(registry') = Len(registry) + 1
      /\ registry'[Len(registry) + 1] = f /\ Len(registry) \in Nat
      /\ \A i \in 1..Len(registry) : registry'[i] = registry[i]
  BY <1>0, <1>1, <1>2
<1>4. Filings' = Filings \cup {f} /\ Filings \subseteq Accessions
  <2>1. 1..Len(registry') = (1..Len(registry)) \cup {Len(registry) + 1}
    BY <1>3
  <2>2. \A i \in 1..Len(registry') : registry'[i] \in Filings \cup {f}
    BY <1>3, <2>1 DEF Filings
  <2>3. f \in Filings' /\ Filings \subseteq Filings'
    BY <1>3, <2>1 DEF Filings
  <2>4. Filings' \subseteq Filings \cup {f}
    BY <2>2 DEF Filings
  <2>5. Filings \subseteq Accessions
    BY <1>0 DEF Filings
  <2> QED BY <2>3, <2>4, <2>5
<1>5. DataTypes'
  BY <1>0, <1>1, <1>2, <1>3 DEF DataTypes
<1>6. \A a \in Filings : a # f /\ owner'[a] = owner[a]
  BY <1>0, <1>1, <1>4
<1>7. owner'[f] = t
  BY <1>0, <1>1, <1>2
<1>8. Credited' = Credited \cup {f} /\ f \notin Credited
  BY <1>0, <1>1, <1>4, <1>6, <1>7 DEF Credited
<1>9. /\ IsFiniteSet(Credited) /\ Cardinality(Credited) \in Nat
      /\ Cardinality(Credited') = Cardinality(Credited) + 1
  <2>1. IsFiniteSet(Credited)
    <3>1. Credited \subseteq Filings /\ IsFiniteSet(Filings)
      BY <1>0, FilingsBounded DEF Credited
    <3> QED BY <3>1, FS_Subset
  <2>2. Cardinality(Credited \cup {f}) = IF f \in Credited THEN Cardinality(Credited) ELSE Cardinality(Credited) + 1
    BY <2>1, FS_AddElement, Zenon
  <2> QED BY <1>8, <2>1, <2>2, FS_CardinalityType
<1>10. Cardinality(Credited) <= cached[t] /\ cached[t] < MaxFilings
  BY <1>0, <1>1 DEF RoomOf
<1>11. CeilingKept'
  <2>1. Cardinality(Credited') <= MaxFilings
    BY <1>0, <1>9, <1>10
  <2> QED BY <2>1 DEF CeilingKept, Credited
<1>12. RoomOf(t)'
  <2>1. Cardinality(Credited') <= cached'[t] /\ pc'[t] = "loop"
    BY <1>0, <1>1, <1>9, <1>10
  <2> QED BY <2>1 DEF RoomOf
<1>13. RowsOf(t)'
  <2>1. state[t] = "RUNNING" /\ pc'[t] = "loop"
    BY <1>0, <1>1 DEF StateOfStep
  <2>2. ASSUME NEW a \in Filings', owner'[a] = t, t \notin kept' PROVE a \in stored'[t]
    BY <1>0, <1>1, <1>4, <1>6, <2>2 DEF RowsOf
  <2> QED BY <1>1, <2>1, <2>2 DEF RowsOf
<1>14. ASSUME NEW u \in Tasks \ {t} PROVE RoomOf(u)' /\ RowsOf(u)'
  <2>1. /\ pc'[u] = pc[u] /\ state'[u] = state[u] /\ work'[u] = work[u]
        /\ stored'[u] = stored[u] /\ cached'[u] = cached[u]
    BY <1>0, <1>1, <1>14
  <2>2. pc[u] \notin Holding
    BY <1>0, <1>1, <1>14 DEF OneTaskOnGpu
  <2>3. RoomOf(u)'
    BY <2>1, <2>2 DEF RoomOf
  <2>4. RowsOf(u) /\ u # t
    BY <1>14 DEF RegistryInv
  <2>5. RowsOf(u)'
    BY <1>1, <1>4, <1>6, <1>7, <2>1, <2>4 DEF RowsOf
  <2> QED BY <2>3, <2>5
<1> QED BY <1>5, <1>11, <1>12, <1>13, <1>14 DEF RegistryInv

\* A request, a route, another process, the reset and shutdown.
LEMMA ClientsInRegistry == ASSUME RegistryInv, TaskInv, Clients PROVE RegistryInv'
<1> DEFINE Still == \A u \in Tasks : /\ pc'[u] = pc[u] /\ state'[u] = state[u] /\ work'[u] = work[u]
                                     /\ stored'[u] = stored[u] /\ cached'[u] = cached[u]
<1>0. /\ DOMAIN pc = Tasks /\ DataTypes /\ registry \in Seq(Accessions)
      /\ owner \in [Accessions -> {0} \cup Tasks]
  BY DEF TaskInv, ControlTypes, RegistryInv, DataTypes
<1>1. ASSUME Still, NoneNew, kept' = kept, registry' \in Seq(Accessions), UNCHANGED localVars
      PROVE  RegistryInv'
  <2>1. DataTypes'
    BY <1>0, <1>1 DEF DataTypes, localVars
  <2>2. \A u \in Tasks : RoomOf(u)' /\ RowsOf(u)'
    BY <1>1, OthersKeep
  <2>3. CeilingKept'
    <3>1. /\ Cardinality(Credited) \in Nat /\ Cardinality(Credited') \in Nat
          /\ Cardinality(Credited') <= Cardinality(Credited)
      BY <1>0, <1>1, Fewer
    <3>2. Cardinality(Credited) <= MaxFilings /\ MaxFilings \in Nat
      BY TaskAssumption DEF RegistryInv, CeilingKept, Credited
    <3>3. Cardinality(Credited') <= MaxFilings
      BY <3>1, <3>2
    <3> QED BY <3>3 DEF CeilingKept, Credited
  <2> QED BY <2>1, <2>2, <2>3 DEF RegistryInv
<1>2. CASE Request
  <2> DEFINE n == created + 1
  <2>1. /\ n \in Tasks /\ pc[n] = "none" /\ pc' = [pc EXCEPT ![n] = "request"]
        /\ UNCHANGED <<state, slot, localVars, storeVars>>
    BY <1>2, TaskAssumption DEF Request, GoTo, Tasks, TaskInv, ControlTypes, StateOfStep
  <2> HIDE DEF n
  <2>2. Elsewhere(n) /\ work' = work /\ cached' = cached /\ pc'[n] = "request" /\ pc[n] \in Empty
    BY <1>0, <2>1 DEF Elsewhere, localVars, Empty
  <2> QED BY <1>0, <2>1, <2>2, ElsewhereKeeps DEF DataTypes
<1>3. ASSUME NEW t \in Tasks, CreateStep(t) PROVE RegistryInv'
  <2>1. /\ pc[t] \in {"request", "inserted"}
    BY <1>3 DEF CreateStep, Insert, Refuse, StartThread, StartFails, At
  <2>2. ~ (DropOldest(t) \/ RollBack(t) \/ RollBackFails(t) \/ Sweep(t) \/ Store(t) \/ StoreFails(t))
    BY <2>1 DEF DropOldest, RollBack, RollBackFails, Sweep, Store, StoreFails, At
  <2> QED BY <1>3, <2>2, QuietInRegistry
<1>4. CASE \/ \E t \in Tasks : Cancel(t) \/ Timeout(t) \/ Expire(t)
           \/ \E r \in Resets : EnterReset(r) \/ LeaveReset(r)
           \/ SetShutdown \/ CancelTimers
  <2>1. UNCHANGED <<pc, state, localVars, storeVars>>
    BY <1>4 DEF Cancel, Timeout, Expire, EnterReset, LeaveReset, SetShutdown, CancelTimers, taskVars
  <2> QED BY <1>0, <1>1, <2>1 DEF NoneNew, Filings, localVars, storeVars
<1>5. ASSUME NEW a \in Accessions, RouteDelete(a) PROVE RegistryInv'
  <2>1. UNCHANGED <<pc, state, localVars, owner, kept>> /\ registry' = Without({a})
    BY <1>5 DEF RouteDelete, taskVars
  <2>2. registry' \in Seq(Accessions) /\ Filings' = Filings \ {a}
    <3>1. /\ Without({a}) \in Seq(Accessions)
          /\ {Without({a})[i] : i \in 1..Len(Without({a}))} = Filings \ {a}
      BY <1>0, WithoutIs, Zenon
    <3> QED BY <2>1, <3>1 DEF Filings
  <2> QED BY <1>1, <2>1, <2>2 DEF NoneNew, localVars
<1>6. ASSUME NEW a \in Accessions, CliStore(a) PROVE RegistryInv'
  <2>1. /\ UNCHANGED <<pc, state, localVars, kept>> /\ registry' = Append(registry, a)
        /\ owner' = [owner EXCEPT ![a] = 0]
    BY <1>6 DEF CliStore, taskVars
  <2>2. /\ registry' \in Seq(Accessions) /\ Len(registry') = Len(registry) + 1
        /\ registry'[Len(registry) + 1] = a /\ Len(registry) \in Nat
        /\ \A i \in 1..Len(registry) : registry'[i] = registry[i]
    BY <1>0, <2>1
  <2>3. Filings' \subseteq Filings \cup {a} /\ Filings' \subseteq Accessions
    BY <2>2 DEF Filings
  <2>4. NoneNew
    BY <1>0, <2>1, <2>3 DEF NoneNew
  <2> QED BY <1>1, <2>1, <2>2, <2>4 DEF localVars
<1>7. ASSUME NEW r \in Resets, Clear(r) PROVE RegistryInv'
  <2>1. UNCHANGED <<pc, state, localVars, kept>> /\ registry' = <<>>
    BY <1>7 DEF Clear, taskVars
  <2>2. registry' \in Seq(Accessions) /\ NoneNew
    BY <2>1 DEF NoneNew, Filings
  <2> QED BY <1>1, <2>1, <2>2 DEF localVars
<1> QED BY <1>2, <1>3, <1>4, <1>5, <1>6, <1>7 DEF Clients

\* The invariant of ceiling and roll back holds in every reachable state.
THEOREM TaskRegistryInvariant == Spec => []RegistryInv
<1>1. Init => RegistryInv
  <2> SUFFICES ASSUME Init PROVE RegistryInv
    OBVIOUS
  <2>1. Filings = {}
    BY DEF Init, Filings
  <2>2. DataTypes
    BY DEF Init, DataTypes
  <2>3. CeilingKept
    BY <2>1, FS_EmptySet, TaskAssumption DEF CeilingKept
  <2>4. \A t \in Tasks : RoomOf(t) /\ RowsOf(t)
    BY <2>1 DEF RoomOf, RowsOf, Init
  <2> QED BY <2>2, <2>3, <2>4 DEF RegistryInv
<1>2. RegistryInv /\ TaskInv /\ [Next]_vars => RegistryInv'
  <2> SUFFICES ASSUME RegistryInv, TaskInv, [Next]_vars PROVE RegistryInv'
    OBVIOUS
  <2>1. CASE \E t \in Tasks : WorkerStep(t)
    BY <2>1, QuietInRegistry, RemovalKeeps, StoreKeeps, StoreFailsKeeps
  <2>2. CASE Clients
    BY <2>2, ClientsInRegistry
  <2>3. CASE UNCHANGED vars
    BY <2>3 DEF vars, taskVars, localVars, storeVars, RegistryInv, DataTypes, CeilingKept, RoomOf, RowsOf,
         Credited, Filings
  <2> QED BY <2>1, <2>2, <2>3 DEF Next
<1> QED BY <1>1, <1>2, TaskInvariant, PTL DEF Spec

\* Whatever makes a worker's count of the registry stale, the filings it answers
\* for never take the registry over its ceiling.
THEOREM TaskCeilingKept == Spec => []CeilingKept
<1>1. RegistryInv => CeilingKept
  BY DEF RegistryInv
<1> QED BY <1>1, TaskRegistryInvariant, PTL

\* A cancelled task leaves none of its filings, unless its roll back failed.
THEOREM TaskCancelledLeavesNothing == Spec => []CancelledLeavesNothing
<1>1. RegistryInv /\ TaskInv => CancelledLeavesNothing
  <2> SUFFICES ASSUME RegistryInv, TaskInv, NEW a \in Filings, owner[a] # 0, state[owner[a]] = "CANCELLED"
               PROVE  owner[a] \in kept
    BY DEF CancelledLeavesNothing
  <2>1. a \in Accessions
    BY DEF RegistryInv, DataTypes, Filings
  <2>2. owner[a] \in Tasks
    BY <2>1 DEF TaskInv, ControlTypes
  <2> QED BY <2>2 DEF RegistryInv, RowsOf
<1> QED BY <1>1, TaskInvariant, TaskRegistryInvariant, PTL
=============================================================================
