----------------------------- MODULE StoreProofs -----------------------------
(***************************************************************************)
(* Theorems of FilingStore, for every number of workers, accessions and    *)
(* slices; and of Reindex, for any chunks, models, services and page size. *)
(***************************************************************************)
EXTENDS FilingStore, Reindex, FiniteSetTheorems, WellFoundedInduction, TLAPS

-----------------------------------------------------------------------------
(* The two stores of a filing.                                             *)

\* Every step of a store call, a delete call or the environment keeps the type
\* invariant; Control is needed for the slice counter a claim starts from.
LEMMA TypeStep == TypeOK /\ Control /\ [Next]_vars => TypeOK'
<1> SUFFICES ASSUME TypeOK, Control, [Next]_vars PROVE TypeOK'
  OBVIOUS
<1> USE StoreAssumption DEF TypeOK, Steps, Kinds, Full, data, ctl, hist, GoTo, Begin, At, Stored, Deleted
<1>1. ASSUME NEW w \in Workers, StoreStep(w) PROVE TypeOK'
  <2>1. CASE \E b \in Accessions : StoreAtomic(w, b)
    BY <2>1 DEF StoreAtomic
  <2>2. CASE \E b \in Accessions : StoreCarryOver(w, b)
    BY <2>2 DEF StoreCarryOver
  <2>3. CASE Claim(w)
    BY <2>3 DEF Claim
  <2>4. CASE ClaimRefused(w) \/ ClaimFails(w)
    BY <2>4 DEF ClaimRefused, ClaimFails
  <2>5. CASE AddSlice(w)
    BY <2>5 DEF AddSlice, AfterAdd
  <2>6. CASE AddFails(w)
    BY <2>6 DEF AddFails, AfterUnadd
  <2>7. CASE Unadd(w)
    BY <2>7 DEF Unadd, AfterUnadd
  <2>8. CASE UnaddFails(w)
    BY <2>8 DEF UnaddFails, AfterUnadd
  <2>9. CASE Unclaim(w)
    BY <2>9 DEF Unclaim
  <2>10. CASE UnclaimFails(w)
    BY <2>10 DEF UnclaimFails
  <2>11. CASE Register(w)
    BY <2>11 DEF Register
  <2>12. CASE RegisterFails(w)
    BY <2>12 DEF RegisterFails
  <2>13. CASE Undo(w)
    BY <2>13 DEF Undo
  <2>14. CASE UndoFails(w)
    BY <2>14 DEF UndoFails
  <2> QED
    BY <1>1, <2>1, <2>2, <2>3, <2>4, <2>5, <2>6, <2>7, <2>8, <2>9, <2>10, <2>11, <2>12, <2>13, <2>14 DEF StoreStep
<1>2. ASSUME NEW w \in Workers, DeleteStep(w) PROVE TypeOK'
  <2>1. CASE \E S \in SUBSET Accessions \ {{}} : DeleteRequest(w, S)
    BY <2>1 DEF DeleteRequest
  <2>2. CASE \E S \in SUBSET Accessions \ {{}} : DeleteBatch(w, S)
    BY <2>2 DEF DeleteBatch
  <2>3. CASE LookUp(w)
    BY <2>3 DEF LookUp
  <2>4. CASE EvictExpired(w)
    BY <2>4 DEF EvictExpired
  <2>5. CASE DeleteIndex(w)
    BY <2>5 DEF DeleteIndex
  <2>6. CASE DeleteIndexFails(w)
    BY <2>6 DEF DeleteIndexFails
  <2>7. CASE DeleteRows(w)
    BY <2>7 DEF DeleteRows
  <2>8. CASE DeleteRowsFails(w)
    BY <2>8 DEF DeleteRowsFails
  <2>9. CASE ClearAll(w)
    BY <2>9 DEF ClearAll
  <2>10. CASE DropCollection(w)
    BY <2>10 DEF DropCollection
  <2>11. CASE DropFails(w)
    BY <2>11 DEF DropFails
  <2>12. CASE CreateCollection(w)
    BY <2>12 DEF CreateCollection
  <2>13. CASE CreateFails(w)
    BY <2>13 DEF CreateFails
  <2>14. CASE \E S \in SUBSET target[w] : DeleteRowsBatch(w, S)
    BY <2>14 DEF DeleteRowsBatch
  <2> QED
    BY <1>2, <2>1, <2>2, <2>3, <2>4, <2>5, <2>6, <2>7, <2>8, <2>9, <2>10, <2>11, <2>12, <2>13, <2>14 DEF DeleteStep
<1>3. ASSUME Environment PROVE TypeOK'
  <2>1. CASE \E a \in Accessions : GrowOld(a)
    BY <2>1 DEF GrowOld
  <2>2. ASSUME NEW L \in SUBSET unsynced, Crash(L) PROVE TypeOK'
    <3>1. pc' \in [Workers -> Steps] /\ kind' \in [Workers -> Kinds]
      BY <2>2 DEF Crash
    <3>2. target' \in [Workers -> SUBSET Accessions] /\ next' \in [Workers -> 1..Slices]
      BY <2>2 DEF Crash
    <3>3. unsynced' \subseteq rows' /\ aged' \subseteq rows' /\ rows' \subseteq Accessions
      BY <2>2 DEF Crash
    <3>4. live' \in BOOLEAN /\ overlapped' \subseteq Accessions /\ faulted' \subseteq Accessions
      BY <2>2 DEF Crash, Interrupted
    <3>5. chunks' \in [Accessions -> SUBSET Full]
      BY <2>2 DEF Crash
    <3> QED
      BY <3>1, <3>2, <3>3, <3>4, <3>5
  <2>3. CASE \E w \in Workers : CutOff(w)
    BY <2>3 DEF CutOff
  <2> QED
    BY <1>3, <2>1, <2>2, <2>3 DEF Environment
<1>4. CASE UNCHANGED vars
  BY <1>4 DEF vars
<1> QED
  BY <1>1, <1>2, <1>3, <1>4 DEF Next

\* A call only ever stands at a step of its own kind.
LEMMA ControlStep == TypeOK /\ Control /\ [Next]_vars => Control'
<1> SUFFICES ASSUME TypeOK, Control, [Next]_vars PROVE Control'
  OBVIOUS
<1> USE StoreAssumption DEF TypeOK, Control, Steps, Kinds, data, ctl, hist, GoTo, Begin, At
<1>1. ASSUME NEW w \in Workers, StoreStep(w) PROVE Control'
  <2>1. CASE \E b \in Accessions : StoreAtomic(w, b)
    BY <2>1 DEF StoreAtomic
  <2>2. CASE \E b \in Accessions : StoreCarryOver(w, b)
    BY <2>2 DEF StoreCarryOver
  <2>3. CASE Claim(w)
    BY <2>3 DEF Claim
  <2>4. CASE ClaimRefused(w) \/ ClaimFails(w)
    BY <2>4 DEF ClaimRefused, ClaimFails
  <2>5. CASE AddSlice(w)
    BY <2>5 DEF AddSlice, AfterAdd
  <2>6. CASE AddFails(w)
    BY <2>6 DEF AddFails, AfterUnadd
  <2>7. CASE Unadd(w)
    BY <2>7 DEF Unadd, AfterUnadd
  <2>8. CASE UnaddFails(w)
    BY <2>8 DEF UnaddFails, AfterUnadd
  <2>9. CASE Unclaim(w)
    BY <2>9 DEF Unclaim
  <2>10. CASE UnclaimFails(w)
    BY <2>10 DEF UnclaimFails
  <2>11. CASE Register(w)
    BY <2>11 DEF Register
  <2>12. CASE RegisterFails(w)
    BY <2>12 DEF RegisterFails
  <2>13. CASE Undo(w)
    BY <2>13 DEF Undo
  <2>14. CASE UndoFails(w)
    BY <2>14 DEF UndoFails
  <2> QED
    BY <1>1, <2>1, <2>2, <2>3, <2>4, <2>5, <2>6, <2>7, <2>8, <2>9, <2>10, <2>11, <2>12, <2>13, <2>14 DEF StoreStep
<1>2. ASSUME NEW w \in Workers, DeleteStep(w) PROVE Control'
  <2>1. CASE \E S \in SUBSET Accessions \ {{}} : DeleteRequest(w, S)
    BY <2>1 DEF DeleteRequest
  <2>2. CASE \E S \in SUBSET Accessions \ {{}} : DeleteBatch(w, S)
    BY <2>2 DEF DeleteBatch
  <2>3. CASE LookUp(w)
    BY <2>3 DEF LookUp
  <2>4. CASE EvictExpired(w)
    BY <2>4 DEF EvictExpired
  <2>5. CASE DeleteIndex(w)
    BY <2>5 DEF DeleteIndex
  <2>6. CASE DeleteIndexFails(w)
    BY <2>6 DEF DeleteIndexFails
  <2>7. CASE DeleteRows(w)
    BY <2>7 DEF DeleteRows
  <2>8. CASE DeleteRowsFails(w)
    BY <2>8 DEF DeleteRowsFails
  <2>9. CASE ClearAll(w)
    BY <2>9 DEF ClearAll
  <2>10. CASE DropCollection(w)
    BY <2>10, ZenonT(40) DEF DropCollection
  <2>11. CASE DropFails(w)
    BY <2>11 DEF DropFails
  <2>12. CASE CreateCollection(w)
    BY <2>12 DEF CreateCollection
  <2>13. CASE CreateFails(w)
    BY <2>13 DEF CreateFails
  <2>14. CASE \E S \in SUBSET target[w] : DeleteRowsBatch(w, S)
    BY <2>14 DEF DeleteRowsBatch
  <2> QED
    BY <1>2, <2>1, <2>2, <2>3, <2>4, <2>5, <2>6, <2>7, <2>8, <2>9, <2>10, <2>11, <2>12, <2>13, <2>14 DEF DeleteStep
<1>3. ASSUME Environment PROVE Control'
  <2>1. CASE \E w \in Workers : CutOff(w)
    BY <2>1 DEF CutOff
  <2>2. CASE (\E b \in Accessions : GrowOld(b)) \/ \E L \in SUBSET unsynced : Crash(L)
    BY <2>2 DEF GrowOld, Crash
  <2> QED
    BY <1>3, <2>1, <2>2 DEF Environment
<1>4. CASE UNCHANGED vars
  BY <1>4 DEF vars
<1> QED
  BY <1>1, <1>2, <1>3, <1>4 DEF Next

\* One step keeps, filing by filing, what the stores and the calls at work on the
\* filing have to do with each other, as long as the step records no overlap of
\* it (and, for the exact contents, no fault).
LEMMA FilingStep ==
  ASSUME TypeOK, Control, [Next]_vars, NEW a \in Accessions, a \notin overlapped',
         Exclusive(a), ClaimHeld(a), WrittenKept(a), a \notin faulted => StoringExact(a) /\ RestingExact(a)
  PROVE  Exclusive(a)' /\ ClaimHeld(a)' /\ WrittenKept(a)' /\ (a \notin faulted' => StoringExact(a)' /\ RestingExact(a)')
<1> USE StoreAssumption DEF TypeOK, Control, Steps, Kinds, Full, data, ctl, hist, GoTo, Begin, At
<1>1. ASSUME NEW w \in Workers, StoreStep(w) PROVE Exclusive(a)' /\ ClaimHeld(a)' /\ WrittenKept(a)' /\ (a \notin faulted' => StoringExact(a)' /\ RestingExact(a)')
  <2>1. CASE \E b \in Accessions : StoreAtomic(w, b)
    <3>1. Exclusive(a)'
      BY <2>1 DEF StoreAtomic, Exclusive, ClaimHeld, Taken, Storing, Deleting, Stored, Deleted
    <3>2. ClaimHeld(a)'
      BY <2>1 DEF StoreAtomic, Exclusive, ClaimHeld, Storing, Deleting, Stored, Deleted
    <3>3. WrittenKept(a)'
      BY <2>1 DEF StoreAtomic, Exclusive, WrittenKept, Storing, Deleting, Stored, Deleted
    <3>4. a \notin faulted' => StoringExact(a)'
      BY <2>1 DEF StoreAtomic, Exclusive, ClaimHeld, WrittenKept, StoringExact, RestingExact, AtRest, HalfDone, Storing, Deleting, Stored, Deleted, Taken
    <3>5. a \notin faulted' => RestingExact(a)'
      BY <2>1 DEF StoreAtomic, Exclusive, ClaimHeld, WrittenKept, StoringExact, RestingExact, AtRest, HalfDone, Storing, Deleting, Stored, Deleted, Taken
    <3> QED
      BY <3>1, <3>2, <3>3, <3>4, <3>5
  <2>2. CASE \E b \in Accessions : StoreCarryOver(w, b)
    <3>1. Exclusive(a)'
      BY <2>2 DEF StoreCarryOver, Exclusive, ClaimHeld, Taken, Storing, Deleting, Stored, Deleted
    <3>2. ClaimHeld(a)'
      BY <2>2 DEF StoreCarryOver, Exclusive, ClaimHeld, Storing, Deleting, Stored, Deleted
    <3>3. WrittenKept(a)'
      BY <2>2 DEF StoreCarryOver, Exclusive, WrittenKept, Storing, Deleting, Stored, Deleted
    <3>4. a \notin faulted' => StoringExact(a)'
      BY <2>2 DEF StoreCarryOver, Exclusive, ClaimHeld, WrittenKept, StoringExact, RestingExact, AtRest, HalfDone, Storing, Deleting, Stored, Deleted, Taken
    <3>5. a \notin faulted' => RestingExact(a)'
      BY <2>2 DEF StoreCarryOver, Exclusive, ClaimHeld, WrittenKept, StoringExact, RestingExact, AtRest, HalfDone, Storing, Deleting, Stored, Deleted, Taken
    <3> QED
      BY <3>1, <3>2, <3>3, <3>4, <3>5
  <2>3. CASE Claim(w)
    <3>0. a \in target[w] => \A v \in Workers : ~Storing(v, a) /\ ~Deleting(v, a)
      BY <2>3 DEF Claim, ClaimHeld, Taken, Storing, Deleting, Deleted
    <3>1. Exclusive(a)'
      BY <2>3, <3>0 DEF Claim, Exclusive, ClaimHeld, Taken, Storing, Deleting, Stored, Deleted
    <3>2. ClaimHeld(a)'
      BY <2>3 DEF Claim, Exclusive, ClaimHeld, Storing, Deleting, Stored, Deleted
    <3>3. WrittenKept(a)'
      BY <2>3, <3>0 DEF Claim, WrittenKept, Storing, Deleting
    <3>4. a \notin faulted' => StoringExact(a)'
      <4>1. CASE a \in target[w]
        <5>1. a \notin rows /\ AtRest(a)
          BY <2>3, <3>0, <4>1 DEF Claim, Taken, AtRest, HalfDone, Storing, Deleting
        <5>2. a \notin faulted' => chunks'[a] = {}
          BY <2>3, <5>1 DEF Claim, RestingExact
        <5> QED
          <6>1. kind'[w] = "atomic" /\ pc'[w] = "add" /\ 1..(next'[w] - 1) = {}
            BY <2>3 DEF Claim
          <6>2. \A v \in Workers : Storing(v, a)' => v = w
            BY <2>3, <3>0, <4>1 DEF Claim, Storing
          <6> QED
            BY <5>2, <6>1, <6>2 DEF StoringExact
      <4>2. CASE a \notin target[w]
        BY <2>3, <4>2 DEF Claim, StoringExact, Storing
      <4> QED
        BY <4>1, <4>2
    <3>5. a \notin faulted' => RestingExact(a)'
      BY <2>3 DEF Claim, Exclusive, ClaimHeld, WrittenKept, StoringExact, RestingExact, AtRest, HalfDone, Storing, Deleting, Stored, Deleted, Taken
    <3> QED
      BY <3>1, <3>2, <3>3, <3>4, <3>5
  <2>4. CASE ClaimRefused(w) \/ ClaimFails(w)
    <3>1. Exclusive(a)'
      BY <2>4 DEF ClaimRefused, ClaimFails, Exclusive, ClaimHeld, Taken, Storing, Deleting, Stored, Deleted
    <3>2. ClaimHeld(a)'
      BY <2>4 DEF ClaimRefused, ClaimFails, Exclusive, ClaimHeld, Storing, Deleting, Stored, Deleted
    <3>3. WrittenKept(a)'
      BY <2>4 DEF ClaimRefused, ClaimFails, Exclusive, WrittenKept, Storing, Deleting, Stored, Deleted
    <3>4. a \notin faulted' => StoringExact(a)'
      BY <2>4 DEF ClaimRefused, ClaimFails, Exclusive, ClaimHeld, WrittenKept, StoringExact, RestingExact, AtRest, HalfDone, Storing, Deleting, Stored, Deleted, Taken
    <3>6. AtRest(a)' => AtRest(a)
      BY <2>4 DEF ClaimRefused, ClaimFails, AtRest, HalfDone
    <3>5. a \notin faulted' => RestingExact(a)'
      BY <2>4, <3>6 DEF ClaimRefused, ClaimFails, RestingExact
    <3> QED
      BY <3>1, <3>2, <3>3, <3>4, <3>5
  <2>5. CASE AddSlice(w)
    <3>1. Exclusive(a)'
      BY <2>5 DEF AddSlice, AfterAdd, Exclusive, ClaimHeld, Taken, Storing, Deleting, Stored, Deleted
    <3>2. ClaimHeld(a)'
      BY <2>5 DEF AddSlice, AfterAdd, Exclusive, ClaimHeld, Storing, Deleting, Stored, Deleted
    <3>3. WrittenKept(a)'
      BY <2>5 DEF AddSlice, AfterAdd, Exclusive, WrittenKept, Storing, Deleting, Stored, Deleted
    <3>4. a \notin faulted' => StoringExact(a)'
      <4>1. CASE a \in target[w]
        <5>1. Storing(w, a) /\ \A v \in Workers : Storing(v, a) => v = w
          BY <2>5, <4>1 DEF AddSlice, Storing, Exclusive
        <5>2. a \notin faulted' => chunks'[a] = 1..next[w]
          BY <2>5, <4>1, <5>1 DEF AddSlice, StoringExact
        <5> QED
          BY <2>5, <4>1, <5>1, <5>2 DEF AddSlice, AfterAdd, StoringExact, Storing
      <4>2. CASE a \notin target[w]
        BY <2>5, <4>2 DEF AddSlice, AfterAdd, StoringExact, Storing
      <4> QED
        BY <4>1, <4>2
    <3>5. a \notin faulted' => RestingExact(a)'
      <4>1. CASE a \in target[w]
        <5>1. Storing(w, a)
          BY <2>5, <4>1 DEF AddSlice, Storing
        <5>2. a \notin faulted' /\ AtRest(a)' => kind[w] = "atomic" /\ next[w] = Slices
          BY <2>5, <4>1 DEF AddSlice, AfterAdd, AtRest, HalfDone
        <5>3. a \notin faulted' => chunks'[a] = 1..next[w]
          BY <2>5, <4>1, <5>1 DEF AddSlice, StoringExact
        <5> QED
          BY <2>5, <5>1, <5>2, <5>3 DEF AddSlice, ClaimHeld, RestingExact
      <4>2. CASE a \notin target[w]
        BY <2>5, <4>2 DEF AddSlice, AfterAdd, RestingExact, AtRest, HalfDone
      <4> QED
        BY <4>1, <4>2
    <3> QED
      BY <3>1, <3>2, <3>3, <3>4, <3>5
  <2>6. CASE AddFails(w)
    <3>1. Exclusive(a)'
      BY <2>6 DEF AddFails, AfterUnadd, Exclusive, ClaimHeld, Taken, Storing, Deleting, Stored, Deleted
    <3>2. ClaimHeld(a)'
      BY <2>6 DEF AddFails, AfterUnadd, Exclusive, ClaimHeld, Storing, Deleting, Stored, Deleted
    <3>3. WrittenKept(a)'
      BY <2>6 DEF AddFails, AfterUnadd, Exclusive, WrittenKept, Storing, Deleting, Stored, Deleted
    <3>4. a \notin faulted' => StoringExact(a)'
      BY <2>6 DEF AddFails, AfterUnadd, Exclusive, ClaimHeld, WrittenKept, StoringExact, RestingExact, AtRest, HalfDone, Storing, Deleting, Stored, Deleted, Taken
    <3>5. a \notin faulted' => RestingExact(a)'
      <4>1. CASE a \in target[w]
        <5>1. Storing(w, a)
          BY <2>6, <4>1 DEF AddFails, Storing
        <5>2. AtRest(a)' => kind[w] = "carry" /\ next[w] = 1
          BY <2>6, <4>1 DEF AddFails, AfterUnadd, AtRest, HalfDone
        <5>3. a \notin faulted' => chunks'[a] = 1..(next[w] - 1)
          BY <2>6, <4>1, <5>1 DEF AddFails, StoringExact
        <5> QED
          BY <2>6, <5>1, <5>2, <5>3 DEF AddFails, StoringExact, RestingExact
      <4>2. CASE a \notin target[w]
        BY <2>6, <4>2 DEF AddFails, AfterUnadd, RestingExact, AtRest, HalfDone
      <4> QED
        BY <4>1, <4>2
    <3> QED
      BY <3>1, <3>2, <3>3, <3>4, <3>5
  <2>7. CASE Unadd(w)
    <3>1. Exclusive(a)'
      BY <2>7 DEF Unadd, AfterUnadd, Exclusive, ClaimHeld, Taken, Storing, Deleting, Stored, Deleted
    <3>2. ClaimHeld(a)'
      BY <2>7 DEF Unadd, AfterUnadd, Exclusive, ClaimHeld, Storing, Deleting, Stored, Deleted
    <3>3. WrittenKept(a)'
      BY <2>7 DEF Unadd, AfterUnadd, Exclusive, WrittenKept, Storing, Deleting, Stored, Deleted
    <3>4. a \notin faulted' => StoringExact(a)'
      BY <2>7 DEF Unadd, AfterUnadd, Exclusive, ClaimHeld, WrittenKept, StoringExact, RestingExact, AtRest, HalfDone, Storing, Deleting, Stored, Deleted, Taken
    <3>5. a \notin faulted' => RestingExact(a)'
      <4>1. CASE a \in target[w]
        <5>1. Storing(w, a)
          BY <2>7, <4>1 DEF Unadd, Storing
        <5>2. AtRest(a)' => kind[w] = "carry"
          BY <2>7, <4>1 DEF Unadd, AfterUnadd, AtRest, HalfDone
        <5>3. a \notin faulted' => chunks'[a] = {}
          BY <2>7, <4>1, <5>1 DEF Unadd, StoringExact
        <5> QED
          BY <2>7, <5>1, <5>2, <5>3 DEF Unadd, StoringExact, RestingExact
      <4>2. CASE a \notin target[w]
        BY <2>7, <4>2 DEF Unadd, AfterUnadd, RestingExact, AtRest, HalfDone
      <4> QED
        BY <4>1, <4>2
    <3> QED
      BY <3>1, <3>2, <3>3, <3>4, <3>5
  <2>8. CASE UnaddFails(w)
    <3>1. Exclusive(a)'
      BY <2>8 DEF UnaddFails, AfterUnadd, Exclusive, ClaimHeld, Taken, Storing, Deleting, Stored, Deleted
    <3>2. ClaimHeld(a)'
      BY <2>8 DEF UnaddFails, AfterUnadd, Exclusive, ClaimHeld, Storing, Deleting, Stored, Deleted
    <3>3. WrittenKept(a)'
      BY <2>8 DEF UnaddFails, AfterUnadd, Exclusive, WrittenKept, Storing, Deleting, Stored, Deleted
    <3>4. a \notin faulted' => StoringExact(a)'
      BY <2>8 DEF UnaddFails, AfterUnadd, Exclusive, ClaimHeld, WrittenKept, StoringExact, RestingExact, AtRest, HalfDone, Storing, Deleting, Stored, Deleted, Taken
    <3>5. a \notin faulted' => RestingExact(a)'
      BY <2>8 DEF UnaddFails, AfterUnadd, Exclusive, ClaimHeld, WrittenKept, StoringExact, RestingExact, AtRest, HalfDone, Storing, Deleting, Stored, Deleted, Taken
    <3> QED
      BY <3>1, <3>2, <3>3, <3>4, <3>5
  <2>9. CASE Unclaim(w)
    <3>1. Exclusive(a)'
      BY <2>9 DEF Unclaim, Exclusive, ClaimHeld, Taken, Storing, Deleting, Stored, Deleted
    <3>2. ClaimHeld(a)'
      BY <2>9 DEF Unclaim, Exclusive, ClaimHeld, Storing, Deleting, Stored, Deleted
    <3>3. WrittenKept(a)'
      BY <2>9 DEF Unclaim, Exclusive, WrittenKept, Storing, Deleting, Stored, Deleted
    <3>4. a \notin faulted' => StoringExact(a)'
      BY <2>9 DEF Unclaim, Exclusive, ClaimHeld, WrittenKept, StoringExact, RestingExact, AtRest, HalfDone, Storing, Deleting, Stored, Deleted, Taken
    <3>5. a \notin faulted' => RestingExact(a)'
      BY <2>9, ZenonT(40) DEF Unclaim, Exclusive, ClaimHeld, WrittenKept, StoringExact, RestingExact, AtRest, HalfDone, Storing, Deleting, Stored, Deleted, Taken
    <3> QED
      BY <3>1, <3>2, <3>3, <3>4, <3>5
  <2>10. CASE UnclaimFails(w)
    <3>1. Exclusive(a)'
      BY <2>10 DEF UnclaimFails, Exclusive, ClaimHeld, Taken, Storing, Deleting, Stored, Deleted
    <3>2. ClaimHeld(a)'
      BY <2>10 DEF UnclaimFails, Exclusive, ClaimHeld, Storing, Deleting, Stored, Deleted
    <3>3. WrittenKept(a)'
      BY <2>10 DEF UnclaimFails, Exclusive, WrittenKept, Storing, Deleting, Stored, Deleted
    <3>4. a \notin faulted' => StoringExact(a)'
      BY <2>10 DEF UnclaimFails, Exclusive, ClaimHeld, WrittenKept, StoringExact, RestingExact, AtRest, HalfDone, Storing, Deleting, Stored, Deleted, Taken
    <3>5. a \notin faulted' => RestingExact(a)'
      BY <2>10 DEF UnclaimFails, Exclusive, ClaimHeld, WrittenKept, StoringExact, RestingExact, AtRest, HalfDone, Storing, Deleting, Stored, Deleted, Taken
    <3> QED
      BY <3>1, <3>2, <3>3, <3>4, <3>5
  <2>11. CASE Register(w)
    <3>1. Exclusive(a)'
      BY <2>11 DEF Register, Exclusive, ClaimHeld, Taken, Storing, Deleting, Stored, Deleted
    <3>2. ClaimHeld(a)'
      BY <2>11 DEF Register, Exclusive, ClaimHeld, Storing, Deleting, Stored, Deleted
    <3>3. WrittenKept(a)'
      BY <2>11 DEF Register, Exclusive, WrittenKept, Storing, Deleting, Stored, Deleted
    <3>4. a \notin faulted' => StoringExact(a)'
      BY <2>11 DEF Register, Exclusive, ClaimHeld, WrittenKept, StoringExact, RestingExact, AtRest, HalfDone, Storing, Deleting, Stored, Deleted, Taken
    <3>5. a \notin faulted' => RestingExact(a)'
      <4>1. CASE a \in target[w]
        <5>1. Full \subseteq chunks[a] /\ chunks[a] \subseteq Full
          BY <2>11, <4>1 DEF Register, WrittenKept
        <5> QED
          BY <2>11, <4>1, <5>1 DEF Register, RestingExact
      <4>2. CASE a \notin target[w]
        BY <2>11, <4>2 DEF Register, RestingExact, AtRest, HalfDone
      <4> QED
        BY <4>1, <4>2
    <3> QED
      BY <3>1, <3>2, <3>3, <3>4, <3>5
  <2>12. CASE RegisterFails(w)
    <3>1. Exclusive(a)'
      BY <2>12 DEF RegisterFails, Exclusive, ClaimHeld, Taken, Storing, Deleting, Stored, Deleted
    <3>2. ClaimHeld(a)'
      BY <2>12 DEF RegisterFails, Exclusive, ClaimHeld, Storing, Deleting, Stored, Deleted
    <3>3. WrittenKept(a)'
      BY <2>12 DEF RegisterFails, Exclusive, WrittenKept, Storing, Deleting, Stored, Deleted
    <3>4. a \notin faulted' => StoringExact(a)'
      BY <2>12 DEF RegisterFails, Exclusive, ClaimHeld, WrittenKept, StoringExact, RestingExact, AtRest, HalfDone, Storing, Deleting, Stored, Deleted, Taken
    <3>5. a \notin faulted' => RestingExact(a)'
      BY <2>12 DEF RegisterFails, Exclusive, ClaimHeld, WrittenKept, StoringExact, RestingExact, AtRest, HalfDone, Storing, Deleting, Stored, Deleted, Taken
    <3> QED
      BY <3>1, <3>2, <3>3, <3>4, <3>5
  <2>13. CASE Undo(w)
    <3>1. Exclusive(a)'
      BY <2>13 DEF Undo, Exclusive, ClaimHeld, Taken, Storing, Deleting, Stored, Deleted
    <3>2. ClaimHeld(a)'
      BY <2>13 DEF Undo, Exclusive, ClaimHeld, Storing, Deleting, Stored, Deleted
    <3>3. WrittenKept(a)'
      BY <2>13 DEF Undo, Exclusive, WrittenKept, Storing, Deleting, Stored, Deleted
    <3>4. a \notin faulted' => StoringExact(a)'
      BY <2>13 DEF Undo, Exclusive, ClaimHeld, WrittenKept, StoringExact, RestingExact, AtRest, HalfDone, Storing, Deleting, Stored, Deleted, Taken
    <3>5. a \notin faulted' => RestingExact(a)'
      <4>1. CASE a \in target[w]
        <5>1. chunks'[a] = {} /\ rows' = rows
          BY <2>13, <4>1 DEF Undo
        <5>2. a \notin faulted => a \notin rows
          BY <2>13, <4>1 DEF Undo, StoringExact, Storing, Control
        <5> QED
          BY <2>13, <5>1, <5>2 DEF Undo, RestingExact
      <4>2. CASE a \notin target[w]
        <5>1. chunks'[a] = chunks[a] /\ rows' = rows /\ faulted' = faulted
          BY <2>13, <4>2 DEF Undo
        <5>2. AtRest(a)' => AtRest(a)
          BY <2>13, <4>2 DEF Undo, AtRest, HalfDone
        <5> QED
          BY <5>1, <5>2 DEF RestingExact
      <4> QED
        BY <4>1, <4>2
    <3> QED
      BY <3>1, <3>2, <3>3, <3>4, <3>5
  <2>14. CASE UndoFails(w)
    <3>1. Exclusive(a)'
      BY <2>14 DEF UndoFails, Exclusive, ClaimHeld, Taken, Storing, Deleting, Stored, Deleted
    <3>2. ClaimHeld(a)'
      BY <2>14 DEF UndoFails, Exclusive, ClaimHeld, Storing, Deleting, Stored, Deleted
    <3>3. WrittenKept(a)'
      BY <2>14 DEF UndoFails, Exclusive, WrittenKept, Storing, Deleting, Stored, Deleted
    <3>4. a \notin faulted' => StoringExact(a)'
      BY <2>14 DEF UndoFails, Exclusive, ClaimHeld, WrittenKept, StoringExact, RestingExact, AtRest, HalfDone, Storing, Deleting, Stored, Deleted, Taken
    <3>5. a \notin faulted' => RestingExact(a)'
      BY <2>14 DEF UndoFails, Exclusive, ClaimHeld, WrittenKept, StoringExact, RestingExact, AtRest, HalfDone, Storing, Deleting, Stored, Deleted, Taken
    <3> QED
      BY <3>1, <3>2, <3>3, <3>4, <3>5
  <2> QED
    BY <1>1, <2>1, <2>2, <2>3, <2>4, <2>5, <2>6, <2>7, <2>8, <2>9, <2>10, <2>11, <2>12, <2>13, <2>14 DEF StoreStep
<1>2. ASSUME NEW w \in Workers, DeleteStep(w) PROVE Exclusive(a)' /\ ClaimHeld(a)' /\ WrittenKept(a)' /\ (a \notin faulted' => StoringExact(a)' /\ RestingExact(a)')
  <2>1. CASE \E S \in SUBSET Accessions \ {{}} : DeleteRequest(w, S)
    <3>1. Exclusive(a)'
      BY <2>1 DEF DeleteRequest, Exclusive, ClaimHeld, Taken, Storing, Deleting, Stored, Deleted
    <3>2. ClaimHeld(a)'
      BY <2>1 DEF DeleteRequest, Exclusive, ClaimHeld, Storing, Deleting, Stored, Deleted
    <3>3. WrittenKept(a)'
      BY <2>1 DEF DeleteRequest, Exclusive, WrittenKept, Storing, Deleting, Stored, Deleted
    <3>4. a \notin faulted' => StoringExact(a)'
      BY <2>1 DEF DeleteRequest, Exclusive, ClaimHeld, WrittenKept, StoringExact, RestingExact, AtRest, HalfDone, Storing, Deleting, Stored, Deleted, Taken
    <3>5. a \notin faulted' => RestingExact(a)'
      BY <2>1 DEF DeleteRequest, Exclusive, ClaimHeld, WrittenKept, StoringExact, RestingExact, AtRest, HalfDone, Storing, Deleting, Stored, Deleted, Taken
    <3> QED
      BY <3>1, <3>2, <3>3, <3>4, <3>5
  <2>2. CASE \E S \in SUBSET Accessions \ {{}} : DeleteBatch(w, S)
    <3>1. Exclusive(a)'
      BY <2>2 DEF DeleteBatch, Exclusive, ClaimHeld, Taken, Storing, Deleting, Stored, Deleted
    <3>2. ClaimHeld(a)'
      BY <2>2 DEF DeleteBatch, Exclusive, ClaimHeld, Storing, Deleting, Stored, Deleted
    <3>3. WrittenKept(a)'
      BY <2>2 DEF DeleteBatch, Exclusive, WrittenKept, Storing, Deleting, Stored, Deleted
    <3>4. a \notin faulted' => StoringExact(a)'
      BY <2>2 DEF DeleteBatch, Exclusive, ClaimHeld, WrittenKept, StoringExact, RestingExact, AtRest, HalfDone, Storing, Deleting, Stored, Deleted, Taken
    <3>5. a \notin faulted' => RestingExact(a)'
      BY <2>2 DEF DeleteBatch, Exclusive, ClaimHeld, WrittenKept, StoringExact, RestingExact, AtRest, HalfDone, Storing, Deleting, Stored, Deleted, Taken
    <3> QED
      BY <3>1, <3>2, <3>3, <3>4, <3>5
  <2>3. CASE LookUp(w)
    <3>1. Exclusive(a)'
      BY <2>3 DEF LookUp, Exclusive, ClaimHeld, Taken, Storing, Deleting, Stored, Deleted
    <3>2. ClaimHeld(a)'
      BY <2>3 DEF LookUp, Exclusive, ClaimHeld, Storing, Deleting, Stored, Deleted
    <3>3. WrittenKept(a)'
      BY <2>3 DEF LookUp, Exclusive, WrittenKept, Storing, Deleting, Stored, Deleted
    <3>4. a \notin faulted' => StoringExact(a)'
      BY <2>3 DEF LookUp, Exclusive, ClaimHeld, WrittenKept, StoringExact, RestingExact, AtRest, HalfDone, Storing, Deleting, Stored, Deleted, Taken
    <3>5. a \notin faulted' => RestingExact(a)'
      BY <2>3 DEF LookUp, Exclusive, ClaimHeld, WrittenKept, StoringExact, RestingExact, AtRest, HalfDone, Storing, Deleting, Stored, Deleted, Taken
    <3> QED
      BY <3>1, <3>2, <3>3, <3>4, <3>5
  <2>4. CASE EvictExpired(w)
    <3>1. Exclusive(a)'
      BY <2>4 DEF EvictExpired, Exclusive, ClaimHeld, Taken, Storing, Deleting, Stored, Deleted
    <3>2. ClaimHeld(a)'
      BY <2>4 DEF EvictExpired, Exclusive, ClaimHeld, Storing, Deleting, Stored, Deleted
    <3>3. WrittenKept(a)'
      BY <2>4 DEF EvictExpired, Exclusive, WrittenKept, Storing, Deleting, Stored, Deleted
    <3>4. a \notin faulted' => StoringExact(a)'
      BY <2>4 DEF EvictExpired, Exclusive, ClaimHeld, WrittenKept, StoringExact, RestingExact, AtRest, HalfDone, Storing, Deleting, Stored, Deleted, Taken
    <3>5. a \notin faulted' => RestingExact(a)'
      BY <2>4 DEF EvictExpired, Exclusive, ClaimHeld, WrittenKept, StoringExact, RestingExact, AtRest, HalfDone, Storing, Deleting, Stored, Deleted, Taken
    <3> QED
      BY <3>1, <3>2, <3>3, <3>4, <3>5
  <2>5. CASE DeleteIndex(w)
    <3>1. Exclusive(a)'
      BY <2>5 DEF DeleteIndex, Exclusive, ClaimHeld, Taken, Storing, Deleting, Stored, Deleted
    <3>2. ClaimHeld(a)'
      BY <2>5 DEF DeleteIndex, Exclusive, ClaimHeld, Storing, Deleting, Stored, Deleted
    <3>3. WrittenKept(a)'
      BY <2>5 DEF DeleteIndex, Exclusive, WrittenKept, Storing, Deleting, Stored, Deleted
    <3>4. a \notin faulted' => StoringExact(a)'
      BY <2>5 DEF DeleteIndex, Exclusive, ClaimHeld, WrittenKept, StoringExact, RestingExact, AtRest, HalfDone, Storing, Deleting, Stored, Deleted, Taken
    <3>5. a \notin faulted' => RestingExact(a)'
      <4>0. pc[w] = "index" /\ pc'[w] = "rows" /\ rows' = rows /\ faulted' = faulted
        BY <2>5 DEF DeleteIndex
      <4>1. CASE a \in target[w]
        <5>1. ~AtRest(a)'
          BY <2>5, <4>0, <4>1 DEF DeleteIndex, AtRest, HalfDone
        <5> QED
          BY <5>1 DEF RestingExact
      <4>2. CASE a \notin target[w]
        <5>1. (AtRest(a)' => AtRest(a)) /\ chunks'[a] = chunks[a]
          BY <2>5, <4>0, <4>2 DEF DeleteIndex, AtRest, HalfDone
        <5> QED
          BY <4>0, <5>1 DEF RestingExact
      <4> QED
        BY <4>1, <4>2
    <3> QED
      BY <3>1, <3>2, <3>3, <3>4, <3>5
  <2>6. CASE DeleteIndexFails(w)
    <3>1. Exclusive(a)'
      BY <2>6 DEF DeleteIndexFails, Exclusive, ClaimHeld, Taken, Storing, Deleting, Stored, Deleted
    <3>2. ClaimHeld(a)'
      BY <2>6 DEF DeleteIndexFails, Exclusive, ClaimHeld, Storing, Deleting, Stored, Deleted
    <3>3. WrittenKept(a)'
      BY <2>6 DEF DeleteIndexFails, Exclusive, WrittenKept, Storing, Deleting, Stored, Deleted
    <3>4. a \notin faulted' => StoringExact(a)'
      BY <2>6 DEF DeleteIndexFails, Exclusive, ClaimHeld, WrittenKept, StoringExact, RestingExact, AtRest, HalfDone, Storing, Deleting, Stored, Deleted, Taken
    <3>5. a \notin faulted' => RestingExact(a)'
      BY <2>6 DEF DeleteIndexFails, Exclusive, ClaimHeld, WrittenKept, StoringExact, RestingExact, AtRest, HalfDone, Storing, Deleting, Stored, Deleted, Taken
    <3> QED
      BY <3>1, <3>2, <3>3, <3>4, <3>5
  <2>7. CASE DeleteRows(w)
    <3>1. Exclusive(a)'
      BY <2>7 DEF DeleteRows, Exclusive, ClaimHeld, Taken, Storing, Deleting, Stored, Deleted
    <3>2. ClaimHeld(a)'
      BY <2>7 DEF DeleteRows, Exclusive, ClaimHeld, Storing, Deleting, Stored, Deleted
    <3>3. WrittenKept(a)'
      BY <2>7 DEF DeleteRows, Exclusive, WrittenKept, Storing, Deleting, Stored, Deleted
    <3>4. a \notin faulted' => StoringExact(a)'
      BY <2>7 DEF DeleteRows, Exclusive, ClaimHeld, WrittenKept, StoringExact, RestingExact, AtRest, HalfDone, Storing, Deleting, Stored, Deleted, Taken
    <3>5. a \notin faulted' => RestingExact(a)'
      <4>1. CASE a \in target[w]
        <5>1. chunks[a] = {} /\ a \notin rows'
          BY <2>7, <4>1 DEF DeleteRows, WrittenKept
        <5> QED
          BY <2>7, <5>1 DEF DeleteRows, RestingExact
      <4>2. CASE a \notin target[w]
        <5>1. AtRest(a)' => AtRest(a)
          BY <2>7, <4>2 DEF DeleteRows, AtRest, HalfDone
        <5> QED
          BY <2>7, <4>2, <5>1 DEF DeleteRows, RestingExact
      <4> QED
        BY <4>1, <4>2
    <3> QED
      BY <3>1, <3>2, <3>3, <3>4, <3>5
  <2>8. CASE DeleteRowsFails(w)
    <3>1. Exclusive(a)'
      BY <2>8 DEF DeleteRowsFails, Exclusive, ClaimHeld, Taken, Storing, Deleting, Stored, Deleted
    <3>2. ClaimHeld(a)'
      BY <2>8 DEF DeleteRowsFails, Exclusive, ClaimHeld, Storing, Deleting, Stored, Deleted
    <3>3. WrittenKept(a)'
      BY <2>8 DEF DeleteRowsFails, Exclusive, WrittenKept, Storing, Deleting, Stored, Deleted
    <3>4. a \notin faulted' => StoringExact(a)'
      BY <2>8 DEF DeleteRowsFails, Exclusive, ClaimHeld, WrittenKept, StoringExact, RestingExact, AtRest, HalfDone, Storing, Deleting, Stored, Deleted, Taken
    <3>5. a \notin faulted' => RestingExact(a)'
      BY <2>8 DEF DeleteRowsFails, Exclusive, ClaimHeld, WrittenKept, StoringExact, RestingExact, AtRest, HalfDone, Storing, Deleting, Stored, Deleted, Taken
    <3> QED
      BY <3>1, <3>2, <3>3, <3>4, <3>5
  <2>9. CASE ClearAll(w)
    <3>1. Exclusive(a)'
      BY <2>9 DEF ClearAll, Exclusive, ClaimHeld, Taken, Storing, Deleting, Stored, Deleted
    <3>2. ClaimHeld(a)'
      BY <2>9 DEF ClearAll, Exclusive, ClaimHeld, Storing, Deleting, Stored, Deleted
    <3>3. WrittenKept(a)'
      BY <2>9 DEF ClearAll, Exclusive, WrittenKept, Storing, Deleting, Stored, Deleted
    <3>4. a \notin faulted' => StoringExact(a)'
      BY <2>9 DEF ClearAll, Exclusive, ClaimHeld, WrittenKept, StoringExact, RestingExact, AtRest, HalfDone, Storing, Deleting, Stored, Deleted, Taken
    <3>5. a \notin faulted' => RestingExact(a)'
      BY <2>9 DEF ClearAll, Exclusive, ClaimHeld, WrittenKept, StoringExact, RestingExact, AtRest, HalfDone, Storing, Deleting, Stored, Deleted, Taken
    <3> QED
      BY <3>1, <3>2, <3>3, <3>4, <3>5
  <2>10. CASE DropCollection(w)
    <3>0. \A v \in Workers : ~Storing(v, a)
      BY <2>10 DEF DropCollection, Stored
    <3>1. CASE \A b \in Accessions : chunks[b] = {}
      <4>1. pc' = [pc EXCEPT ![w] = "rows"] /\ UNCHANGED <<data, faulted, kind, target, next>>
        BY <2>10, <3>1 DEF DropCollection
      <4>2. pc[w] = "drop"
        BY <2>10 DEF DropCollection
      <4>3. Exclusive(a)' /\ ClaimHeld(a)'
        BY <3>0, <4>1, <4>2 DEF Exclusive, ClaimHeld, Storing, Deleting
      <4>4. WrittenKept(a)'
        BY <3>1, <4>1, <4>2 DEF WrittenKept
      <4>5. a \notin faulted' => StoringExact(a)' /\ RestingExact(a)'
        BY <4>1, <4>2 DEF StoringExact, RestingExact, AtRest, HalfDone, Storing
      <4> QED
        BY <4>3, <4>4, <4>5
    <3>2. CASE ~\A b \in Accessions : chunks[b] = {}
      <4>1. /\ pc' = [pc EXCEPT ![w] = "create"] /\ chunks' = [b \in Accessions |-> {}]
            /\ UNCHANGED <<rows, faulted, kind, target, next>>
        BY <2>10, <3>2 DEF DropCollection
      <4>2. pc[w] = "drop" /\ kind[w] = "clear"
        BY <2>10 DEF DropCollection
      <4>3. Exclusive(a)' /\ ClaimHeld(a)'
        BY <3>0, <4>1, <4>2 DEF Exclusive, ClaimHeld, Storing, Deleting
      <4>5. WrittenKept(a)'
        BY <3>0, <4>1, <4>2 DEF WrittenKept, Storing
      <4>6. a \notin faulted' => StoringExact(a)' /\ RestingExact(a)'
        BY <3>0, <4>1, <4>2 DEF StoringExact, RestingExact, AtRest, HalfDone, Storing
      <4> QED
        BY <4>3, <4>5, <4>6
    <3> QED
      BY <3>1, <3>2
  <2>11. CASE DropFails(w)
    <3>1. Exclusive(a)'
      BY <2>11 DEF DropFails, Exclusive, ClaimHeld, Taken, Storing, Deleting, Stored, Deleted
    <3>2. ClaimHeld(a)'
      BY <2>11 DEF DropFails, Exclusive, ClaimHeld, Storing, Deleting, Stored, Deleted
    <3>3. WrittenKept(a)'
      BY <2>11 DEF DropFails, Exclusive, WrittenKept, Storing, Deleting, Stored, Deleted
    <3>4. a \notin faulted' => StoringExact(a)'
      BY <2>11 DEF DropFails, Exclusive, ClaimHeld, WrittenKept, StoringExact, RestingExact, AtRest, HalfDone, Storing, Deleting, Stored, Deleted, Taken
    <3>5. a \notin faulted' => RestingExact(a)'
      BY <2>11 DEF DropFails, Exclusive, ClaimHeld, WrittenKept, StoringExact, RestingExact, AtRest, HalfDone, Storing, Deleting, Stored, Deleted, Taken
    <3> QED
      BY <3>1, <3>2, <3>3, <3>4, <3>5
  <2>12. CASE CreateCollection(w)
    <3>1. Exclusive(a)'
      BY <2>12 DEF CreateCollection, Exclusive, ClaimHeld, Taken, Storing, Deleting, Stored, Deleted
    <3>2. ClaimHeld(a)'
      BY <2>12 DEF CreateCollection, Exclusive, ClaimHeld, Storing, Deleting, Stored, Deleted
    <3>3. WrittenKept(a)'
      BY <2>12 DEF CreateCollection, Exclusive, WrittenKept, Storing, Deleting, Stored, Deleted
    <3>4. a \notin faulted' => StoringExact(a)'
      BY <2>12 DEF CreateCollection, Exclusive, ClaimHeld, WrittenKept, StoringExact, RestingExact, AtRest, HalfDone, Storing, Deleting, Stored, Deleted, Taken
    <3>5. a \notin faulted' => RestingExact(a)'
      BY <2>12 DEF CreateCollection, Exclusive, ClaimHeld, WrittenKept, StoringExact, RestingExact, AtRest, HalfDone, Storing, Deleting, Stored, Deleted, Taken
    <3> QED
      BY <3>1, <3>2, <3>3, <3>4, <3>5
  <2>14. CASE \E S \in SUBSET target[w] : DeleteRowsBatch(w, S)
    <3>0. PICK S \in SUBSET target[w] : DeleteRowsBatch(w, S)
      BY <2>14
    <3>1. Exclusive(a)'
      BY <3>0 DEF DeleteRowsBatch, Exclusive, Storing, Deleting
    <3>2. ClaimHeld(a)'
      BY <3>0 DEF DeleteRowsBatch, Exclusive, ClaimHeld, Storing, Deleting
    <3>3. WrittenKept(a)'
      BY <3>0 DEF DeleteRowsBatch, WrittenKept
    <3>4. a \notin faulted' => StoringExact(a)'
      BY <3>0 DEF DeleteRowsBatch, StoringExact, Storing
    <3>5. a \notin faulted' => RestingExact(a)'
      <4>1. CASE a \in S
        <5>1. chunks[a] = {} /\ a \notin rows'
          BY <3>0, <4>1 DEF DeleteRowsBatch, WrittenKept
        <5> QED
          BY <3>0, <5>1 DEF DeleteRowsBatch, RestingExact
      <4>2. CASE a \notin S
        <5>1. AtRest(a)' => AtRest(a)
          BY <3>0, <4>2 DEF DeleteRowsBatch, AtRest, HalfDone
        <5> QED
          BY <3>0, <4>2, <5>1 DEF DeleteRowsBatch, RestingExact
      <4> QED
        BY <4>1, <4>2
    <3> QED
      BY <3>1, <3>2, <3>3, <3>4, <3>5
  <2>13. CASE CreateFails(w)
    <3>1. Exclusive(a)'
      BY <2>13 DEF CreateFails, Exclusive, ClaimHeld, Taken, Storing, Deleting, Stored, Deleted
    <3>2. ClaimHeld(a)'
      BY <2>13 DEF CreateFails, Exclusive, ClaimHeld, Storing, Deleting, Stored, Deleted
    <3>3. WrittenKept(a)'
      BY <2>13 DEF CreateFails, Exclusive, WrittenKept, Storing, Deleting, Stored, Deleted
    <3>4. a \notin faulted' => StoringExact(a)'
      BY <2>13 DEF CreateFails, Exclusive, ClaimHeld, WrittenKept, StoringExact, RestingExact, AtRest, HalfDone, Storing, Deleting, Stored, Deleted, Taken
    <3>5. a \notin faulted' => RestingExact(a)'
      BY <2>13 DEF CreateFails, Exclusive, ClaimHeld, WrittenKept, StoringExact, RestingExact, AtRest, HalfDone, Storing, Deleting, Stored, Deleted, Taken
    <3> QED
      BY <3>1, <3>2, <3>3, <3>4, <3>5
  <2> QED
    BY <1>2, <2>1, <2>2, <2>3, <2>4, <2>5, <2>6, <2>7, <2>8, <2>9, <2>10, <2>11, <2>12, <2>13, <2>14 DEF DeleteStep
<1>3. ASSUME Environment PROVE Exclusive(a)' /\ ClaimHeld(a)' /\ WrittenKept(a)' /\ (a \notin faulted' => StoringExact(a)' /\ RestingExact(a)')
  <2>1. ASSUME NEW w \in Workers, CutOff(w)
        PROVE  /\ Exclusive(a)' /\ ClaimHeld(a)' /\ WrittenKept(a)'
               /\ a \notin faulted' => StoringExact(a)' /\ RestingExact(a)'
    <3>1. Exclusive(a)'
      BY <2>1 DEF CutOff, Exclusive, Storing, Deleting
    <3>2. ClaimHeld(a)'
      BY <2>1 DEF CutOff, ClaimHeld, Storing
    <3>3. WrittenKept(a)'
      BY <2>1 DEF CutOff, WrittenKept
    <3>4. a \notin faulted' => StoringExact(a)'
      BY <2>1 DEF CutOff, StoringExact, Storing
    <3>5. a \notin faulted' => (AtRest(a)' => AtRest(a))
      BY <2>1 DEF CutOff, AtRest, HalfDone
    <3>6. a \notin faulted' => RestingExact(a)'
      BY <2>1, <3>5 DEF CutOff, RestingExact
    <3> QED
      BY <3>1, <3>2, <3>3, <3>4, <3>6
  <2>2. CASE (\E b \in Accessions : GrowOld(b)) \/ \E L \in SUBSET unsynced : Crash(L)
    BY <2>2, ZenonT(40) DEF GrowOld, Crash, Interrupted, HalfDone, Exclusive, ClaimHeld, WrittenKept, StoringExact, RestingExact, AtRest, Storing, Deleting
  <2> QED
    BY <1>3, <2>1, <2>2 DEF Environment
<1>4. CASE UNCHANGED vars
  BY <1>4 DEF vars, HalfDone, Exclusive, ClaimHeld, WrittenKept, StoringExact, RestingExact, AtRest, Storing, Deleting
<1> QED
  BY <1>1, <1>2, <1>3, <1>4 DEF Next

\* The two history variables only grow: an excuse is never taken back.
LEMMA HistoryGrows ==
  ASSUME TypeOK, [Next]_vars
  PROVE  overlapped \subseteq overlapped' /\ faulted \subseteq faulted'
<1>1. ASSUME NEW w \in Workers, StoreStep(w) PROVE overlapped \subseteq overlapped' /\ faulted \subseteq faulted'
  BY <1>1 DEF StoreStep, StoreAtomic, StoreCarryOver, Claim, ClaimRefused, ClaimFails, AddSlice, AddFails,
     Unadd, UnaddFails, Unclaim, UnclaimFails, Register, RegisterFails, Undo, UndoFails, hist
<1>2. ASSUME NEW w \in Workers, DeleteStep(w) PROVE overlapped \subseteq overlapped' /\ faulted \subseteq faulted'
  BY <1>2 DEF DeleteStep, DeleteRequest, DeleteBatch, LookUp, EvictExpired, DeleteIndex, DeleteIndexFails,
     DeleteRowsBatch, DeleteRows, DeleteRowsFails, ClearAll, DropCollection, DropFails, CreateCollection, CreateFails, hist, TypeOK
<1>3. ASSUME Environment PROVE overlapped \subseteq overlapped' /\ faulted \subseteq faulted'
  BY <1>3 DEF Environment, GrowOld, CutOff, Crash, hist
<1>4. CASE UNCHANGED vars
  BY <1>4 DEF vars, hist
<1> QED
  BY <1>1, <1>2, <1>3, <1>4 DEF Next

\* The empty store satisfies the inductive invariant.
LEMMA InitStoreInv == Init => StoreInv
<1> SUFFICES ASSUME Init PROVE StoreInv
  OBVIOUS
<1>1. TypeOK
  BY StoreAssumption DEF Init, TypeOK, Steps, Kinds, Full
<1>2. Control
  BY DEF Init, Control
<1>3. \A a \in Accessions : Exclusive(a) /\ ClaimHeld(a) /\ WrittenKept(a)
  BY DEF Init, Exclusive, ClaimHeld, WrittenKept, Storing
<1>4. \A a \in Accessions : StoringExact(a) /\ RestingExact(a)
  BY DEF Init, StoringExact, RestingExact, Storing
<1> QED
  BY <1>1, <1>2, <1>3, <1>4 DEF StoreInv

\* The store's inductive invariant.
LEMMA StepStoreInv == StoreInv /\ [Next]_vars => StoreInv'
<1> SUFFICES ASSUME StoreInv, [Next]_vars PROVE StoreInv'
  OBVIOUS
<1>1. TypeOK' /\ Control'
  BY TypeStep, ControlStep DEF StoreInv
<1>2. ASSUME NEW a \in Accessions, a \notin overlapped'
      PROVE  /\ Exclusive(a)' /\ ClaimHeld(a)' /\ WrittenKept(a)'
             /\ a \notin faulted' => StoringExact(a)' /\ RestingExact(a)'
  <2>1. a \notin overlapped
    BY <1>2, HistoryGrows DEF StoreInv
  <2> QED
    BY <1>2, <2>1, FilingStep DEF StoreInv
<1> QED
  BY <1>1, <1>2 DEF StoreInv

\* Every reachable state satisfies the invariant.
THEOREM StoreInvariant == Spec => []StoreInv
BY InitStoreInv, StepStoreInv, PTL DEF Spec

\* The state variables keep their types.
THEOREM StoreTypeCorrect == Spec => []TypeOK
<1>1. StoreInv => TypeOK
  BY DEF StoreInv
<1> QED
  BY <1>1, StoreInvariant, PTL

\* Concurrent claimants converge on one writer, for every number of them.
THEOREM StoreOneWriter == Spec => []OneWriterPerFiling
<1>1. StoreInv => OneWriterPerFiling
  BY DEF StoreInv, OneWriterPerFiling, Exclusive, ClaimHeld
<1> QED
  BY <1>1, StoreInvariant, PTL

\* The two stores disagree about a filing no call is at work on only after an
\* overlap, a failed second step or a crash between two steps.
THEOREM StoreAgreement == Spec => []StoresAgree
<1>1. StoreInv => StoresAgree
  BY DEF StoreInv, StoresAgree, RestingExact
<1> QED
  BY <1>1, StoreInvariant, PTL

\* A delete that succeeds leaves nothing of the filing, whatever was there.
THEOREM StoreDeleteComplete == Spec => DeleteLeavesNothing
<1>1. StoreInv /\ [Next]_vars =>
        [\A w \in Workers : (DeleteRows(w) \/ \E S \in SUBSET target[w] : DeleteRowsBatch(w, S)) =>
           \A a \in target[w] \ (target'[w] \cup overlapped) : a \notin rows' /\ chunks'[a] = {}]_vars
  <2> SUFFICES ASSUME StoreInv, NEW w \in Workers,
                      DeleteRows(w) \/ \E S \in SUBSET target[w] : DeleteRowsBatch(w, S),
                      NEW a \in target[w], a \notin target'[w], a \notin overlapped
               PROVE  a \notin rows' /\ chunks'[a] = {}
    OBVIOUS
  <2>1. a \in Accessions
    BY DEF StoreInv, TypeOK
  <2>2. pc[w] = "rows" /\ chunks' = chunks
    BY DEF DeleteRows, DeleteRowsBatch, At
  <2>3. chunks'[a] = {}
    BY <2>1, <2>2 DEF StoreInv, WrittenKept
  <2>4. a \notin rows'
    BY DEF DeleteRows, DeleteRowsBatch, StoreInv, TypeOK
  <2> QED
    BY <2>3, <2>4
<1> QED
  BY <1>1, StoreInvariant, PTL DEF Spec, DeleteLeavesNothing

\* A store that returns True has put the row and every chunk in place.
THEOREM StoreStoreComplete == Spec => StoreMakesBoth
<1>1. StoreInv /\ [Next]_vars =>
        [\A w \in Workers : (AddSlice(w) \/ Register(w)) /\ pc'[w] = "idle" =>
           \A a \in target[w] \ overlapped : a \in rows' /\ chunks'[a] = Full]_vars
  <2> SUFFICES ASSUME StoreInv, NEW w \in Workers, AddSlice(w) \/ Register(w), pc'[w] = "idle",
                      NEW a \in target[w], a \notin overlapped
               PROVE  a \in rows' /\ chunks'[a] = Full
    OBVIOUS
  <2>1. a \in Accessions /\ WrittenKept(a) /\ ClaimHeld(a) /\ chunks[a] \subseteq Full
    BY DEF StoreInv, TypeOK
  <2>2. CASE AddSlice(w)
    <3>1. kind[w] = "atomic" /\ next[w] = Slices /\ pc[w] = "add"
      BY <2>2 DEF AddSlice, AfterAdd, GoTo, At, StoreInv, TypeOK, Control
    <3>2. 1..(Slices - 1) \subseteq chunks[a] /\ a \in rows
      BY <2>1, <3>1 DEF WrittenKept, ClaimHeld, Storing
    <3>3. rows' = rows /\ chunks'[a] = chunks[a] \cup {Slices}
      BY <2>1, <2>2, <3>1 DEF AddSlice
    <3>4. 1..Slices = 1..(Slices - 1) \cup {Slices}
      BY StoreAssumption
    <3> QED
      BY <2>1, <3>2, <3>3, <3>4 DEF Full
  <2>3. CASE Register(w)
    BY <2>1, <2>3 DEF Register, At, WrittenKept, Full
  <2> QED
    BY <2>2, <2>3
<1> QED
  BY <1>1, StoreInvariant, PTL DEF Spec, StoreMakesBoth

\* A call that reports success has done all of it.
THEOREM StoreCallsComplete == Spec => CallsComplete
  BY StoreDeleteComplete, StoreStoreComplete, PTL DEF CallsComplete

-----------------------------------------------------------------------------
(* The collection and its seal, under services and a re-index run.         *)

\* Induction on the natural numbers, over a set.
LEMMA SetInduction ==
  ASSUME NEW S, 0 \in S, \A n \in Nat : n \in S => n + 1 \in S
  PROVE  Nat \subseteq S
<1> DEFINE R == OpToRel(<, Nat)
<1>1. IsWellFoundedOn(R, Nat)
  BY NatLessThanWellFounded, Zenon
<1>2. \A x, y \in Nat : x < y => <<x, y>> \in R
  BY DEF OpToRel
<1> HIDE DEF R
<1>3. SUFFICES ASSUME Nat \ S # {} PROVE FALSE
  OBVIOUS
<1>4. PICK x \in Nat \ S : \A y \in Nat \ S : ~(<<y, x>> \in R)
  BY <1>1, <1>3, WFMin
<1>5. x # 0 /\ x - 1 \in Nat /\ x - 1 < x /\ (x - 1) + 1 = x
  BY <1>4
<1>6. x - 1 \notin Nat \ S
  BY <1>2, <1>4, <1>5
<1> QED BY <1>4, <1>5, <1>6

\* One row more: it is kept, unless its chunk is among the ids.
OneMore(kept, row, ids) == IF row.chunk \in ids THEN kept ELSE Append(kept, row)
\* kept is what the rows leave of the first 0, 1, ... n of them.
KeptRows(kept, list, ids, n) ==
  kept = [i \in 0..n |-> IF i = 0 THEN <<>> ELSE OneMore(kept[i - 1], list[i], ids)]

\* The rows of other chunks are taken one after the other.
LEMMA KeptRowsAre ==
  ASSUME NEW list, NEW ids, Len(list) \in Nat
  PROVE  \E kept : KeptRows(kept, list, ids, Len(list)) /\ RowsBut(list, ids) = kept[Len(list)]
<1> DEFINE S == {n \in Nat : \E f : KeptRows(f, list, ids, n)}
<1>1. 0 \in S
  <2> DEFINE f == [i \in 0..0 |-> <<>>]
  <2>1. KeptRows(f, list, ids, 0)
    BY DEF KeptRows
  <2> QED BY <2>1
<1>2. ASSUME NEW n \in Nat, n \in S PROVE n + 1 \in S
  <2>1. PICK f : KeptRows(f, list, ids, n)
    BY <1>2
  <2> DEFINE g == [i \in 0..n + 1 |-> IF i = n + 1 THEN OneMore(f[n], list[n + 1], ids) ELSE f[i]]
  <2>2. n + 1 \in Nat /\ n \in 0..n /\ 0..n + 1 = (0..n) \cup {n + 1} /\ n + 1 \notin 0..n
    OBVIOUS
  <2>3. g[n + 1] = OneMore(f[n], list[n + 1], ids) /\ \A i \in 0..n : g[i] = f[i]
    BY <2>2, Zenon
  <2>4. \A i \in 0..n : f[i] = IF i = 0 THEN <<>> ELSE OneMore(f[i - 1], list[i], ids)
    BY <2>1, Zenon DEF KeptRows
  <2>5. DOMAIN g = 0..n + 1 /\ g = [i \in 0..n + 1 |-> g[i]]
    OBVIOUS
  <2> HIDE DEF g
  <2>6. ASSUME NEW i \in 0..n + 1
        PROVE  g[i] = IF i = 0 THEN <<>> ELSE OneMore(g[i - 1], list[i], ids)
    <3>1. CASE i = n + 1
      <4>1. i # 0 /\ i - 1 = n
        BY <3>1
      <4> QED BY <2>2, <2>3, <3>1, <4>1, Zenon
    <3>2. CASE i \in 0..n /\ i # 0
      <4>1. i - 1 \in 0..n
        BY <3>2
      <4> QED BY <2>3, <2>4, <3>2, <4>1, Zenon
    <3>3. CASE i = 0
      <4>1. 0 \in 0..n
        OBVIOUS
      <4> QED BY <2>3, <2>4, <3>3, <4>1, Zenon
    <3> QED BY <2>2, <3>1, <3>2, <3>3, Zenon
  <2>7. KeptRows(g, list, ids, n + 1)
    BY <2>5, <2>6, Zenon DEF KeptRows
  <2> QED BY <2>2, <2>7, Zenon
<1>3. Len(list) \in S
  <2> HIDE DEF S
  <2> QED BY <1>1, <1>2, SetInduction
<1>4. \E kept : KeptRows(kept, list, ids, Len(list))
  BY <1>3
<1>5. \E kept : KeptRows(kept, list, ids, Len(list)) /\ RowsBut(list, ids) = kept[Len(list)]
  BY <1>4, Zenon DEF RowsBut, KeptRows, OneMore
<1> QED BY <1>5

\* What of a sequence of rows is of no chunk in ids.
LEMMA RowsButAre ==
  ASSUME NEW list \in Seq(Rows), NEW ids
  PROVE  LET r == RowsBut(list, ids)
         IN  /\ r \in Seq(Rows)
             /\ \A i \in 1..Len(r) : \E j \in 1..Len(list) : r[i] = list[j] /\ list[j].chunk \notin ids
             /\ \A j \in 1..Len(list) : list[j].chunk \notin ids => \E i \in 1..Len(r) : r[i] = list[j]
<1>1. Len(list) \in Nat /\ \A i \in 1..Len(list) : list[i] \in Rows
  OBVIOUS
<1>2. PICK f : KeptRows(f, list, ids, Len(list)) /\ RowsBut(list, ids) = f[Len(list)]
  BY <1>1, KeptRowsAre
<1> DEFINE Fits(r, n) ==
             /\ r \in Seq(Rows)
             /\ \A i \in 1..Len(r) : \E j \in 1..n : r[i] = list[j] /\ list[j].chunk \notin ids
             /\ \A j \in 1..n : list[j].chunk \notin ids => \E i \in 1..Len(r) : r[i] = list[j]
           S == {n \in Nat : n <= Len(list) => Fits(f[n], n)}
<1>3. f[0] = <<>> /\ \A i \in 1..Len(list) : f[i] = OneMore(f[i - 1], list[i], ids)
  <2>1. \A i \in 0..Len(list) : f[i] = IF i = 0 THEN <<>> ELSE OneMore(f[i - 1], list[i], ids)
    BY <1>2, Zenon DEF KeptRows
  <2> QED BY <1>1, <2>1
<1>4. 0 \in S
  <2>1. Fits(<<>>, 0)
    OBVIOUS
  <2> HIDE DEF Fits
  <2>2. Fits(f[0], 0)
    BY <1>3, <2>1
  <2> QED BY <2>2
<1>5. ASSUME NEW n \in Nat, n \in S PROVE n + 1 \in S
  <2> SUFFICES ASSUME n + 1 <= Len(list) PROVE Fits(f[n + 1], n + 1)
    OBVIOUS
  <2>1. /\ n + 1 \in 1..Len(list) /\ (n + 1) - 1 = n /\ list[n + 1] \in Rows
        /\ Fits(f[n], n) /\ 1..n + 1 = (1..n) \cup {n + 1}
    BY <1>1, <1>5
  <2>2. CASE list[n + 1].chunk \notin ids
    <3>1. f[n + 1] = Append(f[n], list[n + 1])
      BY <1>3, <2>1, <2>2 DEF OneMore
    <3> DEFINE r == f[n]
               a == f[n + 1]
    <3>2. /\ a \in Seq(Rows) /\ Len(a) = Len(r) + 1 /\ a[Len(a)] = list[n + 1] /\ Len(a) \in 1..Len(a)
          /\ \A i \in 1..Len(r) : a[i] = r[i] /\ i \in 1..Len(a)
          /\ 1..Len(a) = (1..Len(r)) \cup {Len(a)}
      BY <2>1, <3>1
    <3> HIDE DEF a, r
    <3>3. Fits(r, n)
      BY <2>1 DEF r
    <3>4. ASSUME NEW i \in 1..Len(a) PROVE \E j \in 1..n + 1 : a[i] = list[j] /\ list[j].chunk \notin ids
      <4>1. CASE i = Len(a)
        BY <2>1, <2>2, <3>2, <4>1
      <4>2. CASE i \in 1..Len(r)
        <5>1. PICK j \in 1..n : r[i] = list[j] /\ list[j].chunk \notin ids
          BY <3>3, <4>2, Zenon
        <5> QED BY <2>1, <3>2, <4>2, <5>1
      <4> QED BY <3>2, <4>1, <4>2
    <3>5. ASSUME NEW j \in 1..n + 1, list[j].chunk \notin ids PROVE \E i \in 1..Len(a) : a[i] = list[j]
      BY <2>1, <2>2, <3>2, <3>3, <3>5
    <3> QED BY <3>2, <3>4, <3>5 DEF a
  <2>3. CASE list[n + 1].chunk \in ids
    <3>1. f[n + 1] = f[n]
      BY <1>3, <2>1, <2>3 DEF OneMore
    <3> QED BY <2>1, <2>3, <3>1
  <2> QED BY <2>2, <2>3
<1>6. Len(list) \in S
  <2> HIDE DEF S
  <2> QED BY <1>1, <1>4, <1>5, SetInduction
<1> QED BY <1>2, <1>6

\* A collection: its seal and its rows.
Collections == [seal : Stamps \cup {"none", "missing"}, rows : Seq(Rows)]
\* The chunks of some rows.
ChunksIn(list) == {list[i].chunk : i \in 1..Len(list)}

\* The chunks of the first n rows.
Upto(c, n) == {c.rows[i].chunk : i \in {j \in 1..Len(c.rows) : j <= n}}

\* Every row has a vector of model s.
By(c, s) == \A i \in 1..Len(c.rows) : c.rows[i].by = s

\* Adding: the new chunks beside those there, with the vectors of the new rows.
LEMMA AddingIs ==
  ASSUME NEW c \in Collections, NEW new \in Seq(Rows)
  PROVE  /\ Adding(c, new) \in Collections /\ Adding(c, new).seal = c.seal
         /\ ChunksOf(Adding(c, new)) = ChunksOf(c) \cup ChunksIn(new)
         /\ \A s : By(c, s) /\ (\A i \in 1..Len(new) : new[i].by = s) => By(Adding(c, new), s)
<1> DEFINE r == RowsBut(new, ChunksOf(c))
           a == Adding(c, new)
<1>1. /\ r \in Seq(Rows)
      /\ \A i \in 1..Len(r) : \E j \in 1..Len(new) : r[i] = new[j] /\ new[j].chunk \notin ChunksOf(c)
      /\ \A j \in 1..Len(new) : new[j].chunk \notin ChunksOf(c) => \E i \in 1..Len(r) : r[i] = new[j]
  BY RowsButAre
<1> HIDE DEF r
<1>2. a = [c EXCEPT !.rows = @ \o r]
  BY DEF Adding, r
<1>3. a \in Collections /\ a.seal = c.seal /\ a.rows = c.rows \o r /\ c.rows \in Seq(Rows)
  <2>1. c.rows \in Seq(Rows) /\ c = [seal |-> c.seal, rows |-> c.rows] /\ c.seal \in Stamps \cup {"none", "missing"}
    BY DEF Collections
  <2>2. c.rows \o r \in Seq(Rows)
    BY <1>1, <2>1
  <2>3. a = [seal |-> c.seal, rows |-> c.rows \o r]
    BY <1>2, <2>1
  <2> HIDE DEF a
  <2> QED BY <2>1, <2>2, <2>3 DEF Collections
<1>4. /\ Len(a.rows) = Len(c.rows) + Len(r) /\ Len(c.rows) \in Nat /\ Len(r) \in Nat
      /\ \A i \in 1..Len(c.rows) : a.rows[i] = c.rows[i]
      /\ \A i \in 1..Len(r) : a.rows[Len(c.rows) + i] = r[i]
  BY <1>1, <1>3
<1> HIDE DEF a
<1>5. ASSUME NEW i \in 1..Len(a.rows)
      PROVE  i \in 1..Len(c.rows) \/ \E k \in 1..Len(r) : i = Len(c.rows) + k
  <2>1. i \in 1..Len(c.rows) \/ (i - Len(c.rows) \in 1..Len(r) /\ i = Len(c.rows) + (i - Len(c.rows)))
    BY <1>4, <1>5
  <2> QED BY <2>1, Zenon
<1>6. /\ \A i \in 1..Len(c.rows) : i \in 1..Len(a.rows)
      /\ \A k \in 1..Len(r) : Len(c.rows) + k \in 1..Len(a.rows)
  BY <1>4
<1>7. ChunksOf(a) \subseteq ChunksOf(c) \cup ChunksIn(new)
  <2> SUFFICES ASSUME NEW i \in 1..Len(a.rows) PROVE a.rows[i].chunk \in ChunksOf(c) \cup ChunksIn(new)
    BY DEF ChunksOf
  <2>1. CASE i \in 1..Len(c.rows)
    BY <1>4, <2>1 DEF ChunksOf
  <2>2. CASE \E k \in 1..Len(r) : i = Len(c.rows) + k
    <3>1. PICK k \in 1..Len(r) : i = Len(c.rows) + k
      BY <2>2
    <3>2. PICK j \in 1..Len(new) : r[k] = new[j]
      BY <1>1, <3>1, Zenon
    <3> QED BY <1>4, <3>1, <3>2 DEF ChunksIn
  <2> QED BY <1>5, <2>1, <2>2
<1>8. ChunksOf(c) \subseteq ChunksOf(a)
  BY <1>4, <1>6 DEF ChunksOf
<1>9. ASSUME NEW j \in 1..Len(new) PROVE new[j].chunk \in ChunksOf(a)
  <2>1. CASE new[j].chunk \in ChunksOf(c)
    BY <1>8, <2>1
  <2>2. CASE new[j].chunk \notin ChunksOf(c)
    <3>1. PICK k \in 1..Len(r) : r[k] = new[j]
      BY <1>1, <2>2, Zenon
    <3>2. a.rows[Len(c.rows) + k] = new[j] /\ Len(c.rows) + k \in 1..Len(a.rows)
      BY <1>4, <1>6, <3>1
    <3> QED BY <3>2 DEF ChunksOf
  <2> QED BY <2>1, <2>2
<1>10. ASSUME NEW s, By(c, s), \A i \in 1..Len(new) : new[i].by = s PROVE By(a, s)
  <2> SUFFICES ASSUME NEW i \in 1..Len(a.rows) PROVE a.rows[i].by = s
    BY DEF By
  <2>1. CASE i \in 1..Len(c.rows)
    BY <1>4, <1>10, <2>1 DEF By
  <2>2. CASE \E k \in 1..Len(r) : i = Len(c.rows) + k
    <3>1. PICK k \in 1..Len(r) : i = Len(c.rows) + k
      BY <2>2
    <3>2. PICK j \in 1..Len(new) : r[k] = new[j]
      BY <1>1, <3>1, Zenon
    <3> QED BY <1>4, <1>10, <3>1, <3>2
  <2> QED BY <1>5, <2>1, <2>2
<1>11. ChunksOf(a) = ChunksOf(c) \cup ChunksIn(new)
  BY <1>7, <1>8, <1>9 DEF ChunksIn
<1> QED BY <1>3, <1>10, <1>11, Zenon DEF a

\* A page: the rows after the first ones, one at least unless they were all.
LEMMA PageIs ==
  ASSUME NEW c \in Collections, NEW n \in Nat
  PROVE  /\ Page(c, n) \in Seq(Rows)
         /\ Len(c.rows) <= n <=> Page(c, n) = <<>>
         /\ \A i \in 1..Len(Page(c, n)) : \E j \in 1..Len(c.rows) : Page(c, n)[i] = c.rows[j]
         /\ Upto(c, n) \cup ChunksIn(Page(c, n)) = Upto(c, n + Batch)
         /\ Upto(c, n) \cup ChunksIn(Page(c, n)) = Upto(c, n + Len(Page(c, n)))
<1> DEFINE last == IF n + Batch < Len(c.rows) THEN n + Batch ELSE Len(c.rows)
           p == Page(c, n)
<1>1. Batch \in Nat /\ Batch > 0 /\ c.rows \in Seq(Rows) /\ Len(c.rows) \in Nat
  BY ReindexAssumption DEF Collections
<1>2. last \in Nat /\ last <= Len(c.rows) /\ last <= n + Batch /\ (last < n + Batch => last = Len(c.rows))
  BY <1>1
<1>3. p = SubSeq(c.rows, n + 1, last)
  BY DEF Page
<1> HIDE DEF last
<1>4. \A i \in n + 1..last : i \in 1..Len(c.rows)
  BY <1>1, <1>2
<1>5. CASE Len(c.rows) <= n
  <2>1. p = <<>> /\ Len(p) = 0
    BY <1>1, <1>2, <1>3, <1>5
  <2> HIDE DEF p
  <2>2. /\ Upto(c, n) = Upto(c, n + Batch) /\ ChunksIn(p) = {}
    BY <1>1, <1>5, <2>1 DEF Upto, ChunksIn
  <2>3. n + Len(p) = n /\ p \in Seq(Rows)
    BY <2>1
  <2> QED BY <1>5, <2>1, <2>2, <2>3 DEF p
<1>6. CASE Len(c.rows) > n
  <2>1. /\ p \in Seq(Rows) /\ Len(p) = last - n /\ Len(p) > 0 /\ last > n
        /\ \A i \in 1..last - n : p[i] = c.rows[n + i]
    BY <1>1, <1>2, <1>3, <1>6
  <2> HIDE DEF p
  <2>2. n + Len(p) = last
    BY <1>2, <2>1
  <2>3. ASSUME NEW i \in 1..Len(p) PROVE n + i \in 1..Len(c.rows) /\ n + i <= last /\ p[i] = c.rows[n + i]
    BY <1>1, <1>2, <2>1
  <2>4. Upto(c, n) \cup ChunksIn(p) \subseteq Upto(c, last)
    <3>1. \A j \in 1..Len(c.rows) : j <= n => j <= last
      BY <1>2, <2>1
    <3>2. Upto(c, n) \subseteq Upto(c, last)
      BY <3>1 DEF Upto
    <3>3. ChunksIn(p) \subseteq Upto(c, last)
      BY <2>3 DEF Upto, ChunksIn
    <3> QED BY <3>2, <3>3
  <2>5. ASSUME NEW j \in 1..Len(c.rows), j <= last PROVE c.rows[j].chunk \in Upto(c, n) \cup ChunksIn(p)
    <3>1. CASE j <= n
      BY <3>1 DEF Upto
    <3>2. CASE j > n
      <4>1. j - n \in 1..Len(p) /\ n + (j - n) = j
        BY <1>1, <1>2, <2>1, <2>5, <3>2
      <4>2. p[j - n] = c.rows[j]
        BY <2>3, <4>1
      <4> QED BY <4>1, <4>2 DEF ChunksIn
    <3> QED BY <3>1, <3>2
  <2>6. Upto(c, n) \cup ChunksIn(p) = Upto(c, last)
    BY <2>4, <2>5 DEF Upto
  <2>7. Upto(c, last) = Upto(c, n + Batch)
    BY <1>1, <1>2 DEF Upto
  <2>8. p # <<>>
    BY <2>1
  <2> QED BY <1>1, <1>6, <2>1, <2>2, <2>3, <2>6, <2>7, <2>8 DEF p
<1> QED BY <1>1, <1>5, <1>6

\* All the rows, and none.
LEMMA UptoAre ==
  ASSUME NEW c \in Collections
  PROVE  /\ \A n \in Nat : n >= Len(c.rows) => Upto(c, n) = ChunksOf(c)
         /\ Upto(c, 0) = {} /\ (c.rows = <<>> => ChunksOf(c) = {})
<1>1. Len(c.rows) \in Nat
  BY DEF Collections
<1> QED BY <1>1 DEF Upto, ChunksOf

\* The steps of a run that has not come to rest.
Underway == {"count", "residue", "page", "drop", "create", "copy", "cleanup"}

\* The collections have the code's shape, and nobody holds one that is not there.
ReindexTypes ==
  /\ current \in Collections /\ staging \in Collections
  /\ current.seal = "missing" => current = Missing
  /\ current = Missing => handles = {}
  /\ DOMAIN cpc = Clients /\ stamp \in [Clients -> Stamps]
  /\ rpc \in Resting \cup Underway /\ (rpc \in Underway => wanted \in Stamps)
  /\ total \in Nat /\ offset \in Nat
  /\ disturbed \in BOOLEAN /\ takenOver \in BOOLEAN

\* Seals and vectors: a service that is ready holds a collection of its model, and
\* so does the run while it fills the new one.
Sealed ==
  ~takenOver =>
    /\ By(current, current.seal)
    /\ \A c \in Clients : cpc[c] = "ready" /\ c \in handles => current.seal = stamp[c]
    /\ rpc = "copy" /\ "copy" \in handles => current.seal = wanted

\* What the run has written to the staging collection is of the wanted model.
Staged == rpc \in {"page", "drop", "create", "copy"} => By(staging, wanted)

\* Where the chunks are that a run beside no writer found.
Copying ==
  ~disturbed =>
    /\ rpc \in {"count", "residue", "page", "drop", "done"} => ChunksOf(current) = base
    /\ rpc \in {"count", "residue"} => offset = 0
    /\ rpc \in {"residue", "page"} => Len(current.rows) = total
    /\ rpc = "page" => ChunksOf(staging) = Upto(current, offset)
    /\ rpc \in {"drop", "create", "copy"} => ChunksOf(staging) = base
    /\ rpc = "copy" => ChunksOf(current) = Upto(staging, offset)
    /\ rpc \in {"cleanup", "interrupted"} => base \subseteq ChunksOf(current) \cup ChunksOf(staging)

\* The inductive invariant.
ReindexInv == ReindexTypes /\ Sealed /\ Staged /\ Copying

\* A step of a service process: what it has to show of its own.
LEMMA ClientStep ==
  ASSUME ReindexInv, NEW c \in Clients, UNCHANGED <<staging, runVars, base>>,
         current' \in Collections, current'.seal = "missing" => current' = Missing,
         current' = Missing => handles' = {}, handles' \subseteq handles \cup {c},
         stamp' \in [Clients -> Stamps], DOMAIN cpc' = Clients,
         \A d \in Clients \ {c} : cpc'[d] = cpc[d] /\ stamp'[d] = stamp[d],
         disturbed' \in BOOLEAN, takenOver' \in BOOLEAN, takenOver => takenOver',
         disturbed' \/ (~disturbed /\ current' = current),
         ~takenOver' => /\ By(current', current'.seal)
                        /\ current'.seal = current.seal \/ current.seal \notin Stamps \/ handles' = {}
                        /\ cpc'[c] = "ready" /\ c \in handles' => current'.seal = stamp'[c]
  PROVE  ReindexInv'
<1>1. ReindexTypes'
  BY DEF ReindexInv, ReindexTypes, runVars
<1>2. ASSUME ~takenOver' PROVE Sealed'
  <2>1. By(current', current'.seal)
    BY <1>2
  <2>2. ~takenOver /\ {"source", "copy"} \cap Clients = {} /\ "copy" # c
    BY <1>2, ReindexAssumption
  <2>3. ASSUME NEW d \in Clients, cpc'[d] = "ready", d \in handles' PROVE current'.seal = stamp'[d]
    <3>1. CASE d = c
      BY <1>2, <2>3, <3>1
    <3>2. CASE d # c
      <4>1. current.seal = stamp[d] /\ stamp[d] \in Stamps
        BY <2>2, <2>3, <3>2 DEF ReindexInv, Sealed, ReindexTypes
      <4> QED BY <1>2, <2>3, <3>2, <4>1
    <3> QED BY <3>1, <3>2
  <2>4. rpc' = "copy" /\ "copy" \in handles' => current'.seal = wanted'
    <3> SUFFICES ASSUME rpc' = "copy", "copy" \in handles' PROVE current'.seal = wanted'
      OBVIOUS
    <3>1. rpc = "copy" /\ "copy" \in handles /\ wanted' = wanted
      BY <2>2 DEF runVars
    <3>2. current.seal = wanted /\ wanted \in Stamps
      BY <2>2, <3>1 DEF ReindexInv, Sealed, ReindexTypes, Underway
    <3> QED BY <1>2, <3>1, <3>2
  <2> QED BY <2>1, <2>3, <2>4 DEF Sealed, By
<1>3. Sealed'
  BY <1>2 DEF Sealed
<1>4. Staged'
  BY DEF ReindexInv, Staged, By, runVars
<1>5. Copying'
  <2>1. CASE disturbed'
    BY <2>1 DEF Copying
  <2>2. CASE ~disturbed /\ current' = current
    <3>1. rpc' = rpc /\ offset' = offset /\ total' = total /\ staging' = staging /\ base' = base
      BY DEF runVars
    <3>2. /\ ChunksOf(current)' = ChunksOf(current) /\ Upto(current, offset)' = Upto(current, offset)
          /\ ChunksOf(staging)' = ChunksOf(staging) /\ Upto(staging, offset)' = Upto(staging, offset)
      BY <2>2, <3>1 DEF ChunksOf, Upto
    <3> QED BY <2>2, <3>1, <3>2 DEF ReindexInv, Copying
  <2> QED BY <2>1, <2>2
<1> QED BY <1>1, <1>3, <1>4, <1>5 DEF ReindexInv

\* Whether a collection is there, and what an empty one is.
LEMMA EmptyIs ==
  /\ Missing \in Collections /\ Missing.seal = "missing" /\ Missing.rows = <<>> /\ "missing" \notin Stamps
  /\ \A s \in Stamps \cup {"none"} :
       /\ Empty(s) \in Collections /\ Empty(s).seal = s /\ Empty(s).rows = <<>> /\ By(Empty(s), s)
       /\ s # "missing" /\ Empty(s) # Missing
  /\ \A s : By(Missing, s)
  BY ReindexAssumption DEF Missing, Empty, Collections, By

\* Opening, sealing, storing, deleting and clearing keep the invariant.
LEMMA ClientKeeps ==
  ASSUME ReindexInv, NEW c \in Clients, Client(c)
  PROVE  ReindexInv'
<1>1. current \in Collections /\ (current.seal = "missing" => current = Missing)
  BY DEF ReindexInv, ReindexTypes
<1>2. /\ current = Missing => handles = {}
      /\ DOMAIN cpc = Clients /\ stamp \in [Clients -> Stamps] /\ stamp[c] \in Stamps
      /\ disturbed \in BOOLEAN /\ takenOver \in BOOLEAN
  BY DEF ReindexInv, ReindexTypes
<1>3. ~takenOver => /\ By(current, current.seal)
                    /\ cpc[c] = "ready" /\ c \in handles => current.seal = stamp[c]
  BY DEF ReindexInv, Sealed
<1>4. ASSUME NEW s, To(c, s)
      PROVE  DOMAIN cpc' = Clients /\ cpc'[c] = s /\ \A d \in Clients \ {c} : cpc'[d] = cpc[d]
  BY <1>2, <1>4 DEF To
<1>5. CASE Open(c)
  <2> DEFINE s == IF current.seal \in Stamps THEN IF current.seal = stamp[c] THEN "ready" ELSE "refused" ELSE "unsealed"
  <2>1. /\ current' = IF current = Missing THEN Empty("none") ELSE current
        /\ disturbed' = (disturbed \/ current = Missing) /\ handles' = handles \cup {c} /\ To(c, s)
        /\ UNCHANGED <<staging, stamp, runVars, base, takenOver>>
    BY <1>5 DEF Open
  <2>2. DOMAIN cpc' = Clients /\ cpc'[c] = s /\ \A d \in Clients \ {c} : cpc'[d] = cpc[d]
    BY <1>4, <2>1
  <2>3. CASE current = Missing
    BY <1>1, <1>2, <2>1, <2>2, <2>3, EmptyIs, ClientStep
  <2>4. CASE current # Missing
    BY <1>1, <1>2, <1>3, <2>1, <2>2, <2>4, ClientStep
  <2> QED BY <2>3, <2>4
<1>6. CASE Seal(c)
  <2>1. /\ current.rows = <<>> /\ current' = [current EXCEPT !.seal = stamp[c]] /\ disturbed' = TRUE
        /\ takenOver' = (takenOver \/ current.seal \in Stamps \ {stamp[c]}) /\ To(c, "ready") /\ c \in handles
        /\ UNCHANGED <<staging, handles, stamp, runVars, base>>
    BY <1>6 DEF Seal
  <2>2. DOMAIN cpc' = Clients /\ \A d \in Clients \ {c} : cpc'[d] = cpc[d]
    BY <1>4, <2>1
  <2>3. /\ current' \in Collections /\ current'.seal = stamp[c] /\ current'.rows = <<>>
    BY <1>1, <1>2, <2>1 DEF Collections
  <2>4. By(current', current'.seal) /\ current'.seal # "missing" /\ current' # Missing
    BY <1>2, <2>3, EmptyIs DEF By
  <2>5. ~takenOver' => current'.seal = current.seal \/ current.seal \notin Stamps
    BY <2>1, <2>3
  <2>6. takenOver' \in BOOLEAN /\ (takenOver => takenOver')
    BY <1>2, <2>1
  <2> QED BY <1>2, <2>1, <2>2, <2>3, <2>4, <2>5, <2>6, ClientStep
<1>7. CASE RefuseUnsealed(c)
  <2>1. /\ To(c, "refused") /\ UNCHANGED <<current, staging, handles, stamp, runVars, base, disturbed, takenOver>>
    BY <1>7 DEF RefuseUnsealed
  <2> QED BY <1>1, <1>2, <1>3, <1>4, <2>1, ClientStep
<1>8. CASE Restart(c)
  <2>1. /\ \E s \in Stamps : stamp' = [stamp EXCEPT ![c] = s]
        /\ To(c, "closed") /\ handles' = handles \ {c}
        /\ UNCHANGED <<current, staging, runVars, base, disturbed, takenOver>>
    BY <1>8 DEF Restart
  <2>2. stamp' \in [Clients -> Stamps] /\ \A d \in Clients \ {c} : stamp'[d] = stamp[d]
    BY <1>2, <2>1
  <2>3. DOMAIN cpc' = Clients /\ cpc'[c] = "closed" /\ \A d \in Clients \ {c} : cpc'[d] = cpc[d]
    BY <1>4, <2>1
  <2> QED BY <1>1, <1>2, <1>3, <2>1, <2>2, <2>3, ClientStep
<1>9. CASE \E k \in Chunks : Store(c, k)
  <2>1. PICK k \in Chunks : Store(c, k)
    BY <1>9
  <2> DEFINE new == <<[chunk |-> k, by |-> stamp[c]]>>
  <2>2. /\ cpc[c] = "ready" /\ c \in handles /\ current' = Adding(current, new) /\ disturbed' = TRUE
        /\ UNCHANGED <<staging, handles, clientVars, runVars, base, takenOver>>
    BY <2>1 DEF Store
  <2>3. new \in Seq(Rows) /\ \A i \in 1..Len(new) : new[i].by = stamp[c]
    BY <1>2 DEF Rows
  <2> HIDE DEF new
  <2>4. /\ current' \in Collections /\ current'.seal = current.seal
        /\ By(current, stamp[c]) => By(current', stamp[c])
    BY <1>1, <2>2, <2>3, AddingIs
  <2>5. current'.seal # "missing" /\ current' # Missing
    BY <1>1, <1>2, <2>2, <2>4, EmptyIs
  <2>6. ~takenOver' => By(current', current'.seal) /\ current'.seal = stamp'[c]
    BY <1>3, <2>2, <2>4 DEF clientVars
  <2> QED BY <1>2, <2>2, <2>4, <2>5, <2>6, ClientStep DEF clientVars
<1>10. CASE \E k \in Chunks : Delete(c, k)
  <2>1. PICK k \in Chunks : Delete(c, k)
    BY <1>10
  <2> DEFINE left == RowsBut(current.rows, {k})
  <2>2. /\ cpc[c] = "ready" /\ c \in handles /\ current' = [current EXCEPT !.rows = left] /\ disturbed' = TRUE
        /\ UNCHANGED <<staging, handles, clientVars, runVars, base, takenOver>>
    BY <2>1 DEF Delete
  <2>3. current.rows \in Seq(Rows)
    BY <1>1 DEF Collections
  <2>4. left \in Seq(Rows) /\ \A i \in 1..Len(left) : \E j \in 1..Len(current.rows) : left[i] = current.rows[j]
    <3>1. /\ left \in Seq(Rows)
          /\ \A i \in 1..Len(left) : \E j \in 1..Len(current.rows) :
               left[i] = current.rows[j] /\ current.rows[j].chunk \notin {k}
      BY <2>3, RowsButAre, Zenon
    <3> QED BY <3>1
  <2> HIDE DEF left
  <2>5. current' \in Collections /\ current'.seal = current.seal /\ current'.rows = left
    BY <1>1, <2>2, <2>4 DEF Collections
  <2>6. ~takenOver' => By(current', current'.seal) /\ current'.seal = stamp'[c]
    BY <1>3, <2>2, <2>4, <2>5 DEF clientVars, By
  <2>7. current'.seal # "missing" /\ current' # Missing
    BY <1>1, <1>2, <2>2, <2>5, EmptyIs
  <2> QED BY <1>2, <2>2, <2>5, <2>6, <2>7, ClientStep DEF clientVars
<1>11. CASE ClearCount(c)
  <2>1. /\ To(c, "clear") /\ UNCHANGED <<current, staging, handles, stamp, runVars, base, disturbed, takenOver>>
    BY <1>11 DEF ClearCount
  <2> QED BY <1>1, <1>2, <1>3, <1>4, <2>1, ClientStep
<1>12. CASE ClearDrop(c)
  <2>1. UNCHANGED <<staging, stamp, runVars, base, takenOver>>
    BY <1>12 DEF ClearDrop
  <2>2. CASE current = Missing
    <3>1. To(c, "ready") /\ UNCHANGED <<current, handles, disturbed>>
      BY <1>12, <2>2 DEF ClearDrop
    <3> QED BY <1>1, <1>2, <1>3, <1>4, <2>1, <2>2, <3>1, ClientStep
  <2>3. CASE current # Missing
    <3>1. To(c, "recreate") /\ current' = Missing /\ handles' = {} /\ disturbed' = TRUE
      BY <1>12, <2>3 DEF ClearDrop
    <3> QED BY <1>1, <1>2, <1>3, <1>4, <2>1, <3>1, EmptyIs, ClientStep
  <2> QED BY <2>2, <2>3
<1>13. CASE ClearCreate(c)
  <2>1. /\ current' = IF current = Missing THEN Empty(stamp[c]) ELSE current
        /\ handles' = handles \cup {c} /\ disturbed' = TRUE
        /\ takenOver' = (takenOver \/ current.seal \notin {"missing", stamp[c]}) /\ To(c, "ready")
        /\ UNCHANGED <<staging, stamp, runVars, base>>
    BY <1>13 DEF ClearCreate
  <2>2. DOMAIN cpc' = Clients /\ \A d \in Clients \ {c} : cpc'[d] = cpc[d]
    BY <1>4, <2>1
  <2>3. takenOver' \in BOOLEAN /\ (takenOver => takenOver')
    BY <1>2, <2>1
  <2>4. CASE current = Missing
    BY <1>1, <1>2, <2>1, <2>2, <2>3, <2>4, EmptyIs, ClientStep
  <2>5. CASE current # Missing
    <3>1. ~takenOver' => ~takenOver /\ current.seal = stamp[c] /\ By(current', current'.seal)
      BY <1>1, <1>3, <2>1, <2>3, <2>5
    <3> QED BY <1>1, <1>2, <2>1, <2>2, <2>3, <2>5, <3>1, ClientStep
  <2> QED BY <2>4, <2>5
<1> QED BY <1>5, <1>6, <1>7, <1>8, <1>9, <1>10, <1>11, <1>12, <1>13 DEF Client

\* A step of the run: what it has to show of its own.
LEMMA RunStep ==
  ASSUME ReindexInv, UNCHANGED <<clientVars, takenOver>>, disturbed' \in BOOLEAN,
         current' \in Collections, staging' \in Collections,
         current'.seal = "missing" => current' = Missing, current' = Missing => handles' = {},
         \A c \in Clients : c \in handles' => c \in handles /\ current'.seal = current.seal,
         rpc' \in Resting \cup Underway, rpc' \in Underway => wanted' \in Stamps, total' \in Nat, offset' \in Nat,
         ~takenOver => By(current', current'.seal) /\ (rpc' = "copy" /\ "copy" \in handles' => current'.seal = wanted'),
         Staged', Copying'
  PROVE  ReindexInv'
<1>1. ReindexTypes'
  BY DEF ReindexInv, ReindexTypes, clientVars
<1>2. Sealed'
  <2>1. cpc' = cpc /\ stamp' = stamp /\ takenOver' = takenOver
    BY DEF clientVars
  <2> QED BY <2>1 DEF ReindexInv, Sealed, By
<1> QED BY <1>1, <1>2 DEF ReindexInv

\* A step that leaves the live collection and the handles of the services.
LEMMA QuietStep ==
  ASSUME ReindexInv, UNCHANGED <<current, clientVars, base, disturbed, takenOver>>,
         handles' \subseteq handles, staging' \in Collections, wanted' = wanted, rpc \in Underway,
         rpc' \in Resting \cup Underway, rpc' # "copy", total' \in Nat, offset' \in Nat, Staged', Copying'
  PROVE  ReindexInv'
<1>1. /\ current \in Collections /\ disturbed \in BOOLEAN
      /\ current.seal = "missing" => current = Missing
      /\ current = Missing => handles = {}
      /\ wanted \in Stamps
  BY DEF ReindexInv, ReindexTypes
<1>2. ~takenOver => By(current, current.seal)
  BY DEF ReindexInv, Sealed
<1> QED BY <1>1, <1>2, RunStep

\* The chunks of what is unchanged.
LEMMA SameChunks ==
  /\ UNCHANGED current => ChunksOf(current)' = ChunksOf(current)
  /\ UNCHANGED staging => ChunksOf(staging)' = ChunksOf(staging)
  /\ UNCHANGED <<current, offset>> => Upto(current, offset)' = Upto(current, offset)
  /\ UNCHANGED <<staging, offset>> => Upto(staging, offset)' = Upto(staging, offset)
  /\ UNCHANGED <<staging, wanted>> => (By(staging, wanted)' <=> By(staging, wanted))
  BY DEF ChunksOf, Upto, By

\* Each step of the run keeps the invariant: paging, the swap, and the copy back.
LEMMA RunKeeps ==
  ASSUME ReindexInv, Run
  PROVE  ReindexInv'
<1>1. /\ current \in Collections /\ staging \in Collections /\ disturbed \in BOOLEAN
      /\ current.seal = "missing" => current = Missing
      /\ current = Missing => handles = {}
      /\ total \in Nat /\ offset \in Nat /\ Copying /\ Staged /\ Sealed
      /\ rpc \in Resting \cup Underway /\ (rpc \in Underway => wanted \in Stamps)
  BY DEF ReindexInv, ReindexTypes
<1>2. Len(current.rows) \in Nat /\ Len(staging.rows) \in Nat /\ Batch \in Nat \ {0}
  BY <1>1, ReindexAssumption DEF Collections
<1>3. CASE Count
  <2>1. /\ rpc = "count"
        /\ \/ total' = Len(current.rows) /\ rpc' = "residue"
           \/ total' = total /\ rpc' = "refused"
        /\ UNCHANGED <<current, staging, handles, clientVars, source, wanted, offset, base, disturbed, takenOver>>
    BY <1>3 DEF Count, Go
  <2>2. Staged'
    BY <2>1 DEF Staged
  <2>3. Copying'
    BY <1>1, <2>1, SameChunks DEF Copying
  <2> QED BY <1>1, <1>2, <2>1, <2>2, <2>3, QuietStep DEF Resting, Underway
<1>4. CASE CreateStaging
  <2>1. /\ rpc = "residue" /\ rpc' = "page" /\ staging' = Empty(wanted)
        /\ UNCHANGED <<current, handles, clientVars, source, wanted, total, offset, base, disturbed, takenOver>>
    BY <1>4 DEF CreateStaging, Go
  <2>2. staging' \in Collections /\ By(staging', wanted) /\ staging'.rows = <<>>
    BY <1>1, <2>1, EmptyIs DEF Resting, Underway
  <2>3. Staged'
    BY <2>1, <2>2 DEF Staged, By
  <2>4. Upto(current, 0) = {} /\ ChunksOf(staging') = {}
    BY <1>1, <2>2, UptoAre
  <2>5. ~disturbed => offset = 0 /\ Upto(current, offset)' = {}
    BY <1>1, <2>1, <2>4, SameChunks DEF Copying
  <2>6. Copying'
    BY <1>1, <2>1, <2>4, <2>5, SameChunks DEF Copying
  <2> QED BY <1>1, <2>1, <2>2, <2>3, <2>6, QuietStep DEF Resting, Underway
<1>5. CASE CreateStagingFails
  <2>1. /\ rpc = "residue" /\ rpc' = "failed" /\ staging' \in {staging, Missing}
        /\ UNCHANGED <<current, handles, clientVars, source, wanted, total, offset, base, disturbed, takenOver>>
    BY <1>5 DEF CreateStagingFails, Go
  <2>2. Staged' /\ Copying' /\ staging' \in Collections
    BY <1>1, <2>1, EmptyIs DEF Staged, Copying
  <2> QED BY <1>1, <2>1, <2>2, QuietStep DEF Resting, Underway
<1>6. CASE EmbedPage
  <2> DEFINE batch == Page(current, offset)
             new == Reembedded(batch)
  <2>1. /\ rpc = "page" /\ offset < total
        /\ UNCHANGED <<current, handles, clientVars, source, wanted, total, base, disturbed, takenOver>>
        /\ \/ batch = <<>> /\ rpc' = "drop" /\ UNCHANGED <<staging, offset>>
           \/ batch # <<>> /\ rpc' = "page" /\ staging' = Adding(staging, new) /\ offset' = offset + Batch
    BY <1>6 DEF EmbedPage, Go, MorePages
  <2>2. /\ batch \in Seq(Rows) /\ (Len(current.rows) <= offset <=> batch = <<>>)
        /\ Upto(current, offset) \cup ChunksIn(batch) = Upto(current, offset + Batch)
    BY <1>1, PageIs, Zenon
  <2>3. wanted \in Stamps /\ By(staging, wanted)
    BY <1>1, <2>1 DEF Staged, Resting, Underway
  <2> HIDE DEF batch
  <2>4. CASE batch = <<>> /\ rpc' = "drop" /\ UNCHANGED <<staging, offset>>
    <3>1. Staged'
      BY <2>1, <2>3, <2>4, SameChunks DEF Staged
    <3>2. disturbed
      BY <1>1, <1>2, <2>1, <2>2, <2>4 DEF Copying
    <3>3. Copying'
      BY <2>1, <3>2 DEF Copying
    <3> QED BY <1>1, <2>1, <2>4, <3>1, <3>3, QuietStep DEF Resting, Underway
  <2>5. CASE batch # <<>> /\ rpc' = "page" /\ staging' = Adding(staging, new) /\ offset' = offset + Batch
    <3>1. new \in Seq(Rows) /\ ChunksIn(new) = ChunksIn(batch) /\ \A i \in 1..Len(new) : new[i].by = wanted
      <4>1. /\ Len(batch) \in Nat /\ \A i \in 1..Len(batch) : batch[i] \in Rows
        BY <2>2
      <4>2. \A r \in Rows : [r EXCEPT !.by = wanted] \in Rows /\ [r EXCEPT !.by = wanted].chunk = r.chunk
                            /\ [r EXCEPT !.by = wanted].by = wanted
        BY <2>3 DEF Rows
      <4>3. new = [i \in 1..Len(batch) |-> [batch[i] EXCEPT !.by = wanted]]
        BY DEF Reembedded
      <4> HIDE DEF new
      <4>4. new \in Seq(Rows) /\ Len(new) = Len(batch)
        BY <4>1, <4>2, <4>3
      <4>5. \A i \in 1..Len(batch) : new[i].chunk = batch[i].chunk /\ new[i].by = wanted
        BY <4>1, <4>2, <4>3
      <4> QED BY <4>4, <4>5 DEF ChunksIn
    <3> HIDE DEF new
    <3>2. /\ staging' \in Collections /\ By(staging', wanted)
          /\ ChunksOf(staging') = ChunksOf(staging) \cup ChunksIn(batch)
      BY <1>1, <2>3, <2>5, <3>1, AddingIs
    <3>3. Staged'
      BY <2>1, <3>2 DEF Staged, By
    <3>4. Upto(current, offset)' = Upto(current, offset + Batch) /\ ChunksOf(staging)' = ChunksOf(staging')
      BY <2>1, <2>5 DEF Upto, ChunksOf
    <3>5. Copying'
      BY <1>1, <2>1, <2>2, <2>5, <3>2, <3>4, SameChunks DEF Copying
    <3> QED BY <1>1, <1>2, <2>1, <2>5, <3>2, <3>3, <3>5, QuietStep DEF Resting, Underway
  <2> QED BY <2>1, <2>4, <2>5
<1>7. CASE Embedded
  <2>1. /\ rpc = "page" /\ ~(offset < total) /\ rpc' = "drop"
        /\ UNCHANGED <<current, staging, handles, clientVars, source, wanted, total, offset, base, disturbed, takenOver>>
    BY <1>7 DEF Embedded, Go, MorePages
  <2>2. Staged'
    BY <1>1, <2>1, SameChunks DEF Staged
  <2>3. ~disturbed => Upto(current, offset) = ChunksOf(current)
    BY <1>1, <1>2, <2>1, UptoAre DEF Copying
  <2>4. Copying'
    BY <1>1, <2>1, <2>3, SameChunks DEF Copying
  <2> QED BY <1>1, <2>1, <2>2, <2>4, QuietStep DEF Resting, Underway
<1>8. CASE DropLive
  <2>1. /\ rpc = "drop" /\ rpc' = "create" /\ current' = Missing /\ handles' = {}
        /\ UNCHANGED <<staging, clientVars, source, wanted, total, offset, base, disturbed, takenOver>>
    BY <1>8 DEF DropLive, Go
  <2>2. Staged' /\ Copying'
    BY <1>1, <2>1, SameChunks DEF Staged, Copying
  <2> QED BY <1>1, <2>1, <2>2, EmptyIs, RunStep DEF Resting, Underway
<1>9. CASE CreateLive
  <2>1. /\ rpc = "create" /\ rpc' = "copy" /\ current' = Empty(wanted) /\ handles' = {"copy"} /\ offset' = 0
        /\ UNCHANGED <<staging, clientVars, source, wanted, total, base, disturbed, takenOver>>
    BY <1>9 DEF CreateLive, Go
  <2>2. /\ current' \in Collections /\ By(current', wanted) /\ current'.seal = wanted /\ current'.rows = <<>>
        /\ wanted # "missing" /\ current' # Missing /\ wanted \in Stamps
    BY <1>1, <2>1, EmptyIs DEF Resting, Underway
  <2>3. Staged'
    BY <1>1, <2>1, SameChunks DEF Staged
  <2>4. ChunksOf(current') = {} /\ Upto(staging, 0) = {}
    BY <1>1, <2>2, UptoAre
  <2>5. Upto(staging, offset)' = Upto(staging, 0) /\ ChunksOf(current)' = ChunksOf(current')
    BY <2>1 DEF Upto, ChunksOf
  <2>6. Copying'
    BY <1>1, <2>1, <2>4, <2>5, SameChunks DEF Copying
  <2>7. "copy" \notin Clients
    BY ReindexAssumption
  <2> QED BY <1>1, <2>1, <2>2, <2>3, <2>6, <2>7, RunStep DEF Resting, Underway
<1>10. CASE CopyPage
  <2> DEFINE batch == Page(staging, offset)
  <2>1. /\ rpc = "copy" /\ rpc' = "copy" /\ "copy" \in handles /\ current' = Adding(current, batch)
        /\ offset' = offset + Len(batch)
        /\ UNCHANGED <<staging, handles, clientVars, source, wanted, total, base, disturbed, takenOver>>
    BY <1>10 DEF CopyPage
  <2>2. /\ batch \in Seq(Rows)
        /\ Upto(staging, offset) \cup ChunksIn(batch) = Upto(staging, offset + Len(batch))
        /\ \A i \in 1..Len(batch) : \E j \in 1..Len(staging.rows) : batch[i] = staging.rows[j]
    BY <1>1, PageIs, Zenon
  <2> HIDE DEF batch
  <2>3. \A i \in 1..Len(batch) : batch[i].by = wanted
    BY <1>1, <2>1, <2>2 DEF Staged, By
  <2>4. /\ current' \in Collections /\ current'.seal = current.seal
        /\ ChunksOf(current') = ChunksOf(current) \cup ChunksIn(batch)
        /\ (By(current, wanted) => By(current', wanted))
    BY <1>1, <2>1, <2>2, <2>3, AddingIs
  <2>5. Staged'
    BY <1>1, <2>1, SameChunks DEF Staged
  <2>6. Upto(staging, offset)' = Upto(staging, offset + Len(batch)) /\ ChunksOf(current)' = ChunksOf(current')
    BY <2>1 DEF Upto, ChunksOf
  <2>7. Copying'
    BY <1>1, <2>1, <2>2, <2>4, <2>6, SameChunks DEF Copying
  <2>8. ~takenOver => By(current', current'.seal) /\ current'.seal = wanted
    BY <1>1, <2>1, <2>4 DEF Sealed
  <2>9. current.seal # "missing" /\ current' # Missing
    BY <1>1, <2>1, <2>4, EmptyIs
  <2>10. offset' \in Nat /\ wanted \in Stamps
    BY <1>1, <2>1, <2>2 DEF Resting, Underway
  <2> QED BY <1>1, <2>1, <2>4, <2>5, <2>7, <2>8, <2>9, <2>10, RunStep DEF Resting, Underway
<1>11. CASE Copied
  <2>1. /\ rpc = "copy" /\ Page(staging, offset) = <<>> /\ rpc' = "done" /\ staging' \in {Missing, staging}
        /\ UNCHANGED <<current, handles, clientVars, source, wanted, total, offset, base, disturbed, takenOver>>
    BY <1>11 DEF Copied, Go
  <2>2. Upto(staging, offset) = ChunksOf(staging)
    BY <1>1, <1>2, <2>1, PageIs, UptoAre
  <2>3. Staged' /\ Copying' /\ staging' \in Collections
    BY <1>1, <2>1, <2>2, EmptyIs, SameChunks DEF Staged, Copying
  <2> QED BY <1>1, <2>1, <2>3, QuietStep DEF Resting, Underway
<1>12. CASE Fail
  <2>1. /\ rpc \in {"page", "drop", "create", "copy"} /\ rpc' = "cleanup"
        /\ UNCHANGED <<current, staging, handles, clientVars, source, wanted, total, offset, base, disturbed, takenOver>>
    BY <1>12 DEF Fail, Go
  <2>2. Staged' /\ Copying'
    BY <1>1, <2>1, SameChunks DEF Staged, Copying
  <2> QED BY <1>1, <2>1, <2>2, QuietStep DEF Resting, Underway
<1>13. CASE CleanUp
  <2>1. /\ rpc = "cleanup" /\ rpc' = "failed" /\ staging' \in {Missing, staging}
        /\ UNCHANGED <<current, handles, clientVars, source, wanted, total, offset, base, disturbed, takenOver>>
    BY <1>13 DEF CleanUp, Go
  <2>2. Staged' /\ Copying' /\ staging' \in Collections
    BY <1>1, <2>1, EmptyIs DEF Staged, Copying
  <2> QED BY <1>1, <2>1, <2>2, QuietStep DEF Resting, Underway
<1> QED BY <1>3, <1>4, <1>5, <1>6, <1>7, <1>8, <1>9, <1>10, <1>11, <1>12, <1>13 DEF Run

\* Cut off between any two steps.
LEMMA InterruptionKeeps ==
  ASSUME ReindexInv, Interrupt
  PROVE  ReindexInv'
<1>1. /\ rpc \notin Resting /\ rpc' = "interrupted" /\ handles' \subseteq handles
      /\ UNCHANGED <<current, staging, clientVars, source, wanted, total, offset, base, disturbed, takenOver>>
  BY DEF Interrupt, Go
<1>2. Copying /\ rpc \in Underway /\ staging \in Collections /\ total \in Nat /\ offset \in Nat
  BY <1>1 DEF ReindexInv, ReindexTypes
<1>3. Copying'
  BY <1>1, <1>2, SameChunks DEF Copying, Underway
<1>4. Staged'
  BY <1>1 DEF Staged
<1> QED BY <1>1, <1>2, <1>3, <1>4, QuietStep DEF Resting

\* A run that starts takes the live collection for what it has to keep.
LEMMA StartKeeps ==
  ASSUME ReindexInv, NEW t \in Stamps, Start(t)
  PROVE  ReindexInv'
<1>1. /\ current \in Collections /\ staging \in Collections /\ Sealed
      /\ current.seal = "missing" => current = Missing
      /\ current = Missing => handles = {}
  BY DEF ReindexInv, ReindexTypes
<1>2. /\ base' = ChunksOf(current) /\ disturbed' = FALSE /\ wanted' = t /\ total' = 0 /\ offset' = 0
      /\ \/ current.seal \in Stamps /\ rpc' = "count" /\ handles' = (handles \ {"copy"}) \cup {"source"}
         \/ rpc' = "refused" /\ handles' = handles \ {"source", "copy"}
      /\ UNCHANGED <<current, staging, clientVars, takenOver>>
  BY DEF Start, Go
<1>3. Staged' /\ Copying'
  BY <1>2, SameChunks DEF Staged, Copying
<1>4. ~takenOver => By(current', current'.seal)
  BY <1>1, <1>2 DEF Sealed
<1>5. {"source", "copy"} \cap Clients = {} /\ "missing" \notin Stamps /\ (current.seal \in Stamps => current # Missing)
  BY ReindexAssumption, EmptyIs
<1> QED BY <1>1, <1>2, <1>3, <1>4, <1>5, RunStep DEF Resting, Underway

\* An empty directory, or a collection from before the seals.
LEMMA ReindexStarts == ReindexInit => ReindexInv
<1> SUFFICES ASSUME ReindexInit PROVE ReindexInv
  OBVIOUS
<1>1. /\ staging = Missing /\ handles = {} /\ cpc = [c \in Clients |-> "closed"] /\ stamp \in [Clients -> Stamps]
      /\ rpc = "idle" /\ total = 0 /\ offset = 0 /\ disturbed = FALSE /\ takenOver = FALSE
  BY DEF ReindexInit
<1>2. current \in Collections /\ By(current, current.seal) /\ (current.seal = "missing" => current = Missing)
  <2>1. CASE current = Missing
    BY <2>1, EmptyIs
  <2>2. CASE current # Missing
    <3>1. PICK o \in SetToSeqs(Chunks) :
            current = [seal |-> "none", rows |-> [i \in 1..Len(o) |-> [chunk |-> o[i], by |-> "none"]]]
      BY <2>2 DEF ReindexInit
    <3>2. Cardinality(Chunks) \in Nat /\ o \in [1..Cardinality(Chunks) -> Chunks]
      BY ReindexAssumption, FS_CardinalityType DEF SetToSeqs
    <3>3. o \in Seq(Chunks) /\ Len(o) \in Nat
      BY <3>2
    <3>4. [i \in 1..Len(o) |-> [chunk |-> o[i], by |-> "none"]] \in Seq(Rows)
      BY <3>3 DEF Rows
    <3> QED BY <3>1, <3>3, <3>4 DEF Collections, By
  <2> QED BY <2>1, <2>2
<1>3. ReindexTypes
  BY <1>1, <1>2, EmptyIs DEF ReindexTypes, Resting, Underway
<1>4. Sealed /\ Staged /\ Copying
  BY <1>1, <1>2 DEF Sealed, Staged, Copying
<1> QED BY <1>3, <1>4 DEF ReindexInv

\* Every step keeps the invariant.
LEMMA ReindexStep == ReindexInv /\ [ReindexNext]_reindexVars => ReindexInv'
<1>1. ASSUME ReindexInv, UNCHANGED reindexVars PROVE ReindexInv'
  <2>1. /\ UNCHANGED <<current, staging, handles, cpc, stamp, rpc, source, wanted, total, offset, base, disturbed, takenOver>>
        /\ ReindexTypes /\ Sealed /\ Staged /\ Copying
    BY <1>1 DEF reindexVars, clientVars, runVars, ReindexInv
  <2>2. ReindexTypes' /\ Sealed' /\ Staged'
    BY <2>1 DEF ReindexTypes, Sealed, Staged, By
  <2>3. Copying'
    BY <2>1, SameChunks DEF Copying
  <2> QED BY <2>2, <2>3 DEF ReindexInv
<1>2. CASE ReindexInv /\ ReindexNext
  BY <1>2, RunKeeps, InterruptionKeeps, StartKeeps, ClientKeeps DEF ReindexNext
<1> QED BY <1>1, <1>2

\* The inductive invariant holds throughout, for any chunks, models, services and
\* page size.
THEOREM ReindexInvariant == ReindexSpec => []ReindexInv
  BY ReindexStarts, ReindexStep, PTL DEF ReindexSpec

\* Unless a clear or a seal took a collection over, its vectors are of the model of
\* its seal and a ready service compares queries with none but its own
\* (database/client.py: the stamp check; database/reindex.py: _swap_collections).
THEOREM ReindexVectors == ReindexSpec => []VectorsSound
<1>1. ReindexInv => VectorsSound
  BY DEF ReindexInv, Sealed, VectorsSound, SealTellsVectors, QueriesMatch, By
<1> QED BY <1>1, ReindexInvariant, PTL

\* A run that reports success beside no writer leaves exactly the chunks it found.
THEOREM ReindexDoneKeeps == ReindexSpec => []DoneKeepsAll
<1>1. ReindexInv => DoneKeepsAll
  BY DEF ReindexInv, Copying, DoneKeepsAll
<1> QED BY <1>1, ReindexInvariant, PTL

\* A run cut off anywhere beside no writer has lost no chunk: each is in the live
\* or the staging collection.
THEOREM ReindexInterruptedKeeps == ReindexSpec => []InterruptedKeepsAll
<1>1. ReindexInv => InterruptedKeepsAll
  BY DEF ReindexInv, Copying, InterruptedKeepsAll
<1> QED BY <1>1, ReindexInvariant, PTL
=============================================================================
