-------------------------- MODULE MaintenanceProofs --------------------------
(***************************************************************************)
(* What holds of the upkeep of a deployment for any number of processes,   *)
(* filings and chunks: the registry file under concurrent opening and      *)
(* migration (module Schema), and the stores under backup, restore, export *)
(* and import (module Archive), every statement and file operation a step  *)
(* after which the process may die.                                        *)
(***************************************************************************)
EXTENDS Archive, Schema, TLAPS

-----------------------------------------------------------------------------
(* The registry file.                                                      *)

\* A file: some tables and some stamps of this build.
Files == [tables : SUBSET Tables, stamps : SUBSET (1..Latest)]

\* Versions are stamped one after the other, and each has its table.
InStep(d) ==
  \A v \in d.stamps : /\ 1..v \subseteq d.stamps
                      /\ v > 1 => Made(v) \in d.tables

\* d has all that c has.
Holds(d, c) == c.tables \subseteq d.tables /\ c.stamps \subseteq d.stamps

\* The steps after the first stamp has been seen or made, and the later ones.
AtFilings == {"filings", "task_history", "commit", "ready"}
AtBodies  == {"body", "stamp"} \cup AtFilings
Steps     == {"closed", "refused", "bootstrap", "current"} \cup AtBodies

\* What a process at step s that read version n relies on finding in d.
Needs(d, s, n) ==
  /\ s = "bootstrap" /\ n > 0 => 1 \in d.stamps
  /\ s = "current" => 1 \in d.stamps
  /\ s \in AtBodies => n \in d.stamps
  /\ s = "stamp" => n < Latest /\ Made(n + 1) \in d.tables
  /\ s \in AtFilings => n = Latest
  /\ s \in AtFilings \ {"filings"} => "filings" \in d.tables
  /\ s \in {"commit", "ready"} => "task_history" \in d.tables

SchemaTypes ==
  /\ file \in Files /\ work \in Files
  /\ owner \in SUBSET Openers /\ \A p, q \in owner : p = q
  /\ at \in [Openers -> Steps] /\ seen \in [Openers -> Nat]

\* The open transaction is ahead of the file, with a stamp of its own.
Ahead ==
  /\ Holds(work, file)
  /\ owner = {} => work = file
  /\ owner # {} => work.stamps # {}

SchemaInv ==
  /\ SchemaTypes
  /\ InStep(file) /\ InStep(work) /\ Ahead
  /\ \A p \in Openers : /\ Needs(View(p), at[p], seen[p])
                        /\ at[p] = "ready" => p \notin owner
  /\ NeverMadeUnusable

\* The tables by name.
LEMMA TablesAre ==
  /\ "filings" \in Tables /\ "task_history" \in Tables
  /\ \A v \in 2..Latest : Made(v) \in Tables
  /\ Latest \in Nat /\ Latest >= 1
  BY SchemaAssumption DEF Tables, V1

\* The version of a file is 0 or a stamp of it.
LEMMA VersionIs ==
  ASSUME NEW d \in Files
  PROVE  /\ d.stamps = {} => Version(d) = 0
         /\ d.stamps # {} => Version(d) \in d.stamps
         /\ Latest \in d.stamps => Version(d) = Latest
<1>1. d.stamps \in SUBSET (1..Latest) /\ Latest \in 1..3
  BY SchemaAssumption DEF Files
<1>2. ASSUME d.stamps # {} PROVE \E x \in d.stamps : \A y \in d.stamps : x >= y
  <2>1. CASE 3 \in d.stamps
    BY <1>1, <2>1
  <2>2. CASE 3 \notin d.stamps /\ 2 \in d.stamps
    BY <1>1, <2>2
  <2>3. CASE 3 \notin d.stamps /\ 2 \notin d.stamps
    BY <1>1, <1>2, <2>3
  <2> QED BY <2>1, <2>2, <2>3
<1>3. d.stamps # {} => Version(d) \in d.stamps /\ \A y \in d.stamps : Version(d) >= y
  BY <1>2 DEF Version, Max
<1>4. Latest \in d.stamps => Version(d) = Latest
  BY <1>1, <1>3
<1>5. d.stamps = {} => Version(d) = 0
  BY DEF Version
<1> QED BY <1>3, <1>4, <1>5

\* The next migration is the one after the version read.
LEMMA DueIs ==
  ASSUME NEW p \in Openers, seen[p] \in 1..Latest
  PROVE  /\ Due(p) = {} => seen[p] = Latest
         /\ Due(p) # {} => seen[p] < Latest /\ Min(Due(p)) = seen[p] + 1 /\ seen[p] + 1 \in 2..Latest
<1>1. Latest \in Nat
  BY TablesAre
<1>2. ASSUME seen[p] < Latest
      PROVE  /\ seen[p] + 1 \in Due(p) /\ seen[p] + 1 \in 2..Latest
             /\ \A y \in Due(p) : y \in Nat /\ seen[p] + 1 <= y
  BY <1>1, <1>2 DEF Due
<1>3. seen[p] < Latest => Min(Due(p)) = seen[p] + 1
  BY <1>2 DEF Min
<1>4. ~(seen[p] < Latest) => Due(p) = {} /\ seen[p] = Latest
  BY <1>1 DEF Due
<1> QED BY <1>2, <1>3, <1>4

\* A process that relies on a file may rely on one that holds more.
LEMMA NeedsMore ==
  ASSUME NEW c, NEW d, Holds(d, c), NEW s, NEW n, Needs(c, s, n)
  PROVE  Needs(d, s, n)
  BY DEF Needs, Holds

\* A new table keeps a file in step.
LEMMA TableAdded ==
  ASSUME NEW d \in Files, InStep(d), NEW t \in Tables
  PROVE  LET e == [d EXCEPT !.tables = @ \cup {t}]
         IN e \in Files /\ InStep(e) /\ Holds(e, d) /\ e.stamps = d.stamps /\ t \in e.tables
  BY DEF Files, InStep, Holds

\* A version stamped after its table is made keeps a file in step.
LEMMA StampAdded ==
  ASSUME NEW d \in Files, InStep(d), NEW v \in 1..Latest, v \notin d.stamps,
         v > 1 => v - 1 \in d.stamps /\ Made(v) \in d.tables
  PROVE  LET e == [d EXCEPT !.stamps = @ \cup {v}]
         IN e \in Files /\ InStep(e) /\ Holds(e, d) /\ v \in e.stamps /\ e.tables = d.tables
<1> DEFINE e == [d EXCEPT !.stamps = @ \cup {v}]
<1>1. e \in Files /\ e.stamps = d.stamps \cup {v} /\ e.tables = d.tables
  BY DEF Files
<1>2. 1..v \subseteq e.stamps
  <2>1. CASE v = 1
    BY <1>1, <2>1
  <2>2. CASE v > 1
    <3>1. 1..v = 1..v - 1 \cup {v}
      BY <2>2
    <3> QED BY <1>1, <2>2, <3>1 DEF InStep
  <2> QED BY <2>1, <2>2
<1>3. InStep(e)
  BY <1>1, <1>2 DEF InStep
<1> HIDE DEF e
<1> QED BY <1>1, <1>3 DEF Holds, e

\* A statement of one process leaves what the others rely on.
LEMMA StepOfOne ==
  ASSUME SchemaInv, NEW p \in Openers,
         SchemaTypes', InStep(file)', InStep(work)', Ahead', Holds(file', file),
         file' = file \/ file'.stamps # {}, odd' = odd,
         owner' \subseteq owner \cup {p}, \A q \in owner \ {p} : q \in owner' /\ work' = work,
         \A q \in Openers \ {p} : at'[q] = at[q] /\ seen'[q] = seen[q],
         Needs(View(p)', at'[p], seen'[p]), at'[p] = "ready" => p \notin owner'
  PROVE  SchemaInv'
<1>1. ASSUME NEW q \in Openers, q # p
      PROVE  Needs(View(q)', at'[q], seen'[q]) /\ (at'[q] = "ready" => q \notin owner')
  <2>1. Needs(View(q), at[q], seen[q]) /\ (at[q] = "ready" => q \notin owner)
    BY DEF SchemaInv
  <2>2. Holds(View(q)', View(q))
    BY <1>1 DEF View, Holds
  <2> QED BY <1>1, <2>1, <2>2, NeedsMore
<1>2. \A q \in Openers : Needs(View(q)', at'[q], seen'[q]) /\ (at'[q] = "ready" => q \notin owner')
  BY <1>1
<1>3. NeverMadeUnusable'
  BY DEF SchemaInv, NeverMadeUnusable, Malformed, Partial
<1> QED BY <1>2, <1>3 DEF SchemaInv

\* What a process reads is a file in step that the committed one is part of.
LEMMA ViewIs ==
  ASSUME SchemaInv, NEW p \in Openers
  PROVE  View(p) \in Files /\ InStep(View(p)) /\ Holds(View(p), file)
  BY DEF SchemaInv, SchemaTypes, View, Ahead, Holds

\* A table created by a process that has seen a stamp.
LEMMA CreateKeeps ==
  ASSUME SchemaInv, NEW p \in Openers, NEW t \in Tables, NEW s \in Steps \ {"ready"},
         Create(p, t, s), View(p).stamps # {},
         \A d \in Files : Holds(d, View(p)) /\ t \in d.tables => Needs(d, s, seen[p])
  PROVE  SchemaInv'
<1> DEFINE v == View(p)
           e == [v EXCEPT !.tables = @ \cup {t}]
<1>1. v \in Files /\ InStep(v) /\ Holds(v, file)
  BY ViewIs
<1>2. e \in Files /\ InStep(e) /\ Holds(e, v) /\ e.stamps = v.stamps /\ t \in e.tables
  BY <1>1, TableAdded
<1>3. /\ seen' = seen /\ odd' = odd /\ driver' = driver
      /\ SchemaTypes /\ InStep(file) /\ InStep(work) /\ Ahead
  BY DEF Create, SchemaInv
<1>4. Needs(e, s, seen[p])
  BY <1>2
<1>5. CASE ~Free(p)
  <2>1. /\ t \in v.tables /\ UNCHANGED <<file, work, owner>> /\ p \notin owner
        /\ at' = [at EXCEPT ![p] = s]
    BY <1>5 DEF Create, Then, Free, SchemaInv, SchemaTypes
  <2>2. Needs(v, s, seen[p])
    BY <1>1, <2>1 DEF Holds
  <2>3. SchemaTypes' /\ InStep(file)' /\ InStep(work)' /\ Ahead' /\ Holds(file', file)
    BY <1>3, <2>1 DEF SchemaTypes, Ahead, InStep, Holds
  <2>4. View(p)' = v /\ at'[p] = s /\ \A q \in Openers \ {p} : at'[q] = at[q]
    BY <1>3, <2>1 DEF View, SchemaTypes
  <2> HIDE DEF v
  <2> QED BY <1>3, <2>1, <2>2, <2>3, <2>4, StepOfOne
<1>6. CASE p \in owner /\ driver = "sqlite3"
  <2>1. v = work /\ Free(p)
    BY <1>3, <1>6 DEF View, Free, SchemaTypes
  <2>2. work' = e /\ UNCHANGED <<file, owner>> /\ at' = [at EXCEPT ![p] = s]
    BY <1>6, <2>1 DEF Create, Then
  <2> HIDE DEF e
  <2>3. SchemaTypes' /\ InStep(file)' /\ InStep(work)' /\ Ahead' /\ Holds(file', file)
    BY <1>1, <1>2, <1>3, <1>6, <2>1, <2>2 DEF SchemaTypes, Ahead, InStep, Holds
  <2>4. View(p)' = e /\ at'[p] = s /\ \A q \in Openers \ {p} : at'[q] = at[q]
    BY <1>3, <1>6, <2>2 DEF View, SchemaTypes
  <2>5. \A q \in owner \ {p} : FALSE
    BY <1>3, <1>6 DEF SchemaTypes
  <2> QED BY <1>3, <1>4, <2>2, <2>3, <2>4, <2>5, StepOfOne
<1>7. CASE p \in owner /\ driver # "sqlite3"
  <2>1. v = work /\ Free(p)
    BY <1>3, <1>7 DEF View, Free, SchemaTypes
  <2>2. file' = work /\ owner' = {} /\ work' = work /\ at' = at
    BY <1>7, <2>1 DEF Create
  <2>3. SchemaTypes' /\ InStep(file)' /\ InStep(work)' /\ Ahead' /\ Holds(file', file)
    BY <1>1, <1>3, <1>7, <2>1, <2>2 DEF SchemaTypes, Ahead, InStep, Holds
  <2>4. View(p)' = v
    BY <2>1, <2>2 DEF View
  <2>5. Needs(v, at[p], seen[p])
    BY DEF SchemaInv
  <2>6. \A q \in owner \ {p} : FALSE
    BY <1>3, <1>7 DEF SchemaTypes
  <2>7. file'.stamps # {}
    BY <2>1, <2>2
  <2> HIDE DEF v
  <2> QED BY <1>3, <2>2, <2>3, <2>4, <2>5, <2>6, <2>7, StepOfOne
<1>8. CASE p \notin owner /\ Free(p)
  <2>1. owner = {} /\ v = file
    BY <1>8 DEF View, Free
  <2>2. file' = e /\ work' = e /\ owner' = owner /\ at' = [at EXCEPT ![p] = s]
    BY <1>8 DEF Create, Then
  <2>3. e.stamps # {}
    BY <1>2
  <2> HIDE DEF e
  <2>4. SchemaTypes' /\ InStep(file)' /\ InStep(work)' /\ Ahead' /\ Holds(file', file)
    BY <1>2, <1>3, <2>1, <2>2 DEF SchemaTypes, Ahead, InStep, Holds
  <2>5. View(p)' = e /\ at'[p] = s /\ \A q \in Openers \ {p} : at'[q] = at[q]
    BY <1>3, <1>8, <2>2 DEF View, SchemaTypes
  <2> QED BY <1>3, <1>4, <2>1, <2>2, <2>3, <2>4, <2>5, StepOfOne
<1> QED BY <1>5, <1>6, <1>7, <1>8

\* A stamp begins a transaction, or goes into the one the process has open.
LEMMA StampKeeps ==
  ASSUME SchemaInv, NEW p \in Openers, NEW v \in 1..Latest, NEW s \in Steps \ {"ready"}, NEW n \in Nat,
         Free(p), v \notin View(p).stamps,
         v > 1 => v - 1 \in View(p).stamps /\ Made(v) \in View(p).tables,
         work' = [View(p) EXCEPT !.stamps = @ \cup {v}], owner' = {p},
         at' = [at EXCEPT ![p] = s], seen' = [seen EXCEPT ![p] = n], file' = file, odd' = odd,
         \A d \in Files : InStep(d) /\ v \in d.stamps => Needs(d, s, n)
  PROVE  SchemaInv'
<1> DEFINE e == [View(p) EXCEPT !.stamps = @ \cup {v}]
<1>1. View(p) \in Files /\ InStep(View(p)) /\ Holds(View(p), file)
  BY ViewIs
<1>2. e \in Files /\ InStep(e) /\ Holds(e, View(p)) /\ v \in e.stamps
  BY <1>1, StampAdded
<1>3. work' = e /\ Needs(e, s, n)
  BY <1>2
<1> HIDE DEF e
<1>4. SchemaTypes /\ InStep(file)
  BY DEF SchemaInv
<1>5. SchemaTypes'
  BY <1>2, <1>3, <1>4 DEF SchemaTypes
<1>6. InStep(file)' /\ InStep(work)' /\ Ahead' /\ Holds(file', file)
  BY <1>1, <1>2, <1>3, <1>4 DEF InStep, Ahead, Holds
<1>7. /\ View(p)' = e /\ at'[p] = s /\ seen'[p] = n
      /\ \A q \in Openers \ {p} : at'[q] = at[q] /\ seen'[q] = seen[q]
  BY <1>3, <1>4 DEF View, SchemaTypes
<1>8. \A q \in owner \ {p} : FALSE
  BY DEF Free
<1> QED BY <1>3, <1>5, <1>6, <1>7, <1>8, StepOfOne

\* A step that reads, or decides, and writes nothing.
LEMMA ReadKeeps ==
  ASSUME SchemaInv, NEW p \in Openers, NEW s \in Steps \ {"ready"}, NEW n \in Nat,
         UNCHANGED <<file, work, owner, odd>>,
         at' = [at EXCEPT ![p] = s], seen' = [seen EXCEPT ![p] = n], Needs(View(p), s, n)
  PROVE  SchemaInv'
<1>1. SchemaTypes /\ InStep(file) /\ InStep(work) /\ Ahead
  BY DEF SchemaInv
<1>2. SchemaTypes' /\ InStep(file)' /\ InStep(work)' /\ Ahead' /\ Holds(file', file)
  BY <1>1 DEF SchemaTypes, InStep, Ahead, Holds
<1>3. /\ View(p)' = View(p) /\ at'[p] = s /\ seen'[p] = n
      /\ \A q \in Openers \ {p} : at'[q] = at[q] /\ seen'[q] = seen[q]
  BY <1>1 DEF View, SchemaTypes
<1> QED BY <1>2, <1>3, StepOfOne

\* A rollback, or a process that is gone.
LEMMA LeaveKeeps ==
  ASSUME SchemaInv, NEW p \in Openers, NEW s \in {"closed", "refused"}, Leave(p, s)
  PROVE  SchemaInv'
<1>1. SchemaTypes /\ InStep(file) /\ InStep(work) /\ Ahead
  BY DEF SchemaInv
<1>2. /\ owner' = owner \ {p} /\ UNCHANGED <<driver, file, seen, odd>>
      /\ work' = (IF p \in owner THEN file ELSE work) /\ at' = [at EXCEPT ![p] = s]
  BY DEF Leave, Then
<1>3. SchemaTypes' /\ InStep(file)' /\ InStep(work)' /\ Holds(file', file)
  BY <1>1, <1>2 DEF SchemaTypes, InStep, Holds, Steps
<1>4. Ahead'
  <2>1. CASE p \in owner
    <3>1. owner' = {} /\ work' = file
      BY <1>1, <1>2, <2>1 DEF SchemaTypes
    <3> QED BY <1>2, <3>1 DEF Ahead, Holds
  <2>2. CASE p \notin owner
    BY <1>1, <1>2, <2>2 DEF Ahead
  <2> QED BY <2>1, <2>2
<1>5. at'[p] = s /\ \A q \in Openers \ {p} : at'[q] = at[q]
  BY <1>1, <1>2 DEF SchemaTypes
<1>6. Needs(View(p)', s, seen[p])
  BY DEF Needs, AtBodies, AtFilings
<1>7. \A q \in owner \ {p} : q \in owner' /\ work' = work
  BY <1>1, <1>2 DEF SchemaTypes
<1> QED BY <1>2, <1>3, <1>4, <1>5, <1>6, <1>7, StepOfOne

\* Opening: the version is read, and the first stamp made on a file without.
LEMMA BootstrapKeeps ==
  ASSUME SchemaInv, NEW p \in Openers, Open(p) \/ Bootstrap(p) \/ Current(p)
  PROVE  SchemaInv'
<1>1. /\ View(p) \in Files /\ InStep(View(p)) /\ seen[p] \in Nat
      /\ Needs(View(p), at[p], seen[p]) /\ Latest \in Nat /\ Latest >= 1
  BY ViewIs, TablesAre DEF SchemaInv, SchemaTypes
<1>2. /\ Version(View(p)) \in Nat /\ View(p).stamps \subseteq 1..Latest
      /\ View(p).stamps = {} => Version(View(p)) = 0
      /\ View(p).stamps # {} => Version(View(p)) \in View(p).stamps /\ 1 \in View(p).stamps
  <2>1. View(p).stamps \subseteq 1..Latest
    BY <1>1 DEF Files
  <2> QED BY <1>1, <2>1, VersionIs DEF InStep
<1>3. CASE Open(p)
  <2>1. Needs(View(p), "bootstrap", Version(View(p)))
    BY <1>2 DEF Needs, AtBodies, AtFilings
  <2>2. "bootstrap" \in Steps \ {"ready"}
    BY DEF Steps
  <2> QED BY <1>2, <1>3, <2>1, <2>2, ReadKeeps DEF Open, Read, Then
<1>4. CASE Current(p)
  <2>1. 1 \in View(p).stamps
    BY <1>1, <1>4 DEF Current, Needs
  <2>2. Needs(View(p), "body", Version(View(p)))
    BY <1>2, <2>1 DEF Needs, AtBodies, AtFilings
  <2>3. "body" \in Steps \ {"ready"}
    BY DEF Steps, AtBodies
  <2> QED BY <1>2, <1>4, <2>2, <2>3, ReadKeeps DEF Current, Read, Then
<1>5. CASE Bootstrap(p)
  <2>1. CASE seen[p] > 0
    <3>1. /\ at' = [at EXCEPT ![p] = "current"] /\ UNCHANGED <<file, work, owner, seen, odd>>
          /\ at[p] = "bootstrap"
      BY <1>5, <2>1 DEF Bootstrap, Then
    <3>2. Needs(View(p), "current", seen[p])
      BY <1>1, <2>1, <3>1 DEF Needs, AtBodies, AtFilings
    <3>3. "current" \in Steps \ {"ready"} /\ seen' = [seen EXCEPT ![p] = seen[p]]
      BY <3>1 DEF Steps, SchemaInv, SchemaTypes
    <3> QED BY <1>1, <3>1, <3>2, <3>3, ReadKeeps
  <2>2. CASE ~(seen[p] > 0) /\ Partial(View(p))
    BY <1>5, <2>2, LeaveKeeps DEF Bootstrap
  <2>3. CASE ~(seen[p] > 0) /\ ~Partial(View(p))
    <3>1. Stamp(p, 1, "current")
      BY <1>5, <2>3 DEF Bootstrap
    <3>2. seen' = [seen EXCEPT ![p] = seen[p]] /\ 1 \in 1..Latest /\ "current" \in Steps \ {"ready"}
      BY <1>1, <3>1 DEF Stamp, Steps, SchemaInv, SchemaTypes
    <3>3. \A d \in Files : InStep(d) /\ 1 \in d.stamps => Needs(d, "current", seen[p])
      BY DEF Needs, AtBodies, AtFilings
    <3>4. /\ Free(p) /\ 1 \notin View(p).stamps /\ owner' = {p} /\ file' = file /\ odd' = odd
          /\ work' = [View(p) EXCEPT !.stamps = @ \cup {1}]
          /\ at' = [at EXCEPT ![p] = "current"]
      BY <3>1 DEF Stamp, Then
    <3>5. ~(1 > 1)
      OBVIOUS
    <3> QED BY <1>1, <3>2, <3>3, <3>4, <3>5, StampKeeps
  <2> QED BY <2>1, <2>2, <2>3
<1> QED BY <1>3, <1>4, <1>5

\* Migrating: each body before its stamp.
LEMMA MigrationKeeps ==
  ASSUME SchemaInv, NEW p \in Openers, Body(p) \/ StampBody(p) \/ Migrated(p)
  PROVE  SchemaInv'
<1>1. /\ View(p) \in Files /\ InStep(View(p)) /\ Needs(View(p), at[p], seen[p])
      /\ Latest \in Nat /\ \A v \in 2..Latest : Made(v) \in Tables
  BY ViewIs, TablesAre DEF SchemaInv
<1>2. at[p] \in {"body", "stamp"}
  BY DEF Body, StampBody, Migrated
<1>3. seen[p] \in View(p).stamps /\ seen[p] \in 1..Latest
  BY <1>1, <1>2 DEF Needs, AtBodies, Files
<1>4. /\ Due(p) = {} => seen[p] = Latest
      /\ Due(p) # {} => seen[p] < Latest /\ Min(Due(p)) = seen[p] + 1 /\ seen[p] + 1 \in 2..Latest
  BY <1>3, DueIs
<1>5. {"body", "stamp", "filings"} \subseteq Steps \ {"ready"}
  BY DEF Steps, AtBodies, AtFilings
<1>6. CASE Body(p)
  <2> DEFINE t == Made(seen[p] + 1)
  <2>1. Create(p, t, "stamp") /\ t \in Tables /\ seen[p] < Latest
    BY <1>1, <1>4, <1>6 DEF Body
  <2>2. \A d \in Files : Holds(d, View(p)) /\ t \in d.tables => Needs(d, "stamp", seen[p])
    BY <1>3, <2>1 DEF Needs, Holds, AtBodies, AtFilings
  <2>3. View(p).stamps # {}
    BY <1>3
  <2> HIDE DEF t
  <2> QED BY <1>5, <2>1, <2>2, <2>3, CreateKeeps
<1>7. CASE StampBody(p)
  <2>1. at[p] = "stamp" /\ seen[p] < Latest /\ Made(seen[p] + 1) \in View(p).tables
    BY <1>1, <1>7 DEF StampBody, Needs
  <2>2. Due(p) # {}
    <3>1. seen[p] + 1 \in Due(p)
      BY <1>1, <1>3, <2>1 DEF Due
    <3> QED BY <3>1
  <2> DEFINE v == seen[p] + 1
  <2>3. Min(Due(p)) = v /\ v \in 2..Latest /\ v - 1 = seen[p] /\ v \in Nat /\ v \in 1..Latest
    BY <1>3, <1>4, <2>2
  <2>4. /\ Free(p) /\ v \notin View(p).stamps /\ owner' = {p}
        /\ work' = [View(p) EXCEPT !.stamps = @ \cup {v}]
        /\ at' = [at EXCEPT ![p] = "body"] /\ seen' = [seen EXCEPT ![p] = v]
        /\ file' = file /\ odd' = odd
    BY <1>7, <2>3 DEF StampBody, Then
  <2>5. \A d \in Files : InStep(d) /\ v \in d.stamps => Needs(d, "body", v)
    BY DEF Needs, AtBodies, AtFilings
  <2>6. v > 1 => v - 1 \in View(p).stamps /\ Made(v) \in View(p).tables
    BY <1>3, <2>1, <2>3
  <2> HIDE DEF v
  <2> QED BY <1>5, <2>3, <2>4, <2>5, <2>6, StampKeeps
<1>8. CASE Migrated(p)
  <2>1. /\ at' = [at EXCEPT ![p] = "filings"] /\ UNCHANGED <<file, work, owner, seen, odd>>
        /\ Due(p) = {}
    BY <1>8 DEF Migrated, Then
  <2>2. Needs(View(p), "filings", seen[p])
    BY <1>3, <1>4, <2>1 DEF Needs, AtBodies, AtFilings
  <2>3. seen' = [seen EXCEPT ![p] = seen[p]] /\ seen[p] \in Nat
    BY <1>3, <2>1 DEF SchemaInv, SchemaTypes
  <2> QED BY <1>5, <2>1, <2>2, <2>3, ReadKeeps
<1> QED BY <1>6, <1>7, <1>8

\* The idempotent tables, and the commit.
LEMMA TablesKeep ==
  ASSUME SchemaInv, NEW p \in Openers, CreateFilings(p) \/ CreateTaskHistory(p) \/ Commit(p)
  PROVE  SchemaInv'
<1>1. Needs(View(p), at[p], seen[p]) /\ View(p).stamps # {} /\ "filings" \in Tables /\ "task_history" \in Tables
  <2>1. at[p] \in AtBodies
    BY DEF CreateFilings, CreateTaskHistory, Commit, AtBodies, AtFilings
  <2>2. Needs(View(p), at[p], seen[p])
    BY DEF SchemaInv
  <2> QED BY <2>1, <2>2, TablesAre DEF Needs
<1>2. {"task_history", "commit"} \subseteq Steps \ {"ready"}
  BY DEF Steps, AtBodies, AtFilings
<1>3. CASE CreateFilings(p)
  <2>1. \A d \in Files : Holds(d, View(p)) /\ "filings" \in d.tables => Needs(d, "task_history", seen[p])
    BY <1>1, <1>3 DEF CreateFilings, Needs, Holds, AtBodies, AtFilings
  <2> QED BY <1>1, <1>2, <1>3, <2>1, CreateKeeps DEF CreateFilings
<1>4. CASE CreateTaskHistory(p)
  <2>1. \A d \in Files : Holds(d, View(p)) /\ "task_history" \in d.tables => Needs(d, "commit", seen[p])
    BY <1>1, <1>4 DEF CreateTaskHistory, Needs, Holds, AtBodies, AtFilings
  <2> QED BY <1>1, <1>2, <1>4, <2>1, CreateKeeps DEF CreateTaskHistory
<1>5. CASE Commit(p)
  <2>1. /\ at[p] = "commit" /\ file' = (IF p \in owner THEN work ELSE file) /\ owner' = owner \ {p}
        /\ at' = [at EXCEPT ![p] = "ready"] /\ UNCHANGED <<work, seen, odd>>
    BY <1>5 DEF Commit, Then
  <2>2. SchemaTypes /\ InStep(file) /\ InStep(work) /\ Ahead
    BY DEF SchemaInv
  <2>3. file' = View(p) /\ View(p)' = View(p) /\ p \notin owner'
    BY <2>1 DEF View
  <2>4. SchemaTypes' /\ InStep(file)' /\ InStep(work)' /\ Holds(file', file)
    BY <2>1, <2>2 DEF SchemaTypes, InStep, Holds, Ahead, Steps, AtBodies, AtFilings
  <2>5. Ahead'
    BY <2>1, <2>2 DEF Ahead, Holds, SchemaTypes
  <2>6. Needs(View(p), "ready", seen[p])
    BY <1>1, <2>1 DEF Needs, AtBodies, AtFilings
  <2>7. at'[p] = "ready" /\ \A q \in Openers \ {p} : at'[q] = at[q]
    BY <2>1, <2>2 DEF SchemaTypes
  <2>8. \A q \in owner \ {p} : q \in owner'
    BY <2>1
  <2> QED BY <1>1, <2>1, <2>3, <2>4, <2>5, <2>6, <2>7, <2>8, StepOfOne
<1> QED BY <1>3, <1>4, <1>5

\* The files a build meets are in step.
LEMMA SchemaStarts == SchemaInit => SchemaInv
<1> SUFFICES ASSUME SchemaInit PROVE SchemaInv
  OBVIOUS
<1>1. file \in Files /\ InStep(file)
  <2>1. file \in Found /\ Latest \in 1..3
    BY SchemaAssumption DEF SchemaInit
  <2>2. CASE file \in {[tables |-> t, stamps |-> {}] : t \in SUBSET V1}
    BY <2>2 DEF Files, InStep, Tables
  <2>3. CASE file \in {[tables |-> V1 \cup {Made(v) : v \in 2..n}, stamps |-> 1..n] : n \in 1..Latest}
    <3>1. PICK n \in 1..Latest : file = [tables |-> V1 \cup {Made(v) : v \in 2..n}, stamps |-> 1..n]
      BY <2>3
    <3> QED BY <2>1, <3>1 DEF Files, InStep, Tables
  <2> QED BY <2>1, <2>2, <2>3 DEF Found
<1>2. work = file /\ owner = {} /\ at = [p \in Openers |-> "closed"] /\ seen = [p \in Openers |-> 0]
  BY DEF SchemaInit
<1>3. SchemaTypes /\ Ahead /\ InStep(work)
  BY <1>1, <1>2 DEF SchemaTypes, Ahead, Holds, Steps
<1>4. \A p \in Openers : Needs(View(p), at[p], seen[p]) /\ at[p] # "ready"
  BY <1>2 DEF Needs, AtBodies, AtFilings
<1>5. NeverMadeUnusable
  BY DEF SchemaInit, NeverMadeUnusable
<1> QED BY <1>1, <1>3, <1>4, <1>5 DEF SchemaInv

\* The inductive invariant holds throughout, whichever driver commits what when.
THEOREM SchemaInvariant == SchemaSpec => []SchemaInv
<1>1. SchemaInv /\ UNCHANGED schemaVars => SchemaInv'
  BY DEF SchemaInv, SchemaTypes, InStep, Ahead, Holds, Needs, View, NeverMadeUnusable, schemaVars,
         Malformed, Partial
<1>2. ASSUME SchemaInv, NEW p \in Openers, Statement(p) \/ Exit(p) PROVE SchemaInv'
  <2>1. CASE Refused(p) \/ Exit(p)
    BY <1>2, <2>1, LeaveKeeps DEF Refused, Exit
  <2> QED BY <1>2, <2>1, BootstrapKeeps, MigrationKeeps, TablesKeep DEF Statement
<1>3. SchemaInv /\ [SchemaNext]_schemaVars => SchemaInv'
  BY <1>1, <1>2 DEF SchemaNext
<1> QED BY <1>3, SchemaStarts, PTL DEF SchemaSpec

\* A committed stamp stands for its table, an opened registry is complete, and no
\* open leaves a file that later ones refuse (database/migrations.py:239, 249).
THEOREM RegistrySound == SchemaSpec => []SchemaSound
<1>1. ASSUME SchemaInv PROVE SchemaSound
  <2>1. file \in Files /\ InStep(file) /\ Latest \in 1..3
    BY <1>1, SchemaAssumption DEF SchemaInv, SchemaTypes
  <2>2. StampMeansTables
    BY <2>1 DEF StampMeansTables, InStep
  <2>3. ASSUME NEW p \in Openers, at[p] = "ready" PROVE Complete(file)
    <3>1. Needs(file, "ready", seen[p])
      BY <1>1, <2>3 DEF SchemaInv, View
    <3>2. Latest \in file.stamps /\ V1 \subseteq file.tables
      BY <3>1 DEF Needs, AtBodies, AtFilings, V1
    <3>3. \A v \in 2..Latest : Made(v) \in file.tables
      BY <2>1, <3>2 DEF InStep
    <3>4. Version(file) = Latest
      BY <2>1, <3>2, VersionIs
    <3> QED BY <2>1, <3>2, <3>3, <3>4 DEF Complete, Tables
  <2> QED BY <1>1, <2>2, <2>3 DEF SchemaInv, SchemaSound, OpenMeansReady
<1> QED BY <1>1, SchemaInvariant, PTL

-----------------------------------------------------------------------------
(* Archives.                                                               *)

\* Which chunks a store, an artefact or an export has of each filing, and the
\* filings of a registry, each with the chunks it was registered with.
Held == [Filings -> SUBSET Index]
IsCount(c) == DOMAIN c \subseteq Filings /\ \A f \in DOMAIN c : c[f] \subseteq Index

ArchiveTypes ==
  /\ DOMAIN vec = Hosts /\ DOMAIN db = Hosts /\ DOMAIN marred = Hosts
  /\ \A h \in Hosts :
       /\ DOMAIN vec[h] = {"is", "stamp", "held"} /\ vec[h].held \in Held
       /\ DOMAIN db[h] = {"is", "version", "count"} /\ IsCount(db[h].count)
       /\ vec[h].is \in {"whole", "torn", "gone"} /\ db[h].is \in {"whole", "torn", "gone"}
       /\ vec[h].is = "gone" => vec[h].held = NoChunks
       /\ db[h].is = "gone" => db[h].count = NoRows
  /\ DOMAIN tar = {"is", "stamp", "version", "schema", "key", "held", "count"}
  /\ tar.held \in Held /\ IsCount(tar.count)
  /\ DOMAIN stage = {"held", "count", "version", "schema"} /\ stage.held \in Held /\ IsCount(stage.count)
  /\ DOMAIN dump = {"manifest", "lines", "fetched", "residue"} /\ dump.fetched \in Held
  /\ DOMAIN cmd = {"is", "host", "step", "todo"} /\ cmd.host \in Hosts
  /\ DOMAIN was = {"host", "vec", "db", "asked"} /\ DOMAIN was.db = {"is", "version", "count"}

\* One command at a time, and what it may be at.
Control ==
  /\ cmd.is \in {"none", "backup", "restore", "export", "import"}
  /\ cmd.is \in {"backup", "export"} => cmd.host = Here
  /\ cmd.is = "import" => cmd.step \in {"claim", "unclaim"} \cup Filings
  /\ cmd.is \in {"restore", "import"} => was.host = cmd.host
  /\ cmd.is = "restore" /\ cmd.host = Here => app.step = "off"
  /\ cmd.is # "none" => result = "none"
  /\ result = "imported" => was.host \in Hosts

\* What is extracted is the artefact, and an accepted one; the host's stores are
\* as they were until it is, and its filings marked from then on.
Restoring ==
  cmd.is = "restore" =>
    /\ Restorable => Accepts(cmd.host)
    /\ cmd.step \in {"extract", "clear"} => vec[cmd.host] = was.vec /\ db[cmd.host] = was.db
    /\ cmd.step # "extract" => Restorable /\ stage.held = tar.held /\ stage.count = tar.count
    /\ cmd.step \in {"unlink", "sqlite", "finish"} => vec[cmd.host] = Collection(tar.stamp, tar.held)
    /\ cmd.step \notin {"extract", "clear"} => \A f \in Filings : marred[cmd.host][f] = "restored"

BackingUp == cmd.is = "backup" => Whole(Here)

\* The application runs on stores it has opened.
Running == app.step # "off" => Whole(Here)

\* A manifest stands for its lines, unless lines are being written under it.
Dumped ==
  /\ dump.manifest /\ ~dump.residue => dump.lines = LinesOf(dump.fetched)
  /\ cmd.is = "export" /\ cmd.step = "write" /\ dump.manifest => dump.residue

\* What an import has read and not added yet, and which filings it is done with:
\* the one it is at is not one the host had.
Importing ==
  cmd.is = "import" =>
    /\ dump.manifest /\ Whole(cmd.host) /\ cmd.todo \subseteq Filings
    /\ \A f \in cmd.todo : f # cmd.step /\ cmd.step # "unclaim" => stage.held[f] = Lines(f)
    /\ cmd.step \in Filings => cmd.step \in cmd.todo /\ cmd.step \notin DOMAIN was.db.count
    /\ cmd.step = "unclaim" => cmd.todo \cap DOMAIN was.db.count = {}
    /\ cmd.step # "unclaim" =>
         \A f \in was.asked : f \in Rows(cmd.host) \/ (f \in cmd.todo /\ f # cmd.step)

\* Nobody has left the filing half stored, and nobody of the application is at it.
Fine(h, f) == marred[h][f] = "no" /\ ~AppIsAt(h, f)

\* The chunks the import at the filing is still to add.
BeingAdded(h, f) ==
  IF cmd.is = "import" /\ cmd.host = h /\ cmd.step = f THEN stage.held[f] ELSE {}

\* A registered filing has its chunks, or the import at it will add them ...
Registered ==
  \A h \in Hosts : \A f \in Rows(h) : Fine(h, f) =>
    db[h].count[f] \subseteq vec[h].held[f] \cup BeingAdded(h, f)

\* ... and one the import has brought has all the export read.
Brought ==
  (cmd.is = "import" \/ result = "imported") /\ ~dump.residue =>
    \A h \in Hosts : was.host = h => \A f \in Rows(h) \ DOMAIN was.db.count :
      Fine(h, f) => dump.fetched[f] \subseteq vec[h].held[f] \cup BeingAdded(h, f)

\* An import that succeeded has ended.
Ended == result = "imported" => cmd.is = "none" /\ (dump.residue \/ was.asked \subseteq Rows(was.host))

ArchiveInv ==
  /\ ArchiveTypes /\ Control
  /\ Restoring /\ BackingUp /\ Running /\ Dumped /\ Importing
  /\ Registered /\ Brought /\ Ended /\ RestoreSafe /\ ImportKeepsExisting

\* An import that has succeeded has brought what it was asked for.
LEMMA ImportedHas ==
  ASSUME ArchiveInv
  PROVE  ImportSafe
<1> SUFFICES ASSUME result = "imported", ~dump.residue
             PROVE  /\ was.asked \subseteq Rows(was.host)
                    /\ \A f \in Rows(was.host) : Fine(was.host, f) =>
                         /\ db[was.host].count[f] \subseteq vec[was.host].held[f]
                         /\ f \in DOMAIN was.db.count \/ dump.fetched[f] \subseteq vec[was.host].held[f]
  BY DEF ArchiveInv, ImportSafe, ImportedWhole, Fine
<1>1. was.host \in Hosts /\ cmd.is = "none" /\ was.asked \subseteq Rows(was.host)
  BY DEF ArchiveInv, Control, Ended
<1>2. \A h, f : BeingAdded(h, f) = {}
  BY <1>1 DEF BeingAdded
<1> QED BY <1>1, <1>2 DEF ArchiveInv, Registered, Brought

\* A command goes on, or comes to its end.
LEMMA GoOnIs ==
  ASSUME ArchiveTypes, NEW s, GoOn(s)
  PROVE  /\ DOMAIN cmd' = {"is", "host", "step", "todo"} /\ cmd'.step = s
         /\ cmd'.is = cmd.is /\ cmd'.host = cmd.host /\ cmd'.todo = cmd.todo
         /\ result' = result /\ was' = was
  BY DEF ArchiveTypes, GoOn

\* No command, and nothing read.
LEMMA IdleIs ==
  /\ DOMAIN Idle = {"is", "host", "step", "todo"} /\ Idle.is = "none" /\ Idle.host = Here
  /\ DOMAIN Nothing = {"held", "count", "version", "schema"} /\ Nothing.held \in Held /\ IsCount(Nothing.count)
  /\ DOMAIN NoWas = {"host", "vec", "db", "asked"} /\ DOMAIN NoWas.db = {"is", "version", "count"}
  /\ NoWas.host = Here
  BY DEF Idle, Nothing, NoWas, NoChunks, NoRows, Held, IsCount, BadDb

\* Opening a host's stores keeps what they hold; an absent one is created empty.
LEMMA OpenedIs ==
  ASSUME ArchiveTypes, NEW h \in Hosts, CanOpen(h)
  PROVE  /\ DOMAIN OpenedVec(h) = {"is", "stamp", "held"} /\ OpenedVec(h).held = vec[h].held
         /\ OpenedVec(h).is = "whole"
         /\ DOMAIN OpenedDb(h) = {"is", "version", "count"} /\ OpenedDb(h).count = db[h].count
         /\ OpenedDb(h).is = "whole"
  BY DEF ArchiveTypes, CanOpen, OpenedVec, OpenedDb, Collection, File, NoChunks, NoRows, Hosts

\* The filings S of the host are marked, and no others.
LEMMA MarkIs ==
  ASSUME ArchiveTypes, NEW h \in Hosts, NEW S, NEW why, Mark(h, S, why)
  PROVE  /\ DOMAIN marred' = Hosts
         /\ \A f \in Filings : marred'[h][f] = IF f \in S THEN why ELSE marred[h][f]
         /\ \A k \in Hosts \ {h} : marred'[k] = marred[k]
  BY DEF ArchiveTypes, Mark

\* A step that leaves rows and chunks alone, and starts or stops nobody at a filing
\* it does not mark.
LEMMA StillRegistered ==
  ASSUME ArchiveTypes, Registered,
         \A h \in Hosts : vec'[h].held = vec[h].held /\ db'[h].count = db[h].count,
         \A h \in Hosts : \A f \in Filings :
           Fine(h, f)' => Fine(h, f) /\ BeingAdded(h, f) \subseteq BeingAdded(h, f)'
  PROVE  Registered'
<1> SUFFICES ASSUME NEW h \in Hosts, NEW f \in Rows(h)', Fine(h, f)'
             PROVE  db'[h].count[f] \subseteq vec'[h].held[f] \cup BeingAdded(h, f)'
  BY DEF Registered
<1>1. f \in Rows(h) /\ f \in Filings
  BY DEF Rows, ArchiveTypes, IsCount
<1>2. db[h].count[f] \subseteq vec[h].held[f] \cup BeingAdded(h, f)
  BY <1>1 DEF Registered
<1> QED BY <1>1, <1>2

\* The application is stopped: what it is at is marked.
LEMMA StopKeeps ==
  ASSUME ArchiveInv, AppStop
  PROVE  ArchiveInv'
<1>1. Here \in Hosts /\ There \in Hosts /\ Here # There /\ "none" # "off"
  BY ArchiveAssumption DEF Hosts
<1>2. /\ UNCHANGED <<conf, vec, db, tar, dump, cmd, stage, result, was>> /\ app'.step = "off"
      /\ Mark(Here, Filings \cap {app.filing}, "cut")
  BY DEF AppStop, AppIdle, AppAt, data
<1>3. /\ DOMAIN marred' = Hosts
      /\ \A f \in Filings : marred'[Here][f] = IF f = app.filing THEN "cut" ELSE marred[Here][f]
      /\ \A k \in Hosts \ {Here} : marred'[k] = marred[k]
  BY <1>1, <1>2, MarkIs DEF ArchiveInv
<1>4. ASSUME NEW h \in Hosts, NEW f \in Filings PROVE Fine(h, f)' => Fine(h, f)
  BY <1>1, <1>3 DEF Fine, AppIsAt
<1>5. \A h, f : BeingAdded(h, f)' = BeingAdded(h, f)
  BY <1>2 DEF BeingAdded
<1>6. ArchiveTypes' /\ Control' /\ BackingUp' /\ Running' /\ Dumped' /\ Importing' /\ Ended'
  BY <1>2, <1>3 DEF ArchiveInv, ArchiveTypes, Control, BackingUp, Running, Dumped, Importing, Ended, Whole, Rows, Lines
<1>7. Restoring'
  <2>1. cmd.is = "restore" /\ cmd.host = Here => FALSE
    BY DEF ArchiveInv, Control, AppStop
  <2>2. cmd.is = "restore" => cmd.host \in Hosts \ {Here}
    BY <2>1 DEF ArchiveInv, ArchiveTypes
  <2>3. cmd.is = "restore" => marred'[cmd.host] = marred[cmd.host]
    BY <1>3, <2>2
  <2> QED BY <1>2, <2>3 DEF ArchiveInv, Restoring, Restorable, Accepts
<1>8. Registered'
  BY <1>2, <1>4, <1>5, StillRegistered DEF ArchiveInv
<1>9. Brought'
  <2> SUFFICES ASSUME cmd.is = "import" \/ result = "imported", ~dump.residue,
                      NEW h \in Hosts, was.host = h, NEW f \in Rows(h) \ DOMAIN was.db.count, Fine(h, f)'
               PROVE  dump.fetched[f] \subseteq vec[h].held[f] \cup BeingAdded(h, f)
    BY <1>2, <1>5 DEF Brought, Rows
  <2>1. f \in Filings
    BY DEF ArchiveInv, ArchiveTypes, Rows, IsCount
  <2> QED BY <1>4, <2>1 DEF ArchiveInv, Brought
<1>10. RestoreSafe' /\ ImportKeepsExisting'
  BY <1>2 DEF ArchiveInv, RestoreSafe, RefusalKeepsLive, RestoredIsArtefact, LiveOrArtefact, Whole, Restorable, Accepts,
       ImportKeepsExisting, Rows
<1> QED BY <1>6, <1>7, <1>8, <1>9, <1>10 DEF ArchiveInv

\* What is still remembered of the stores once the application has touched T.
LEMMA ForgetIs ==
  ASSUME ArchiveTypes, NEW T, Forget(T)
  PROVE  /\ result' = "none"
         /\ DOMAIN was' = {"host", "vec", "db", "asked"} /\ DOMAIN was'.db = {"is", "version", "count"}
         /\ cmd.is # "none" =>
              /\ was'.host = was.host /\ was'.vec = was.vec
              /\ cmd.host # Here => was' = was
              /\ cmd.host = Here =>
                   /\ was'.asked = was.asked \ T
                   /\ DOMAIN was'.db.count = DOMAIN was.db.count \ T
              /\ \A f \in DOMAIN was'.db.count : was'.db.count[f] = was.db.count[f]
<1>1. DOMAIN was = {"host", "vec", "db", "asked"} /\ DOMAIN was.db = {"is", "version", "count"}
  BY DEF ArchiveTypes
<1>2. CASE cmd.is = "none"
  BY <1>2, IdleIs DEF Forget
<1>3. CASE cmd.is # "none" /\ cmd.host # Here
  BY <1>1, <1>3 DEF Forget
<1>4. CASE cmd.is # "none" /\ cmd.host = Here
  <2> DEFINE r == Restrict(was.db.count, DOMAIN was.db.count \ T)
  <2>1. DOMAIN r = DOMAIN was.db.count \ T /\ \A f \in DOMAIN r : r[f] = was.db.count[f]
    BY DEF Restrict
  <2>2. result' = "none" /\ was' = [was EXCEPT !.db.count = r, !.asked = @ \ T]
    BY <1>4 DEF Forget
  <2> HIDE DEF r
  <2>3. /\ DOMAIN was' = DOMAIN was /\ DOMAIN was'.db = DOMAIN was.db
        /\ was'.host = was.host /\ was'.vec = was.vec
        /\ was'.asked = was.asked \ T /\ was'.db.count = r
    BY <1>1, <2>2
  <2> QED BY <1>1, <1>4, <2>1, <2>2, <2>3
<1> QED BY <1>2, <1>3, <1>4

\* A step of the application that touches the filings T, and leaves one of them that
\* is registered, and not left half done, with every chunk.
LEMMA TouchKeeps ==
  ASSUME ArchiveInv, NEW T, T \subseteq Filings, Forget(T), UNCHANGED <<conf, tar, dump, cmd, stage>>,
         ~(cmd.is = "restore" /\ cmd.host = Here),
         vec'[There] = vec[There], db'[There] = db[There], marred'[There] = marred[There],
         DOMAIN vec' = Hosts, DOMAIN db' = Hosts, DOMAIN marred' = Hosts,
         DOMAIN vec'[Here] = {"is", "stamp", "held"}, vec'[Here].held \in Held, vec'[Here].is = "whole",
         DOMAIN db'[Here] = {"is", "version", "count"}, IsCount(db'[Here].count), db'[Here].is = "whole",
         \A f \in Filings \ T :
           /\ vec'[Here].held[f] = vec[Here].held[f]
           /\ f \in DOMAIN db'[Here].count <=> f \in DOMAIN db[Here].count
           /\ f \in DOMAIN db[Here].count => db'[Here].count[f] = db[Here].count[f]
           /\ Fine(Here, f)' => Fine(Here, f),
         \A f \in T : f \in DOMAIN db'[Here].count /\ Fine(Here, f)' => vec'[Here].held[f] = Index
  PROVE  ArchiveInv'
<1>1. Here \in Hosts /\ There \in Hosts /\ Here # There /\ \A h \in Hosts : h = Here \/ h = There
  BY ArchiveAssumption DEF Hosts
<1> USE <1>1
<1>2. /\ result' = "none"
      /\ DOMAIN was' = {"host", "vec", "db", "asked"} /\ DOMAIN was'.db = {"is", "version", "count"}
      /\ cmd.is # "none" =>
           /\ was'.host = was.host /\ was'.vec = was.vec
           /\ cmd.host # Here => was' = was
           /\ cmd.host = Here =>
                /\ was'.asked = was.asked \ T
                /\ DOMAIN was'.db.count = DOMAIN was.db.count \ T
           /\ \A f \in DOMAIN was'.db.count : was'.db.count[f] = was.db.count[f]
  BY ForgetIs DEF ArchiveInv
<1>3. ArchiveTypes'
  BY <1>2 DEF ArchiveInv, ArchiveTypes
<1>4. Control' /\ BackingUp' /\ Running' /\ Dumped' /\ Ended'
  BY <1>2 DEF ArchiveInv, Control, BackingUp, Running, Whole, Dumped, Ended
<1>5. Restoring'
  <2> SUFFICES ASSUME cmd.is = "restore" PROVE Restoring'
    BY DEF Restoring
  <2>1. cmd.host = There /\ was' = was
    BY <1>2 DEF ArchiveInv, ArchiveTypes
  <2> QED BY <2>1 DEF ArchiveInv, Restoring, Restorable, Accepts
<1>6. RestoreSafe'
  BY <1>2 DEF ArchiveInv, RestoreSafe, RefusalKeepsLive, RestoredIsArtefact, LiveOrArtefact, Whole
<1>7. \A h, f : BeingAdded(h, f)' = BeingAdded(h, f)
  BY DEF BeingAdded
<1>8. \A f \in Filings : Fine(There, f)' => Fine(There, f)
  BY DEF Fine, AppIsAt
<1>9. Registered'
  <2> SUFFICES ASSUME NEW h \in Hosts, NEW f \in DOMAIN db'[h].count, Fine(h, f)'
               PROVE  db'[h].count[f] \subseteq vec'[h].held[f] \cup BeingAdded(h, f)
    BY <1>7 DEF Registered, Rows
  <2>1. f \in Filings
    BY <1>3 DEF ArchiveTypes, IsCount
  <2>2. CASE h = Here /\ f \in T
    BY <2>2 DEF IsCount
  <2>3. CASE ~(h = Here /\ f \in T)
    <3>1. f \in Rows(h) /\ db'[h].count[f] = db[h].count[f] /\ vec'[h].held[f] = vec[h].held[f] /\ Fine(h, f)
      BY <1>8, <2>1, <2>3 DEF Rows
    <3> QED BY <3>1 DEF ArchiveInv, Registered
  <2> QED BY <2>2, <2>3
<1>10. Brought'
  <2> SUFFICES ASSUME cmd.is = "import", ~dump.residue,
                      NEW h \in Hosts, was'.host = h, NEW f \in DOMAIN db'[h].count \ DOMAIN was'.db.count, Fine(h, f)'
               PROVE  dump.fetched[f] \subseteq vec'[h].held[f] \cup BeingAdded(h, f)
    BY <1>2, <1>7 DEF Brought, Rows
  <2>1. f \in Filings /\ was.host = h /\ cmd.host = h
    BY <1>2, <1>3 DEF ArchiveTypes, IsCount, ArchiveInv, Control
  <2>2. CASE h = Here /\ f \in T
    <3>1. vec'[h].held[f] = Index
      BY <2>2
    <3>2. dump.fetched[f] \subseteq Index
      BY <2>1 DEF ArchiveInv, ArchiveTypes, Held
    <3> QED BY <3>1, <3>2
  <2>3. CASE ~(h = Here /\ f \in T)
    <3>1. f \in Rows(h) /\ vec'[h].held[f] = vec[h].held[f] /\ Fine(h, f)
      BY <1>8, <2>1, <2>3 DEF Rows
    <3>2. f \notin DOMAIN was.db.count
      BY <1>2, <2>1, <2>3
    <3> QED BY <2>1, <3>1, <3>2 DEF ArchiveInv, Brought
  <2> QED BY <2>2, <2>3
<1>11. ASSUME cmd.is = "import" PROVE Importing' /\ ImportKeepsExisting'
  <2>1. PICK h \in Hosts : h = cmd.host /\ h = was.host
    BY <1>11 DEF ArchiveInv, ArchiveTypes, Control
  <2>2. DOMAIN was'.db.count \subseteq DOMAIN was.db.count /\ was'.asked \subseteq was.asked
    BY <1>2, <1>11
  <2>3. Whole(cmd.host)'
    BY <1>11, <2>1 DEF ArchiveInv, Importing, Whole
  <2>4. ASSUME NEW f \in Filings, f \notin T \/ h = There
        PROVE  /\ f \in DOMAIN db'[h].count <=> f \in Rows(h)
               /\ f \in Rows(h) => db'[h].count[f] = db[h].count[f]
               /\ vec'[h].held[f] = vec[h].held[f]
    BY <2>4 DEF Rows
  <2>5. ASSUME NEW f \in was'.asked
        PROVE  f \in was.asked /\ (f \in T => h = There)
    BY <1>2, <1>11, <2>1, <2>5
  <2>6. cmd.step # "unclaim" =>
          \A f \in was'.asked : f \in DOMAIN db'[cmd.host].count \/ (f \in cmd.todo /\ f # cmd.step)
    <3> SUFFICES ASSUME cmd.step # "unclaim", NEW f \in was'.asked
                 PROVE  f \in DOMAIN db'[h].count \/ (f \in cmd.todo /\ f # cmd.step)
      BY <2>1
    <3>1. f \in Rows(h) \/ (f \in cmd.todo /\ f # cmd.step)
      BY <1>11, <2>1, <2>5 DEF ArchiveInv, Importing
    <3>2. f \in Rows(h) => f \in Filings
      BY DEF ArchiveInv, ArchiveTypes, Rows, IsCount
    <3> QED BY <2>4, <2>5, <3>1, <3>2
  <2>7. Importing'
    BY <1>2, <1>11, <2>2, <2>3, <2>6 DEF ArchiveInv, Importing, Rows, Lines
  <2>8. ImportKeepsExisting'
    <3> SUFFICES ASSUME NEW f \in DOMAIN was'.db.count
                 PROVE  /\ f \in DOMAIN db'[h].count /\ db'[h].count[f] = was'.db.count[f]
                        /\ vec'[h].held[f] = was.vec.held[f]
      BY <1>2, <1>11, <2>1 DEF ImportKeepsExisting, Rows
    <3>1. /\ f \in Rows(h) /\ db[h].count[f] = was.db.count[f] /\ vec[h].held[f] = was.vec.held[f]
      BY <1>11, <2>1, <2>2 DEF ArchiveInv, ImportKeepsExisting
    <3>2. f \in Filings
      BY <3>1 DEF ArchiveInv, ArchiveTypes, Rows, IsCount
    <3>3. f \in T => h = There
      BY <1>2, <1>11, <2>1
    <3>4. was'.db.count[f] = was.db.count[f]
      BY <1>2, <1>11
    <3> QED BY <2>4, <3>1, <3>2, <3>3, <3>4
  <2> QED BY <2>7, <2>8
<1>12. Importing' /\ ImportKeepsExisting'
  BY <1>2, <1>11 DEF Importing, ImportKeepsExisting
<1> QED BY <1>3, <1>4, <1>5, <1>6, <1>9, <1>10, <1>12 DEF ArchiveInv

\* A row more, a row less.
LEMMA WithRowIs ==
  ASSUME NEW c, IsCount(c), NEW f, f \in Filings
  PROVE  /\ IsCount(WithRow(c, f, Index)) /\ DOMAIN WithRow(c, f, Index) = DOMAIN c \cup {f}
         /\ WithRow(c, f, Index)[f] = Index
         /\ \A g \in DOMAIN c \ {f} : WithRow(c, f, Index)[g] = c[g]
  BY DEF IsCount, WithRow
LEMMA WithoutRowIs ==
  ASSUME NEW c, IsCount(c), NEW f
  PROVE  /\ IsCount(WithoutRow(c, f)) /\ DOMAIN WithoutRow(c, f) = DOMAIN c \ {f}
         /\ \A g \in DOMAIN c \ {f} : WithoutRow(c, f)[g] = c[g]
  BY DEF IsCount, WithoutRow, Restrict

\* The application beside a command: it only touches the stores of its own host.
LEMMA ApplicationKeeps ==
  ASSUME ArchiveInv, AppStart \/ AppStop \/ AppStep
  PROVE  ArchiveInv'
<1>1. Here \in Hosts /\ There \in Hosts /\ Here # There
  BY ArchiveAssumption DEF Hosts
<1>2. /\ DOMAIN vec = Hosts /\ DOMAIN db = Hosts /\ DOMAIN marred = Hosts
      /\ DOMAIN vec[Here] = {"is", "stamp", "held"} /\ vec[Here].held \in Held
      /\ DOMAIN db[Here] = {"is", "version", "count"} /\ IsCount(db[Here].count)
  BY <1>1 DEF ArchiveInv, ArchiveTypes
<1>3. CASE AppStart
  <2>1. /\ vec' = [vec EXCEPT ![Here] = OpenedVec(Here)] /\ db' = [db EXCEPT ![Here] = OpenedDb(Here)]
        /\ CanOpen(Here) /\ Forget({}) /\ ~(cmd.is = "restore" /\ cmd.host = Here)
        /\ UNCHANGED <<conf, tar, dump, cmd, stage, marred>> /\ app' = AppIdle("on")
    BY <1>3 DEF AppStart
  <2>2. /\ DOMAIN OpenedVec(Here) = {"is", "stamp", "held"} /\ OpenedVec(Here).held = vec[Here].held
        /\ OpenedVec(Here).is = "whole"
        /\ DOMAIN OpenedDb(Here) = {"is", "version", "count"} /\ OpenedDb(Here).count = db[Here].count
        /\ OpenedDb(Here).is = "whole"
    BY <1>1, <2>1, OpenedIs DEF ArchiveInv
  <2>3. /\ DOMAIN vec' = Hosts /\ vec'[There] = vec[There] /\ vec'[Here] = OpenedVec(Here)
        /\ DOMAIN db' = Hosts /\ db'[There] = db[There] /\ db'[Here] = OpenedDb(Here)
    BY <1>1, <1>2, <2>1
  <2>4. app.step = "off"
    BY <1>3 DEF AppStart
  <2>5. \A f \in Filings : Fine(Here, f)' => Fine(Here, f)
    BY <2>1, <2>4 DEF Fine, AppIsAt
  <2> QED BY <1>2, <2>1, <2>2, <2>3, <2>5, TouchKeeps
<1>4. CASE AppStep
  <2>1. PICK f \in Filings :
          /\ \/ /\ app.step = "on" /\ f \notin Rows(Here)
                /\ db' = [db EXCEPT ![Here].count = WithRow(@, f, Index)]
                /\ app' = AppAt("add", f) /\ Mark(Here, {f}, "no") /\ UNCHANGED vec
             \/ /\ app = AppAt("add", f)
                /\ vec' = [vec EXCEPT ![Here].held[f] = Index]
                /\ app' = AppIdle("on") /\ UNCHANGED <<db, marred>>
             \/ /\ app.step = "on" /\ f \in Rows(Here)
                /\ vec' = [vec EXCEPT ![Here].held[f] = {}]
                /\ app' = AppAt("row", f) /\ UNCHANGED <<db, marred>>
             \/ /\ app = AppAt("row", f)
                /\ db' = [db EXCEPT ![Here].count = WithoutRow(@, f)]
                /\ app' = AppIdle("on") /\ Mark(Here, {f}, "no") /\ UNCHANGED vec
          /\ Forget({f})
    BY <1>4 DEF AppStep
  <2>2. UNCHANGED <<conf, tar, dump, cmd, stage>>
    BY <1>4 DEF AppStep
  <2>3. app.step # "off" /\ \A g \in Filings \ {f} : ~AppIsAt(Here, g)
    BY <2>1 DEF AppAt, AppIsAt
  <2>4. vec[Here].is = "whole" /\ db[Here].is = "whole" /\ ~(cmd.is = "restore" /\ cmd.host = Here)
    BY <2>3 DEF ArchiveInv, Running, Control, Whole
  <2>5. /\ DOMAIN marred' = Hosts /\ marred'[There] = marred[There]
        /\ \A g \in Filings \ {f} : marred'[Here][g] = marred[Here][g]
    <3>1. CASE Mark(Here, {f}, "no")
      BY <1>1, <3>1, MarkIs DEF ArchiveInv
    <3>2. CASE UNCHANGED marred
      BY <1>2, <3>2
    <3> QED BY <2>1, <3>1, <3>2
  <2>6. \A g \in Filings \ {f} : Fine(Here, g)' => Fine(Here, g)
    BY <2>3, <2>5 DEF Fine
  <2>7. \/ vec' = vec
        \/ \E s \in {{}, Index} : vec' = [vec EXCEPT ![Here].held[f] = s]
    BY <2>1
  <2>8. /\ DOMAIN vec' = Hosts /\ vec'[There] = vec[There]
        /\ DOMAIN vec'[Here] = {"is", "stamp", "held"} /\ vec'[Here].is = "whole" /\ vec'[Here].held \in Held
        /\ \A g \in Filings \ {f} : vec'[Here].held[g] = vec[Here].held[g]
    BY <1>1, <1>2, <2>4, <2>7 DEF Held
  <2>9. \/ db' = db
        \/ db' = [db EXCEPT ![Here].count = WithRow(@, f, Index)]
        \/ db' = [db EXCEPT ![Here].count = WithoutRow(@, f)]
    BY <2>1
  <2>10. /\ DOMAIN db' = Hosts /\ db'[There] = db[There]
         /\ DOMAIN db'[Here] = {"is", "version", "count"} /\ db'[Here].is = "whole"
         /\ db'[Here].count \in {db[Here].count, WithRow(db[Here].count, f, Index), WithoutRow(db[Here].count, f)}
    BY <1>1, <1>2, <2>4, <2>9
  <2>11. /\ IsCount(db'[Here].count)
         /\ \A g \in Filings \ {f} :
              /\ g \in DOMAIN db'[Here].count <=> g \in DOMAIN db[Here].count
              /\ g \in DOMAIN db[Here].count => db'[Here].count[g] = db[Here].count[g]
    <3> DEFINE c == db[Here].count
    <3>1. CASE db'[Here].count = WithRow(c, f, Index)
      <4>1. /\ IsCount(WithRow(c, f, Index)) /\ DOMAIN WithRow(c, f, Index) = DOMAIN c \cup {f}
            /\ \A g \in DOMAIN c \ {f} : WithRow(c, f, Index)[g] = c[g]
        BY <1>2, WithRowIs, Zenon
      <4> QED BY <3>1, <4>1
    <3>2. CASE db'[Here].count = WithoutRow(c, f)
      <4>1. /\ IsCount(WithoutRow(c, f)) /\ DOMAIN WithoutRow(c, f) = DOMAIN c \ {f}
            /\ \A g \in DOMAIN c \ {f} : WithoutRow(c, f)[g] = c[g]
        BY <1>2, WithoutRowIs, Zenon
      <4> QED BY <3>2, <4>1
    <3> QED BY <1>2, <2>10, <3>1, <3>2
  <2>12. f \in DOMAIN db'[Here].count /\ Fine(Here, f)' => vec'[Here].held[f] = Index
    <3>1. CASE app' = AppAt("add", f) \/ app' = AppAt("row", f)
      BY <3>1 DEF Fine, AppIsAt, AppAt
    <3>2. CASE vec' = [vec EXCEPT ![Here].held[f] = Index]
      BY <1>1, <1>2, <3>2 DEF Held
    <3>3. CASE db' = [db EXCEPT ![Here].count = WithoutRow(@, f)]
      <4>1. db'[Here].count = WithoutRow(db[Here].count, f)
        BY <1>1, <1>2, <3>3
      <4>2. DOMAIN WithoutRow(db[Here].count, f) = DOMAIN db[Here].count \ {f}
        BY <1>2, WithoutRowIs, Zenon
      <4> QED BY <4>1, <4>2
    <3> QED BY <2>1, <3>1, <3>2, <3>3
  <2> QED BY <2>1, <2>2, <2>4, <2>5, <2>6, <2>8, <2>10, <2>11, <2>12, TouchKeeps
<1> QED BY <1>3, <1>4, StopKeeps

\* What a command that is not restoring or importing, or one that has just been
\* cut off, has to show.
LEMMA Plain ==
  ASSUME ArchiveTypes', Control', BackingUp', Running', Dumped', Registered', LiveOrArtefact',
         cmd'.is \in {"none", "backup", "export"},
         result' \in {"none", "backed up", "exported"}
  PROVE  ArchiveInv'
  BY DEF ArchiveInv, Restoring, Importing, Brought, Ended, RestoreSafe, RefusalKeepsLive, RestoredIsArtefact,
         ImportKeepsExisting

\* Cut off after any step: whatever is on disk is left as it is, and the filing an
\* import is at is marked.
LEMMA InterruptKeeps ==
  ASSUME ArchiveInv, Interrupt
  PROVE  ArchiveInv'
<1>1. /\ cmd' = Idle /\ result' = "none" /\ stage' = Nothing /\ was' = NoWas
      /\ UNCHANGED <<conf, vec, db, tar, dump, app>> /\ Mark(cmd.host, Claimed, "cut")
      /\ cmd.host \in Hosts /\ Here \in Hosts
  BY DEF Interrupt, data, ArchiveInv, ArchiveTypes, Hosts
<1>2. /\ DOMAIN marred' = Hosts
      /\ \A f \in Filings : marred'[cmd.host][f] = IF f \in Claimed THEN "cut" ELSE marred[cmd.host][f]
      /\ \A k \in Hosts \ {cmd.host} : marred'[k] = marred[k]
  BY <1>1, MarkIs DEF ArchiveInv
<1>3. ArchiveTypes'
  BY <1>1, <1>2, IdleIs DEF ArchiveInv, ArchiveTypes, Rows
<1>4. Control' /\ BackingUp' /\ Running'
  BY <1>1, IdleIs DEF ArchiveInv, Control, BackingUp, Running, Whole
<1>5. Dumped' /\ LiveOrArtefact'
  BY <1>1, IdleIs DEF ArchiveInv, Dumped, LiveOrArtefact, RestoreSafe, Whole, Restorable, Accepts
<1>6. ASSUME NEW h \in Hosts, NEW f \in Filings, Fine(h, f)' PROVE Fine(h, f) /\ BeingAdded(h, f) = {}
  <2>1. BeingAdded(h, f) # {} => h = cmd.host /\ f \in Claimed
    BY ArchiveAssumption DEF BeingAdded, Claimed
  <2> QED BY <1>1, <1>2, <1>6, <2>1 DEF Fine, AppIsAt
<1>7. Registered'
  BY <1>1, <1>6, StillRegistered DEF ArchiveInv
<1> QED BY <1>1, <1>3, <1>4, <1>5, <1>7, IdleIs, Plain

\* Of a command that is at no filing nothing is still to be added.
LEMMA NothingAhead ==
  ASSUME cmd.is # "import" \/ cmd.step \notin Filings
  PROVE  \A h : \A f \in Filings : BeingAdded(h, f) = {}
  BY DEF BeingAdded

\* A backup only writes its artefact, and reads stores it has found whole.
LEMMA BackupKeeps ==
  ASSUME ArchiveInv, Backup(Here) \/ SnapshotSqlite \/ CopyChromaTree \/ OpenTarball \/ Pack
  PROVE  ArchiveInv'
<1>1. Here \in Hosts
  BY DEF Hosts
<1>2. Whole(Here) /\ UNCHANGED <<conf, vec, db, dump, app, marred>> /\ cmd.is \in {"none", "backup"}
  BY DEF Backup, Begin, BackupChecks, SnapshotSqlite, CopyChromaTree, OpenTarball, Pack, Doing, BackingUp, data, ArchiveInv
<1>3. BackingUp' /\ Running' /\ LiveOrArtefact'
  BY <1>2 DEF BackingUp, Running, LiveOrArtefact, Whole, ArchiveInv
<1>4. Registered'
  <2>1. \A h : \A f \in Filings : BeingAdded(h, f) = {}
    BY <1>2, NothingAhead
  <2>2. \A h : \A f \in Filings : Fine(h, f)' <=> Fine(h, f)
    BY <1>2 DEF Fine, AppIsAt
  <2> QED BY <1>2, <2>1, <2>2, StillRegistered DEF ArchiveInv
<1>5. cmd'.is # "export" => Dumped'
  BY <1>2 DEF Dumped, ArchiveInv
<1>6. CASE Backup(Here)
  <2>1. /\ cmd' = [is |-> "backup", host |-> Here, step |-> "sqlite", todo |-> {}]
        /\ result' = "none" /\ stage' = [Nothing EXCEPT !.version = db[Here].version] /\ tar' = tar /\ was' = NoWas
    BY <1>6 DEF Backup, Begin, data
  <2>2. DOMAIN stage' = DOMAIN Nothing /\ stage'.held = Nothing.held /\ stage'.count = Nothing.count
    BY <2>1, IdleIs
  <2>3. ArchiveTypes' /\ Control'
    BY <1>1, <1>2, <2>1, <2>2, IdleIs DEF ArchiveTypes, Control, ArchiveInv
  <2> QED BY <1>3, <1>4, <1>5, <2>1, <2>3, Plain
<1>7. CASE SnapshotSqlite \/ CopyChromaTree \/ OpenTarball
  <2>1. PICK s : GoOn(s)
    BY <1>7 DEF SnapshotSqlite, CopyChromaTree, OpenTarball
  <2>2. /\ cmd.is = "backup" /\ cmd.host = Here /\ cmd'.is = "backup" /\ cmd'.host = Here /\ result' = "none"
        /\ was' = was /\ DOMAIN cmd' = {"is", "host", "step", "todo"}
    BY <1>7, <2>1, GoOnIs DEF SnapshotSqlite, CopyChromaTree, OpenTarball, Doing, Control, ArchiveInv
  <2>3. /\ DOMAIN stage' = {"held", "count", "version", "schema"}
        /\ stage'.held \in {stage.held, vec[Here].held} /\ stage'.count \in {stage.count, db[Here].count}
    <3>1. DOMAIN stage = {"held", "count", "version", "schema"}
      BY DEF ArchiveTypes, ArchiveInv
    <3>2. CASE SnapshotSqlite
      BY <2>2, <3>1, <3>2 DEF SnapshotSqlite
    <3>3. CASE CopyChromaTree
      BY <2>2, <3>1, <3>3 DEF CopyChromaTree
    <3>4. CASE OpenTarball
      BY <3>1, <3>4 DEF OpenTarball
    <3> QED BY <1>7, <3>2, <3>3, <3>4
  <2>4. tar' = tar \/ tar' = [NoTar EXCEPT !.is = "torn"]
    BY <1>7 DEF SnapshotSqlite, CopyChromaTree, OpenTarball, data
  <2>5. /\ DOMAIN tar' = {"is", "stamp", "version", "schema", "key", "held", "count"}
        /\ tar'.held \in Held /\ IsCount(tar'.count)
    BY <2>4 DEF ArchiveTypes, NoTar, NoChunks, NoRows, Held, IsCount, ArchiveInv
  <2>6. stage'.held \in Held /\ IsCount(stage'.count)
    BY <1>1, <2>3 DEF ArchiveTypes, ArchiveInv
  <2>7. ArchiveTypes'
    BY <1>1, <1>2, <2>2, <2>3, <2>5, <2>6 DEF ArchiveTypes, ArchiveInv
  <2>8. Control'
    BY <1>2, <2>2 DEF Control, ArchiveInv
  <2> QED BY <1>3, <1>4, <1>5, <2>2, <2>7, <2>8, Plain
<1>8. CASE Pack
  <2>1. /\ cmd' = Idle /\ result' = "backed up" /\ stage' = Nothing /\ was' = was
        /\ tar'.held = stage.held /\ tar'.count = stage.count
        /\ DOMAIN tar' = {"is", "stamp", "version", "schema", "key", "held", "count"}
    BY <1>8 DEF Pack, End
  <2>2. ArchiveTypes' /\ Control'
    BY <1>1, <1>2, <2>1, IdleIs DEF ArchiveTypes, Control, ArchiveInv
  <2> QED BY <1>3, <1>4, <1>5, <2>1, <2>2, IdleIs, Plain
<1> QED BY <1>6, <1>7, <1>8

\* An export makes its manifest stand for no lines but its own.
LEMMA ExportKeeps ==
  ASSUME ArchiveInv, (\E S \in SUBSET Filings : Export(Here, S)) \/ Fetch \/ WriteLine \/ WriteManifest
  PROVE  ArchiveInv'
<1>1. Here \in Hosts
  BY DEF Hosts
<1>2. UNCHANGED <<conf, vec, tar, app, marred>> /\ cmd.is \in {"none", "export"}
  BY DEF Export, Begin, Doing, Fetch, WriteLine, WriteManifest
<1>3. ASSUME \A h \in Hosts : db'[h].count = db[h].count PROVE Registered'
  <2>1. \A h : \A f \in Filings : BeingAdded(h, f) = {}
    BY <1>2, NothingAhead
  <2>2. \A h : \A f \in Filings : Fine(h, f)' <=> Fine(h, f)
    BY <1>2 DEF Fine, AppIsAt
  <2> QED BY <1>2, <1>3, <2>1, <2>2, StillRegistered DEF ArchiveInv
<1>4. CASE \E S \in SUBSET Filings : Export(Here, S)
  <2>1. /\ cmd'.is = "export" /\ cmd'.host = Here /\ cmd'.step = "fetch" /\ DOMAIN cmd' = {"is", "host", "step", "todo"}
        /\ result' = "none" /\ stage' = Nothing /\ dump' = dump /\ was' = NoWas
        /\ Whole(Here) /\ db' = [db EXCEPT ![Here] = OpenedDb(Here)]
    BY <1>4 DEF Export, Begin
  <2>2. /\ DOMAIN OpenedDb(Here) = DOMAIN db[Here]
        /\ OpenedDb(Here).is = "whole" /\ OpenedDb(Here).count = db[Here].count
    BY <1>1, <2>1 DEF OpenedDb, Whole, ArchiveTypes, ArchiveInv
  <2>3. /\ DOMAIN db' = Hosts /\ \A h \in Hosts \ {Here} : db'[h] = db[h]
        /\ DOMAIN db'[Here] = DOMAIN db[Here] /\ db'[Here].is = "whole" /\ db'[Here].count = db[Here].count
    BY <1>1, <2>1, <2>2 DEF ArchiveTypes, ArchiveInv
  <2>4. ArchiveTypes'
    BY <1>1, <1>2, <2>1, <2>3, IdleIs DEF ArchiveTypes, ArchiveInv
  <2>5. Control' /\ Dumped' /\ Registered'
    BY <1>2, <1>3, <2>1, <2>3, IdleIs DEF Control, Dumped, ArchiveInv
  <2>6. BackingUp' /\ Running' /\ LiveOrArtefact'
    BY <1>2, <2>1, <2>3 DEF BackingUp, Running, LiveOrArtefact, Whole, ArchiveInv
  <2> QED BY <2>1, <2>4, <2>5, <2>6, Plain
<1>5. ASSUME cmd.is = "export", db' = db, was' = was, cmd'.is \in {"none", "export"},
             result' \in {"none", "exported"}, cmd'.is # "none" => result' = "none",
             DOMAIN cmd' = {"is", "host", "step", "todo"}, cmd'.host = Here,
             DOMAIN stage' = {"held", "count", "version", "schema"}, stage'.held \in Held, IsCount(stage'.count),
             DOMAIN dump' = {"manifest", "lines", "fetched", "residue"}, dump'.fetched \in Held, Dumped'
      PROVE  ArchiveInv'
  <2>1. ArchiveTypes' /\ Control'
    BY <1>1, <1>2, <1>5 DEF ArchiveTypes, Control, ArchiveInv
  <2>2. BackingUp' /\ Running' /\ LiveOrArtefact'
    BY <1>2, <1>5 DEF BackingUp, Running, LiveOrArtefact, Whole, RestoreSafe, Restorable, Accepts, ArchiveInv
  <2> QED BY <1>3, <1>5, <2>1, <2>2, Plain
<1>6. CASE Fetch
  <2>1. /\ cmd.is = "export" /\ cmd.host = Here /\ UNCHANGED db /\ GoOn("write")
        /\ stage' = [stage EXCEPT !.held = [f \in Filings |-> IF f \in cmd.todo THEN vec[Here].held[f] ELSE {}]]
        /\ dump' = [dump EXCEPT !.lines = {}, !.residue = dump.manifest]
    BY <1>6 DEF Fetch, Doing, Control, ArchiveInv
  <2>2. /\ cmd'.is = "export" /\ cmd'.host = Here /\ DOMAIN cmd' = {"is", "host", "step", "todo"}
        /\ result' = "none" /\ was' = was
    BY <2>1, GoOnIs DEF Control, ArchiveInv
  <2>3. /\ DOMAIN stage' = DOMAIN stage /\ stage'.count = stage.count
        /\ stage'.held = [f \in Filings |-> IF f \in cmd.todo THEN vec[Here].held[f] ELSE {}]
    BY <2>1 DEF ArchiveTypes, ArchiveInv
  <2>4. stage'.held \in Held /\ DOMAIN stage' = {"held", "count", "version", "schema"} /\ IsCount(stage'.count)
    BY <1>1, <2>3 DEF ArchiveTypes, Held, ArchiveInv
  <2>5. /\ DOMAIN dump' = {"manifest", "lines", "fetched", "residue"} /\ dump'.fetched = dump.fetched
        /\ dump'.manifest = dump.manifest /\ dump'.residue = dump.manifest
    BY <2>1 DEF ArchiveTypes, ArchiveInv
  <2>6. Dumped' /\ dump'.fetched \in Held
    BY <2>5 DEF Dumped, ArchiveTypes, ArchiveInv
  <2> QED BY <1>5, <2>1, <2>2, <2>4, <2>5, <2>6
<1>7. CASE WriteLine
  <2>1. /\ cmd.is = "export" /\ cmd.host = Here /\ UNCHANGED <<db, stage>> /\ GoOn("write")
        /\ cmd.step = "write" /\ \E l : dump' = [dump EXCEPT !.lines = @ \cup {l}]
    BY <1>7 DEF WriteLine, Doing, Control, ArchiveInv
  <2>2. /\ cmd'.is = "export" /\ cmd'.host = Here /\ DOMAIN cmd' = {"is", "host", "step", "todo"}
        /\ result' = "none" /\ was' = was
    BY <2>1, GoOnIs DEF Control, ArchiveInv
  <2>3. /\ DOMAIN dump' = {"manifest", "lines", "fetched", "residue"} /\ dump'.fetched = dump.fetched
        /\ dump'.manifest = dump.manifest /\ dump'.residue = dump.residue
    BY <2>1 DEF ArchiveTypes, ArchiveInv
  <2>4. Dumped' /\ dump'.fetched \in Held
    BY <2>1, <2>3 DEF Dumped, ArchiveTypes, ArchiveInv
  <2>5. DOMAIN stage = {"held", "count", "version", "schema"} /\ stage.held \in Held /\ IsCount(stage.count)
    BY DEF ArchiveTypes, ArchiveInv
  <2> QED BY <1>5, <2>1, <2>2, <2>3, <2>4, <2>5
<1>8. CASE WriteManifest
  <2>1. /\ cmd.is = "export" /\ cmd' = Idle /\ result' = "exported" /\ stage' = Nothing /\ UNCHANGED <<db, was>>
        /\ dump.lines = LinesOf(stage.held)
        /\ dump' = [dump EXCEPT !.manifest = TRUE, !.fetched = stage.held, !.residue = FALSE]
    BY <1>8 DEF WriteManifest, Doing, End
  <2>2. /\ DOMAIN dump' = {"manifest", "lines", "fetched", "residue"} /\ dump'.fetched = stage.held
        /\ dump'.lines = dump.lines /\ stage.held \in Held
    BY <2>1 DEF ArchiveTypes, ArchiveInv
  <2>3. Dumped'
    BY <2>1, <2>2, IdleIs DEF Dumped
  <2> QED BY <1>5, <2>1, <2>2, <2>3, IdleIs
<1> QED BY <1>4, <1>6, <1>7, <1>8

\* The shape of a store in each of its conditions.
LEMMA StoresAre ==
  /\ \A w : /\ DOMAIN BadVec(w) = {"is", "stamp", "held"} /\ BadVec(w).is = w /\ BadVec(w).held = NoChunks
          /\ DOMAIN BadDb(w) = {"is", "version", "count"} /\ BadDb(w).is = w /\ BadDb(w).count = NoRows
  /\ \A s, held : /\ DOMAIN Collection(s, held) = {"is", "stamp", "held"}
                  /\ Collection(s, held).is = "whole" /\ Collection(s, held).held = held
  /\ \A v, count : /\ DOMAIN File(v, count) = {"is", "version", "count"}
                   /\ File(v, count).is = "whole" /\ File(v, count).count = count
  /\ NoChunks \in Held /\ IsCount(NoRows)
  BY DEF BadVec, BadDb, Collection, File, NoChunks, NoRows, Held, IsCount

\* One step of the replacement of a host's stores by the artefact's.
LEMMA Replacing ==
  ASSUME ArchiveInv, cmd.is = "restore", cmd.step # "extract",
         UNCHANGED <<conf, tar, dump, app, was>>,
         NEW a, a \in {BadVec("torn"), BadVec("gone"), Collection(tar.stamp, tar.held)},
         NEW b, b \in {db[cmd.host], BadDb("torn"), BadDb("gone"), File(tar.schema, tar.count)},
         DOMAIN vec' = Hosts, vec'[cmd.host] = a, \A h \in Hosts \ {cmd.host} : vec'[h] = vec[h],
         DOMAIN db' = Hosts, db'[cmd.host] = b, \A h \in Hosts \ {cmd.host} : db'[h] = db[h],
         DOMAIN marred' = Hosts, \A h \in Hosts \ {cmd.host} : marred'[h] = marred[h],
         \A f \in Filings : marred'[cmd.host][f] = "restored",
         stage' \in {stage, Nothing},
         DOMAIN cmd' = {"is", "host", "step", "todo"}, cmd'.host \in Hosts, cmd'.is \in {"none", "restore"}
  PROVE  /\ ArchiveTypes' /\ Running' /\ Dumped' /\ Registered' /\ LiveOrArtefact'
<1>1. Here \in Hosts /\ There \in Hosts /\ Here # There /\ cmd.host \in Hosts
  BY ArchiveAssumption DEF Hosts, ArchiveTypes, ArchiveInv
<1>2. /\ tar.held \in Held /\ IsCount(tar.count)
      /\ \A h \in Hosts :
           /\ DOMAIN vec[h] = {"is", "stamp", "held"} /\ vec[h].held \in Held
           /\ DOMAIN db[h] = {"is", "version", "count"} /\ IsCount(db[h].count)
           /\ vec[h].is \in {"whole", "torn", "gone"} /\ db[h].is \in {"whole", "torn", "gone"}
           /\ vec[h].is = "gone" => vec[h].held = NoChunks
           /\ db[h].is = "gone" => db[h].count = NoRows
  BY DEF ArchiveTypes, ArchiveInv
<1>3. /\ DOMAIN a = {"is", "stamp", "held"} /\ a.held \in Held
      /\ a.is \in {"whole", "torn", "gone"} /\ (a.is = "gone" => a.held = NoChunks)
  BY <1>1, <1>2, StoresAre, IdleIs
<1>4. /\ DOMAIN b = {"is", "version", "count"} /\ IsCount(b.count)
      /\ b.is \in {"whole", "torn", "gone"} /\ (b.is = "gone" => b.count = NoRows)
  <2>1. CASE b = db[cmd.host]
    BY <1>1, <1>2, <2>1
  <2>2. CASE b = File(tar.schema, tar.count)
    BY <1>2, <2>2, StoresAre
  <2>3. CASE b = BadDb("torn") \/ b = BadDb("gone")
    BY <2>3, StoresAre
  <2> QED BY <2>1, <2>2, <2>3
<1>5. \A h \in Hosts :
        /\ DOMAIN vec'[h] = {"is", "stamp", "held"} /\ vec'[h].held \in Held
        /\ DOMAIN db'[h] = {"is", "version", "count"} /\ IsCount(db'[h].count)
        /\ vec'[h].is \in {"whole", "torn", "gone"} /\ db'[h].is \in {"whole", "torn", "gone"}
        /\ vec'[h].is = "gone" => vec'[h].held = NoChunks
        /\ db'[h].is = "gone" => db'[h].count = NoRows
  BY <1>2, <1>3, <1>4
<1>6. stage' = stage \/ stage' = Nothing
  OBVIOUS
<1>7. ArchiveTypes'
  BY <1>5, <1>6, IdleIs DEF ArchiveTypes, ArchiveInv
<1>8. Registered'
  <2> SUFFICES ASSUME NEW h \in Hosts, NEW f \in DOMAIN db'[h].count, Fine(h, f)'
               PROVE  db'[h].count[f] \subseteq vec'[h].held[f]
    BY DEF Registered, Rows
  <2>1. f \in Filings
    BY <1>5 DEF IsCount
  <2>2. h # cmd.host
    BY <2>1 DEF Fine
  <2>3. f \in Rows(h) /\ Fine(h, f) /\ BeingAdded(h, f) = {}
    BY <2>2 DEF Fine, AppIsAt, BeingAdded, Rows
  <2> QED BY <2>2, <2>3 DEF ArchiveInv, Registered
<1>9. Dumped'
  BY DEF Dumped, ArchiveInv
<1>10. CASE cmd.host = Here
  BY <1>7, <1>8, <1>9, <1>10 DEF Control, Running, Restoring, LiveOrArtefact, Restorable, Accepts, ArchiveInv
<1>11. CASE cmd.host # Here
  <2>1. vec'[Here] = vec[Here] /\ db'[Here] = db[Here]
    BY <1>1, <1>11
  <2> QED BY <1>7, <1>8, <1>9, <2>1 DEF Running, LiveOrArtefact, RestoreSafe, Whole, Restorable, Accepts, ArchiveInv
<1> QED BY <1>10, <1>11

\* Nothing of an import is said while a restore runs.
LEMMA RestoreShows ==
  ASSUME ArchiveTypes', Control', Restoring', Running', Dumped', Registered', RestoreSafe',
         cmd'.is \in {"none", "restore"}, result' \in {"none", "refused", "restored"}
  PROVE  ArchiveInv'
  BY DEF ArchiveInv, BackingUp, Importing, Brought, Ended, ImportKeepsExisting

\* A restore destroys the live stores only with an accepted artefact in hand.
LEMMA RestoreKeeps ==
  ASSUME ArchiveInv, (\E h \in Hosts : Restore(h)) \/ Extract \/ ClearChroma \/ MoveChroma \/ ReplaceSqlite
  PROVE  ArchiveInv'
<1>1. Here \in Hosts /\ There \in Hosts /\ Here # There
  BY ArchiveAssumption DEF Hosts
<1>9. ASSUME cmd.is \in {"none", "restore"}, UNCHANGED <<vec, db, app, marred>>
      PROVE  Registered'
  <2>1. \A h : \A f \in Filings : BeingAdded(h, f) = {}
    BY <1>9, NothingAhead
  <2>2. \A h : \A f \in Filings : Fine(h, f)' <=> Fine(h, f)
    BY <1>9 DEF Fine, AppIsAt
  <2> QED BY <1>9, <2>1, <2>2, StillRegistered DEF ArchiveInv
<1>2. CASE \E h \in Hosts : Restore(h)
  <2>1. PICK h \in Hosts : Restore(h)
    BY <1>2
  <2>2. /\ UNCHANGED <<conf, vec, db, tar, dump, app, marred>> /\ stage' = Nothing /\ cmd.is = "none"
        /\ was' = Was(h, {}) /\ (h = Here => app.step = "off")
        /\ \/ /\ cmd' = [is |-> "restore", host |-> h, step |-> "extract", todo |-> {}] /\ result' = "none"
              /\ Restorable => Accepts(h)
           \/ cmd' = Idle /\ result' = "refused"
    BY <2>1 DEF Restore, Begin, data, Restorable
  <2>3. /\ DOMAIN cmd' = {"is", "host", "step", "todo"} /\ cmd'.host \in Hosts
        /\ \/ cmd'.is = "restore" /\ cmd'.step = "extract" /\ cmd'.host = h /\ result' = "none" /\ (Restorable => Accepts(h))
           \/ cmd'.is = "none" /\ result' = "refused"
    BY <1>1, <2>2, IdleIs
  <2>4. was'.host = h /\ was'.vec = vec[h] /\ was'.db = db[h] /\ DOMAIN was' = {"host", "vec", "db", "asked"}
    BY <2>2 DEF Was
  <2>5. ArchiveTypes' /\ Registered'
    BY <1>9, <2>2, <2>3, <2>4, IdleIs DEF ArchiveTypes, ArchiveInv
  <2>6. Control' /\ Running' /\ Dumped'
    BY <2>2, <2>3, <2>4 DEF Control, Running, Dumped, Whole, ArchiveInv
  <2>7. Restoring'
    BY <2>2, <2>3, <2>4 DEF Restoring, Restorable, Accepts
  <2>8. RestoreSafe'
    BY <2>2, <2>3, <2>4 DEF RestoreSafe, RefusalKeepsLive, RestoredIsArtefact, LiveOrArtefact, Whole, Restorable, Accepts,
         ArchiveInv
  <2> QED BY <2>3, <2>5, <2>6, <2>7, <2>8, RestoreShows
<1>3. CASE Extract
  <2>1. /\ UNCHANGED <<conf, vec, db, tar, dump, app, marred>> /\ cmd.is = "restore" /\ cmd.step = "extract"
        /\ was' = was
    BY <1>3 DEF Extract, Doing, data, GoOn, End
  <2>4. Registered'
    BY <1>9, <2>1
  <2>2. CASE Restorable
    <3>1. GoOn("clear") /\ stage' = [stage EXCEPT !.held = tar.held, !.count = tar.count]
      BY <1>3, <2>2 DEF Extract
    <3>2. /\ DOMAIN cmd' = {"is", "host", "step", "todo"} /\ cmd'.step = "clear" /\ cmd'.is = "restore"
          /\ cmd'.host = cmd.host /\ result' = "none"
      BY <2>1, <3>1, GoOnIs DEF Control, ArchiveInv
    <3>3. DOMAIN stage' = DOMAIN stage /\ stage'.held = tar.held /\ stage'.count = tar.count
      BY <3>1 DEF ArchiveTypes, ArchiveInv
    <3>4. ArchiveTypes'
      BY <2>1, <3>2, <3>3 DEF ArchiveTypes, ArchiveInv
    <3>5. Control' /\ Running' /\ Dumped'
      BY <2>1, <3>2 DEF Control, Running, Dumped, Whole, ArchiveInv
    <3>6. Restoring'
      BY <2>1, <2>2, <3>2, <3>3 DEF Restoring, Restorable, Accepts, ArchiveInv
    <3>7. RestoreSafe'
      BY <2>1, <3>2 DEF RestoreSafe, RefusalKeepsLive, RestoredIsArtefact, LiveOrArtefact, Whole, Restorable, Accepts,
           ArchiveInv
    <3> QED BY <2>4, <3>2, <3>4, <3>5, <3>6, <3>7, RestoreShows
  <2>3. CASE ~Restorable
    <3>1. cmd' = Idle /\ result' = "refused" /\ stage' = Nothing
      BY <1>3, <2>3 DEF Extract, End
    <3>2. ArchiveTypes'
      BY <1>1, <2>1, <3>1, IdleIs DEF ArchiveTypes, ArchiveInv
    <3>3. Control' /\ Running' /\ Dumped' /\ Restoring'
      BY <2>1, <3>1, IdleIs DEF Control, Running, Dumped, Whole, Restoring, ArchiveInv
    <3>4. RestoreSafe'
      BY <2>1, <3>1 DEF RestoreSafe, RefusalKeepsLive, RestoredIsArtefact, LiveOrArtefact, Whole, Restorable,
             Accepts, Restoring, Control, ArchiveInv
    <3> QED BY <2>4, <3>1, <3>2, <3>3, <3>4, IdleIs, RestoreShows
  <2> QED BY <2>2, <2>3
<1>4. CASE ClearChroma \/ MoveChroma \/ ReplaceSqlite
  <2>1. /\ UNCHANGED <<conf, tar, dump, app>> /\ cmd.is = "restore" /\ cmd.step # "extract"
        /\ was' = was /\ cmd.host \in Hosts
    BY <1>4 DEF ClearChroma, MoveChroma, ReplaceSqlite, GoOn, End, ArchiveTypes, ArchiveInv
  <2>2. /\ stage.held = tar.held /\ stage.count = tar.count /\ Restorable /\ Accepts(cmd.host)
        /\ result = "none"
    BY <2>1 DEF Restoring, Control, ArchiveInv
  <2>7. /\ DOMAIN marred' = Hosts /\ \A h \in Hosts \ {cmd.host} : marred'[h] = marred[h]
        /\ \A f \in Filings : marred'[cmd.host][f] = "restored"
    <3>1. CASE Mark(cmd.host, Filings, "restored")
      BY <2>1, <3>1, MarkIs DEF ArchiveInv
    <3>2. CASE marred' = marred /\ cmd.step # "clear"
      BY <2>1, <3>2 DEF Restoring, ArchiveTypes, ArchiveInv
    <3>3. Mark(cmd.host, Filings, "restored") \/ (marred' = marred /\ cmd.step # "clear")
      BY <1>4 DEF ClearChroma, MoveChroma, ReplaceSqlite
    <3> QED BY <3>1, <3>2, <3>3
  <2>3. ASSUME NEW s, GoOn(s), s \notin {"extract", "clear"}, ArchiveTypes', Running', Dumped', Registered',
               LiveOrArtefact', stage' = stage,
               s \in {"unlink", "sqlite", "finish"} => vec'[cmd.host] = Collection(tar.stamp, tar.held)
        PROVE  ArchiveInv'
    <3>1. /\ cmd'.step = s /\ cmd'.is = "restore" /\ cmd'.host = cmd.host /\ result' = "none"
      BY <2>1, <2>2, <2>3, GoOnIs DEF ArchiveInv
    <3>2. Control'
      BY <2>1, <2>3, <3>1 DEF Control, ArchiveInv
    <3>3. Restoring'
      BY <2>1, <2>2, <2>3, <2>7, <3>1 DEF Restoring, Restorable, Accepts
    <3>4. RestoreSafe'
      BY <2>3, <3>1 DEF RestoreSafe, RefusalKeepsLive, RestoredIsArtefact
    <3> QED BY <2>3, <3>1, <3>2, <3>3, <3>4, RestoreShows
  <2>4. CASE ClearChroma \/ MoveChroma
    <3>1. PICK a, s :
            /\ GoOn(s) /\ s \in {"clearing", "move", "moving", "unlink"} /\ stage' = stage /\ db' = db
            /\ vec' = [vec EXCEPT ![cmd.host] = a]
            /\ a \in {BadVec("torn"), BadVec("gone"), Collection(tar.stamp, tar.held)}
            /\ s = "unlink" => a = Collection(tar.stamp, tar.held)
      BY <2>2, <2>4 DEF ClearChroma, MoveChroma
    <3>2. /\ DOMAIN vec' = Hosts /\ DOMAIN db' = Hosts
          /\ \A h \in Hosts \ {cmd.host} : vec'[h] = vec[h] /\ db'[h] = db[h]
          /\ vec'[cmd.host] = a /\ db'[cmd.host] = db[cmd.host]
      BY <2>1, <3>1 DEF ArchiveTypes, ArchiveInv
    <3>3. /\ DOMAIN cmd' = {"is", "host", "step", "todo"} /\ cmd'.host \in Hosts /\ cmd'.is \in {"none", "restore"}
      BY <2>1, <3>1, GoOnIs DEF ArchiveInv
    <3>4. /\ ArchiveTypes' /\ Running' /\ Dumped' /\ Registered' /\ LiveOrArtefact'
      BY <2>1, <2>7, <3>1, <3>2, <3>3, Replacing
    <3> QED BY <2>3, <3>1, <3>2, <3>4
  <2>5. CASE ReplaceSqlite /\ cmd.step # "finish"
    <3>1. PICK b, s :
            /\ GoOn(s) /\ s \in {"sqlite", "finish"} /\ stage' = stage /\ vec' = vec
            /\ cmd.step \in {"unlink", "sqlite"}
            /\ db' = [db EXCEPT ![cmd.host] = b] /\ b \in {BadDb("torn"), BadDb("gone")}
      BY <2>5 DEF ReplaceSqlite
    <3>2. /\ DOMAIN vec' = Hosts /\ DOMAIN db' = Hosts
          /\ \A h \in Hosts \ {cmd.host} : vec'[h] = vec[h] /\ db'[h] = db[h]
          /\ vec'[cmd.host] = Collection(tar.stamp, tar.held) /\ db'[cmd.host] = b
      BY <2>1, <3>1 DEF ArchiveTypes, Restoring, ArchiveInv
    <3>3. /\ DOMAIN cmd' = {"is", "host", "step", "todo"} /\ cmd'.host \in Hosts /\ cmd'.is \in {"none", "restore"}
      BY <2>1, <3>1, GoOnIs DEF ArchiveInv
    <3>4. /\ ArchiveTypes' /\ Running' /\ Dumped' /\ Registered' /\ LiveOrArtefact'
      BY <2>1, <2>7, <3>1, <3>2, <3>3, Replacing
    <3> QED BY <2>3, <3>1, <3>2, <3>4
  <2>6. CASE ReplaceSqlite /\ cmd.step = "finish"
    <3>1. /\ cmd' = Idle /\ result' = "restored" /\ stage' = Nothing /\ vec' = vec
          /\ db' = [db EXCEPT ![cmd.host] = File(tar.schema, tar.count)]
      BY <2>2, <2>6 DEF ReplaceSqlite, End
    <3>2. /\ DOMAIN vec' = Hosts /\ DOMAIN db' = Hosts
          /\ \A h \in Hosts \ {cmd.host} : vec'[h] = vec[h] /\ db'[h] = db[h]
          /\ vec'[cmd.host] = Collection(tar.stamp, tar.held) /\ db'[cmd.host] = File(tar.schema, tar.count)
      BY <2>1, <2>6, <3>1 DEF ArchiveTypes, Restoring, ArchiveInv
    <3>3. /\ DOMAIN cmd' = {"is", "host", "step", "todo"} /\ cmd'.host \in Hosts /\ cmd'.is \in {"none", "restore"}
      BY <1>1, <3>1, IdleIs
    <3>4. /\ ArchiveTypes' /\ Running' /\ Dumped' /\ Registered' /\ LiveOrArtefact'
      BY <2>1, <2>7, <3>1, <3>2, <3>3, Replacing
    <3>5. Control' /\ Restoring'
      BY <3>1, IdleIs DEF Control, Restoring
    <3>6. RestoreSafe'
      BY <2>1, <2>6, <3>1, <3>2, <3>4 DEF RestoreSafe, RefusalKeepsLive, RestoredIsArtefact, Restoring, Control, ArchiveInv
    <3> QED BY <3>1, <3>4, <3>5, <3>6, IdleIs, RestoreShows
  <2> QED BY <1>4, <2>4, <2>5, <2>6
<1> QED BY <1>2, <1>3, <1>4

\* The other parts at a step of an import, which writes to the stores of its host only.
LEMMA ImportBeside ==
  ASSUME ArchiveInv, UNCHANGED <<conf, tar, dump, app>>, NEW h \in Hosts,
         DOMAIN vec' = Hosts, DOMAIN db' = Hosts, DOMAIN marred' = Hosts,
         \A k \in Hosts \ {h} : vec'[k] = vec[k] /\ db'[k] = db[k],
         cmd'.is \in {"import", "none"}, cmd'.host \in Hosts, DOMAIN cmd' = {"is", "host", "step", "todo"},
         DOMAIN stage' = {"held", "count", "version", "schema"}, stage'.held \in Held, IsCount(stage'.count),
         DOMAIN vec'[h] = {"is", "stamp", "held"}, vec'[h].held \in Held, vec'[h].is = "whole",
         DOMAIN db'[h] = {"is", "version", "count"}, IsCount(db'[h].count), db'[h].is = "whole",
         DOMAIN was' = {"host", "vec", "db", "asked"}, DOMAIN was'.db = {"is", "version", "count"}
  PROVE  ArchiveTypes' /\ Restoring' /\ BackingUp' /\ Running' /\ Dumped' /\ LiveOrArtefact'
<1>1. \A k \in Hosts :
        /\ DOMAIN vec'[k] = {"is", "stamp", "held"} /\ vec'[k].held \in Held
        /\ DOMAIN db'[k] = {"is", "version", "count"} /\ IsCount(db'[k].count)
        /\ vec'[k].is \in {"whole", "torn", "gone"} /\ db'[k].is \in {"whole", "torn", "gone"}
        /\ vec'[k].is = "gone" => vec'[k].held = NoChunks
        /\ db'[k].is = "gone" => db'[k].count = NoRows
  BY DEF ArchiveInv, ArchiveTypes
<1>2. ArchiveTypes'
  BY <1>1 DEF ArchiveInv, ArchiveTypes
<1>3. Here \in Hosts /\ (Whole(Here) => Whole(Here)')
  BY DEF Whole, Hosts
<1>4. Restoring' /\ BackingUp' /\ Running'
  BY <1>3 DEF ArchiveInv, Restoring, BackingUp, Running
<1>5. Dumped' /\ LiveOrArtefact'
  BY <1>3 DEF ArchiveInv, Dumped, LiveOrArtefact, RestoreSafe, Restorable, Accepts
<1> QED BY <1>2, <1>4, <1>5

\* What an import under way shows, and one that has ended.
LEMMA ImportShows ==
  ASSUME ArchiveTypes', Restoring', BackingUp', Running', Dumped', LiveOrArtefact',
         cmd'.is = "import" => cmd'.step \in {"claim", "unclaim"} \cup Filings,
         was'.host \in Hosts,
         \/ cmd'.is = "import" /\ cmd'.host = was'.host /\ result' = "none"
         \/ cmd'.is = "none" /\ result' \in {"failed", "imported"},
         Importing', Registered', Brought', Ended', ImportKeepsExisting'
  PROVE  ArchiveInv'
<1>1. Control' /\ RestoreSafe'
  BY DEF Control, RestoreSafe, RefusalKeepsLive, RestoredIsArtefact
<1> QED BY <1>1 DEF ArchiveInv

\* A step of an import at the filing f of its host that leaves the other filings, and
\* the application, alone: f is one the host did not have, and if it is registered
\* afterwards, and not left half stored, it has or gets its chunks.
LEMMA ImportTouches ==
  ASSUME ArchiveInv, cmd.is = "import", NEW h \in Hosts, cmd.host = h, NEW f \in Filings,
         UNCHANGED <<dump, app, was>>,
         f \notin DOMAIN was.db.count,
         cmd.step = "claim" \/ cmd.step = "unclaim" \/ cmd.step = f,
         cmd'.is = "import" => cmd'.host = h /\ cmd'.step \in {"claim", "unclaim", f},
         \A k \in Hosts \ {h} : vec'[k] = vec[k] /\ db'[k] = db[k] /\ marred'[k] = marred[k],
         \A g \in Filings \ {f} :
           /\ vec'[h].held[g] = vec[h].held[g]
           /\ g \in DOMAIN db'[h].count <=> g \in DOMAIN db[h].count
           /\ g \in DOMAIN db[h].count => db'[h].count[g] = db[h].count[g]
           /\ marred'[h][g] = marred[h][g],
         IsCount(db'[h].count), DOMAIN vec' = Hosts, DOMAIN db' = Hosts, DOMAIN marred' = Hosts,
         f \in DOMAIN db'[h].count /\ Fine(h, f)' =>
           /\ db'[h].count[f] \subseteq vec'[h].held[f] \cup BeingAdded(h, f)'
           /\ cmd'.is = "import" /\ ~dump.residue => dump.fetched[f] \subseteq vec'[h].held[f] \cup BeingAdded(h, f)'
  PROVE  Registered' /\ ImportKeepsExisting' /\ (cmd'.is = "import" /\ result' = "none" => Brought')
<1>1. /\ was.host = h /\ \A k \in Hosts : IsCount(db'[k].count)
  BY DEF ArchiveInv, Control, ArchiveTypes
<1>2. ASSUME NEW k \in Hosts, NEW g \in Filings, ~(k = h /\ g = f)
      PROVE  /\ g \in DOMAIN db'[k].count <=> g \in Rows(k)
             /\ g \in Rows(k) => db'[k].count[g] = db[k].count[g]
             /\ vec'[k].held[g] = vec[k].held[g]
             /\ Fine(k, g)' => Fine(k, g)
  BY <1>2 DEF Rows, Fine, AppIsAt
<1>3. ASSUME NEW k \in Hosts, NEW g \in Filings, ~(k = h /\ g = f) PROVE BeingAdded(k, g) = {}
  BY <1>3, ArchiveAssumption DEF BeingAdded
<1>4. Registered'
  <2> SUFFICES ASSUME NEW k \in Hosts, NEW g \in DOMAIN db'[k].count, Fine(k, g)'
               PROVE  db'[k].count[g] \subseteq vec'[k].held[g] \cup BeingAdded(k, g)'
    BY DEF Registered, Rows
  <2>1. g \in Filings
    BY <1>1 DEF IsCount
  <2>2. CASE k = h /\ g = f
    BY <2>2
  <2>3. CASE ~(k = h /\ g = f)
    BY <1>2, <1>3, <2>1, <2>3 DEF ArchiveInv, Registered
  <2> QED BY <2>2, <2>3
<1>5. ASSUME cmd'.is = "import", result' = "none" PROVE Brought'
  <2> SUFFICES ASSUME ~dump.residue, NEW g \in DOMAIN db'[h].count \ DOMAIN was.db.count, Fine(h, g)'
               PROVE  dump.fetched[g] \subseteq vec'[h].held[g] \cup BeingAdded(h, g)'
    BY <1>1 DEF Brought, Rows
  <2>1. g \in Filings
    BY <1>1 DEF IsCount
  <2>2. CASE g = f
    BY <1>5, <2>2
  <2>3. CASE g # f
    <3>1. g \in Rows(h) /\ Fine(h, g) /\ vec'[h].held[g] = vec[h].held[g] /\ BeingAdded(h, g) = {}
      BY <1>2, <1>3, <2>1, <2>3
    <3>2. dump.fetched[g] \subseteq vec[h].held[g] \cup BeingAdded(h, g)
      BY <1>1, <3>1 DEF ArchiveInv, Brought
    <3> QED BY <3>1, <3>2
  <2> QED BY <2>2, <2>3
<1>6. ImportKeepsExisting'
  <2> SUFFICES ASSUME NEW g \in DOMAIN was.db.count
               PROVE  /\ g \in DOMAIN db'[h].count /\ db'[h].count[g] = was.db.count[g]
                      /\ vec'[h].held[g] = was.vec.held[g]
    BY <1>1 DEF ImportKeepsExisting, Rows
  <2>1. g \in Rows(h) /\ db[h].count[g] = was.db.count[g] /\ vec[h].held[g] = was.vec.held[g]
    BY <1>1 DEF ArchiveInv, ImportKeepsExisting
  <2>2. g \in Filings /\ g # f
    BY <2>1 DEF ArchiveInv, ArchiveTypes, Rows, IsCount
  <2> QED BY <1>2, <2>1, <2>2
<1> QED BY <1>4, <1>5, <1>6

\* The lines of a filing are its chunks.
LEMMA LinesAre ==
  ASSUME NEW held \in Held, NEW f \in Filings
  PROVE  {i \in Index : <<f, i>> \in LinesOf(held)} = held[f]
<1>1. \A i \in Index : <<f, i>> \in LinesOf(held) <=> i \in held[f]
  BY DEF LinesOf
<1>2. held[f] \subseteq Index
  BY DEF Held
<1> QED BY <1>1, <1>2

\* What an import that is under way has to work with.
LEMMA ImportHas ==
  ASSUME ArchiveInv, cmd.is = "import"
  PROVE  \E h \in Hosts :
           /\ cmd.host = h /\ was.host = h /\ result = "none" /\ vec[h].is = "whole" /\ db[h].is = "whole"
           /\ DOMAIN vec = Hosts /\ DOMAIN db = Hosts /\ DOMAIN marred = Hosts
           /\ DOMAIN vec[h] = {"is", "stamp", "held"} /\ vec[h].held \in Held /\ DOMAIN vec[h].held = Filings
           /\ DOMAIN db[h] = {"is", "version", "count"} /\ IsCount(db[h].count)
           /\ DOMAIN stage = {"held", "count", "version", "schema"} /\ stage.held \in Held /\ IsCount(stage.count)
           /\ DOMAIN stage.held = Filings
           /\ DOMAIN cmd = {"is", "host", "step", "todo"} /\ cmd.todo \subseteq Filings
           /\ DOMAIN was = {"host", "vec", "db", "asked"} /\ DOMAIN was.db = {"is", "version", "count"}
           /\ \A f \in Filings : stage.held[f] \subseteq Index
  BY DEF ArchiveInv, Control, ArchiveTypes, Importing, Whole, Held

\* An import brings each filing whole, or rolls its claim back, and touches no other.
LEMMA ImportKeeps ==
  ASSUME ArchiveInv,
         \/ \E h \in Hosts, S \in SUBSET Filings : Import(h, S)
         \/ ImportClaim \/ ImportFails \/ ImportSlice \/ ImportAddFails \/ ImportUnclaim \/ Imported
  PROVE  ArchiveInv'
<1>1. "claim" \notin Filings /\ "unclaim" \notin Filings
  BY ArchiveAssumption
<1>2. UNCHANGED <<conf, tar, dump, app>>
  BY DEF Import, ImportClaim, ImportFails, ImportSlice, ImportAddFails, ImportUnclaim, Imported, data
<1>3. ASSUME cmd.is \in {"none", "import"}, cmd.step \notin Filings \/ cmd.is = "none",
             \A h \in Hosts : vec'[h].held = vec[h].held /\ db'[h].count = db[h].count, marred' = marred
      PROVE  Registered'
  <2>1. \A h : \A f \in Filings : BeingAdded(h, f) = {}
    BY <1>3, NothingAhead
  <2>2. \A h : \A f \in Filings : Fine(h, f)' <=> Fine(h, f)
    BY <1>2, <1>3 DEF Fine, AppIsAt
  <2> QED BY <1>3, <2>1, <2>2, StillRegistered DEF ArchiveInv
<1>4. CASE \E h \in Hosts, S \in SUBSET Filings : Import(h, S)
  <2>1. PICK h \in Hosts, S \in SUBSET Filings : Import(h, S)
    BY <1>4
  <2> DEFINE T == {f \in S : Lines(f) # {}}
             L == [f \in Filings |-> Lines(f)]
  <2>2. /\ dump.manifest /\ CanOpen(h) /\ cmd.is = "none" /\ marred' = marred
        /\ cmd' = [is |-> "import", host |-> h, step |-> "claim", todo |-> T]
        /\ result' = "none" /\ was' = Was(h, T)
        /\ vec' = [vec EXCEPT ![h] = OpenedVec(h)] /\ db' = [db EXCEPT ![h] = OpenedDb(h)]
        /\ stage' = [Nothing EXCEPT !.held = L]
    BY <2>1 DEF Import, Begin
  <2>3. /\ DOMAIN vec = Hosts /\ DOMAIN db = Hosts /\ DOMAIN marred = Hosts
        /\ vec[h].held \in Held /\ IsCount(db[h].count)
        /\ DOMAIN db[h] = {"is", "version", "count"}
    BY DEF ArchiveInv, ArchiveTypes
  <2>4. /\ DOMAIN vec' = Hosts /\ DOMAIN db' = Hosts /\ \A k \in Hosts \ {h} : vec'[k] = vec[k] /\ db'[k] = db[k]
        /\ vec'[h] = OpenedVec(h) /\ db'[h] = OpenedDb(h)
    BY <2>2, <2>3
  <2>5. /\ DOMAIN vec'[h] = {"is", "stamp", "held"} /\ vec'[h].held = vec[h].held /\ vec'[h].is = "whole"
        /\ DOMAIN db'[h] = {"is", "version", "count"} /\ db'[h].count = db[h].count /\ db'[h].is = "whole"
    BY <2>2, <2>4, OpenedIs DEF ArchiveInv
  <2>6. /\ DOMAIN stage' = DOMAIN Nothing /\ stage'.held = L /\ stage'.count = Nothing.count /\ L \in Held
    BY <2>2, IdleIs DEF Held, Lines
  <2>7. /\ DOMAIN cmd' = {"is", "host", "step", "todo"} /\ cmd'.is = "import" /\ cmd'.host = h /\ cmd'.step = "claim"
        /\ cmd'.todo = T
    BY <2>2
  <2>8. /\ DOMAIN was' = {"host", "vec", "db", "asked"} /\ was'.host = h /\ was'.vec = vec[h] /\ was'.db = db[h]
        /\ was'.asked = T
    BY <2>2 DEF Was
  <2>9. ArchiveTypes' /\ Restoring' /\ BackingUp' /\ Running' /\ Dumped' /\ LiveOrArtefact'
    <3>1. DOMAIN stage' = {"held", "count", "version", "schema"} /\ stage'.held \in Held /\ IsCount(stage'.count)
      BY <2>6, IdleIs
    <3>2. DOMAIN was'.db = {"is", "version", "count"} /\ DOMAIN marred' = Hosts
      BY <2>2, <2>3, <2>8
    <3>3. vec'[h].held \in Held /\ IsCount(db'[h].count)
      BY <2>3, <2>5
    <3> HIDE DEF T, L
    <3> QED BY <1>2, <2>4, <2>5, <2>7, <2>8, <3>1, <3>2, <3>3, ImportBeside, SMTT(40)
  <2>10. Registered'
    BY <1>3, <2>2, <2>4, <2>5
  <2>11. T \subseteq Filings /\ \A f \in T : L[f] = Lines(f)
    OBVIOUS
  <2>12. Brought' /\ Ended' /\ ImportKeepsExisting'
    BY <2>2, <2>5, <2>8 DEF Brought, Ended, ImportKeepsExisting, Rows
  <2>13. \A f : Lines(f)' = Lines(f)
    BY <1>2 DEF Lines
  <2> HIDE DEF T, L
  <2>14. Importing'
    BY <1>1, <1>2, <2>2, <2>5, <2>6, <2>7, <2>8, <2>11, <2>13 DEF Importing, Whole
  <2> QED BY <2>2, <2>7, <2>8, <2>9, <2>10, <2>12, <2>14, ImportShows
<1>5. ASSUME cmd.is = "import", cmd.step \in {"claim", "unclaim"}, UNCHANGED <<vec, db, marred, was>>,
             cmd.step = "unclaim" => cmd' = Idle /\ stage' = Nothing /\ result' = "failed",
             \/ \E f \in cmd.todo : /\ f \in Rows(cmd.host) /\ UNCHANGED <<stage, result>>
                                    /\ cmd' = [cmd EXCEPT !.todo = @ \ {f}]
             \/ cmd' = Idle /\ stage' = Nothing /\ (result' = "failed" \/ (result' = "imported" /\ cmd.todo = {}))
      PROVE  ArchiveInv'
  <2>1. PICK h \in Hosts :
           /\ cmd.host = h /\ was.host = h /\ result = "none" /\ vec[h].is = "whole" /\ db[h].is = "whole"
           /\ DOMAIN vec = Hosts /\ DOMAIN db = Hosts /\ DOMAIN marred = Hosts
           /\ DOMAIN vec[h] = {"is", "stamp", "held"} /\ vec[h].held \in Held /\ DOMAIN vec[h].held = Filings
           /\ DOMAIN db[h] = {"is", "version", "count"} /\ IsCount(db[h].count)
           /\ DOMAIN stage = {"held", "count", "version", "schema"} /\ stage.held \in Held /\ IsCount(stage.count)
           /\ DOMAIN cmd = {"is", "host", "step", "todo"} /\ cmd.todo \subseteq Filings
           /\ DOMAIN was = {"host", "vec", "db", "asked"} /\ DOMAIN was.db = {"is", "version", "count"}
    BY <1>5, ImportHas
  <2>2. Registered'
    BY <1>1, <1>3, <1>5
  <2>3. /\ ~dump.residue =>
             \A f \in Rows(h) \ DOMAIN was.db.count : Fine(h, f) => dump.fetched[f] \subseteq vec[h].held[f]
        /\ \A f \in DOMAIN was.db.count :
             f \in Rows(h) /\ db[h].count[f] = was.db.count[f] /\ vec[h].held[f] = was.vec.held[f]
        /\ cmd.step = "claim" => /\ \A f \in was.asked : f \in Rows(h) \/ f \in cmd.todo
                                 /\ \A f \in cmd.todo : stage.held[f] = Lines(f)
    <3>1. \A f \in Rows(h) : f \in Filings
      BY <2>1 DEF Rows, IsCount
    <3>2. \A f \in Filings : BeingAdded(h, f) = {}
      BY <1>1, <1>5 DEF BeingAdded
    <3> QED BY <1>1, <1>5, <2>1, <3>1, <3>2 DEF ArchiveInv, Brought, Importing, ImportKeepsExisting
  <2>4. /\ DOMAIN cmd' = {"is", "host", "step", "todo"} /\ cmd'.host \in Hosts
        /\ DOMAIN stage' = {"held", "count", "version", "schema"} /\ stage'.held \in Held /\ IsCount(stage'.count)
        /\ \/ /\ cmd'.is = "import" /\ cmd'.host = h /\ cmd'.step = "claim" /\ result' = "none" /\ stage' = stage
              /\ cmd.step = "claim" /\ \E f \in cmd.todo : f \in Rows(h) /\ cmd'.todo = cmd.todo \ {f}
           \/ /\ cmd'.is = "none"
              /\ result' = "failed" \/ (result' = "imported" /\ cmd.step = "claim" /\ cmd.todo = {})
    BY <1>5, <2>1, IdleIs DEF Hosts
  <2>5. ArchiveTypes' /\ Restoring' /\ BackingUp' /\ Running' /\ Dumped' /\ LiveOrArtefact'
    BY <1>2, <1>5, <2>1, <2>4, ImportBeside
  <2>6. \A f : Fine(h, f)' <=> Fine(h, f)
    BY <1>2, <1>5 DEF Fine, AppIsAt
  <2>7. Brought' /\ ImportKeepsExisting'
    BY <1>2, <1>5, <2>1, <2>3, <2>6 DEF Brought, ImportKeepsExisting, Rows
  <2>8. Ended'
    BY <1>5, <2>1, <2>3, <2>4 DEF Ended, Rows
  <2>9. \A f : Lines(f)' = Lines(f)
    BY <1>2 DEF Lines
  <2>10. Importing'
    BY <1>1, <1>2, <1>5, <2>1, <2>3, <2>4, <2>9 DEF ArchiveInv, Importing, Rows, Whole
  <2> QED BY <1>5, <2>1, <2>2, <2>4, <2>5, <2>7, <2>8, <2>10, ImportShows
<1>6. ASSUME cmd.is = "import", NEW h \in Hosts, cmd.host = h, NEW f \in cmd.todo, f \notin DOMAIN was.db.count, UNCHANGED <<was>>,
             cmd.step \in {"claim", "unclaim", f},
             /\ DOMAIN vec' = Hosts /\ DOMAIN db' = Hosts /\ DOMAIN marred' = Hosts
             /\ \A k \in Hosts \ {h} : vec'[k] = vec[k] /\ db'[k] = db[k] /\ marred'[k] = marred[k]
             /\ DOMAIN vec'[h] = {"is", "stamp", "held"} /\ vec'[h].held \in Held
             /\ vec'[h].is = "whole"
             /\ DOMAIN db'[h] = {"is", "version", "count"} /\ IsCount(db'[h].count)
             /\ db'[h].is = "whole"
             /\ \A g \in Filings \ {f} :
                  /\ vec'[h].held[g] = vec[h].held[g]
                  /\ g \in DOMAIN db'[h].count <=> g \in DOMAIN db[h].count
                  /\ g \in DOMAIN db[h].count => db'[h].count[g] = db[h].count[g]
                  /\ marred'[h][g] = marred[h][g]
             /\ f \in DOMAIN db'[h].count /\ Fine(h, f)' =>
                  /\ db'[h].count[f] \subseteq vec'[h].held[f] \cup BeingAdded(h, f)'
                  /\ cmd'.is = "import" /\ ~dump.residue =>
                       dump.fetched[f] \subseteq vec'[h].held[f] \cup BeingAdded(h, f)',
             DOMAIN stage' = {"held", "count", "version", "schema"}, stage'.held \in Held, IsCount(stage'.count),
             DOMAIN cmd' = {"is", "host", "step", "todo"}, cmd'.host \in Hosts,
             \/ cmd'.is = "none" /\ result' = "failed"
             \/ /\ cmd'.is = "import" /\ cmd'.host = h /\ cmd'.step \in {"claim", "unclaim", f}
                /\ result' = "none" /\ Importing'
      PROVE  ArchiveInv'
  <2>1. /\ was.host = h /\ f \in Filings
        /\ DOMAIN was = {"host", "vec", "db", "asked"} /\ DOMAIN was.db = {"is", "version", "count"}
    BY <1>6, ImportHas
  <2>2. ArchiveTypes' /\ Restoring' /\ BackingUp' /\ Running' /\ Dumped' /\ LiveOrArtefact'
    BY <1>2, <1>6, <2>1, ImportBeside
  <2>3. Registered' /\ ImportKeepsExisting' /\ (cmd'.is = "import" /\ result' = "none" => Brought')
    BY <1>2, <1>6, <2>1, ImportTouches
  <2>4. Ended' /\ Importing' /\ Brought'
    BY <1>6, <2>3 DEF Ended, Importing, Brought
  <2> QED BY <1>6, <2>1, <2>2, <2>3, <2>4, ImportShows
<1>7. CASE ImportClaim
  <2>1. PICK h \in Hosts :
           /\ cmd.host = h /\ was.host = h /\ result = "none" /\ vec[h].is = "whole" /\ db[h].is = "whole"
           /\ DOMAIN vec = Hosts /\ DOMAIN db = Hosts /\ DOMAIN marred = Hosts
           /\ DOMAIN vec[h] = {"is", "stamp", "held"} /\ vec[h].held \in Held
           /\ DOMAIN db[h] = {"is", "version", "count"} /\ IsCount(db[h].count)
           /\ DOMAIN stage = {"held", "count", "version", "schema"} /\ stage.held \in Held /\ IsCount(stage.count)
           /\ DOMAIN cmd = {"is", "host", "step", "todo"} /\ cmd.todo \subseteq Filings
           /\ \A f \in Filings : stage.held[f] \subseteq Index
    BY <1>7, ImportHas DEF ImportClaim, Doing
  <2>2. /\ cmd.is = "import" /\ cmd.step = "claim" /\ UNCHANGED <<vec, stage, result, was>>
        /\ \E f \in cmd.todo :
             \/ f \in Rows(cmd.host) /\ cmd' = [cmd EXCEPT !.todo = @ \ {f}] /\ UNCHANGED <<db, marred>>
             \/ /\ f \notin Rows(cmd.host)
                /\ db' = [db EXCEPT ![cmd.host].count = WithRow(@, f, stage.held[f])]
                /\ cmd' = [cmd EXCEPT !.step = f] /\ Mark(cmd.host, {f}, "no")
    BY <1>7 DEF ImportClaim, Doing
  <2>3. CASE \E f \in cmd.todo : f \in Rows(cmd.host) /\ cmd' = [cmd EXCEPT !.todo = @ \ {f}] /\ UNCHANGED <<db, marred>>
    <3>1. PICK f \in cmd.todo : f \in Rows(cmd.host) /\ cmd' = [cmd EXCEPT !.todo = @ \ {f}] /\ UNCHANGED <<db, marred>>
      BY <2>3
    <3> QED BY <1>5, <2>2, <3>1
  <2>4. CASE ~\E f \in cmd.todo : f \in Rows(cmd.host) /\ cmd' = [cmd EXCEPT !.todo = @ \ {f}] /\ UNCHANGED <<db, marred>>
    <3>1. PICK f \in cmd.todo :
            /\ f \notin Rows(h) /\ db' = [db EXCEPT ![h].count = WithRow(@, f, stage.held[f])]
            /\ cmd' = [cmd EXCEPT !.step = f] /\ Mark(h, {f}, "no")
      <4>1. \E f \in cmd.todo :
              /\ f \notin Rows(cmd.host) /\ db' = [db EXCEPT ![cmd.host].count = WithRow(@, f, stage.held[f])]
              /\ cmd' = [cmd EXCEPT !.step = f] /\ Mark(cmd.host, {f}, "no")
        BY <2>2, <2>4
      <4>2. cmd.host = h
        BY <2>1
      <4> QED BY <4>1, <4>2, Zenon
    <3>2. f \in Filings /\ f # "claim" /\ f # "unclaim"
      BY <1>1, <2>1
    <3> DEFINE c == db[h].count
               s == stage.held[f]
    <3>3. /\ IsCount(WithRow(c, f, s)) /\ DOMAIN WithRow(c, f, s) = DOMAIN c \cup {f} /\ WithRow(c, f, s)[f] = s
          /\ \A g \in DOMAIN c \ {f} : WithRow(c, f, s)[g] = c[g]
      <4>1. IsCount(c) /\ s \subseteq Index
        BY <2>1, <3>2
      <4> HIDE DEF c, s
      <4> QED BY <3>2, <4>1 DEF IsCount, WithRow
    <3>4. /\ DOMAIN db' = Hosts /\ \A k \in Hosts \ {h} : db'[k] = db[k]
          /\ DOMAIN db'[h] = {"is", "version", "count"} /\ db'[h].is = "whole" /\ db'[h].count = WithRow(c, f, s)
      BY <2>1, <3>1
    <3>5. /\ DOMAIN marred' = Hosts /\ \A k \in Hosts \ {h} : marred'[k] = marred[k]
          /\ \A g \in Filings \ {f} : marred'[h][g] = marred[h][g]
      BY <3>1, MarkIs DEF ArchiveInv
    <3>6. cmd'.is = "import" /\ cmd'.host = h /\ cmd'.step = f /\ cmd'.todo = cmd.todo
          /\ DOMAIN cmd' = {"is", "host", "step", "todo"}
      BY <2>1, <2>2, <3>1
    <3>7. f \notin DOMAIN was.db.count
      BY <2>1, <2>2, <3>1 DEF ArchiveInv, ImportKeepsExisting
    <3>8. s = Lines(f) /\ (~dump.residue => s = dump.fetched[f])
      <4>1. s = Lines(f) /\ dump.manifest /\ dump.fetched \in Held
        BY <1>1, <2>1, <2>2, <3>1, <3>2 DEF ArchiveInv, Importing, ArchiveTypes
      <4>2. CASE ~dump.residue
        <5>1. dump.lines = LinesOf(dump.fetched)
          BY <4>1, <4>2 DEF ArchiveInv, Dumped
        <5>2. {i \in Index : <<f, i>> \in LinesOf(dump.fetched)} = dump.fetched[f]
          BY <3>2, <4>1, LinesAre
        <5> QED BY <4>1, <5>1, <5>2 DEF Lines
      <4> QED BY <4>1, <4>2
    <3>9. BeingAdded(h, f)' = s
      BY <2>2, <3>6 DEF BeingAdded
    <3>10. \A g : Lines(g)' = Lines(g)
      BY <1>2 DEF Lines
    <3> HIDE DEF c, s
    <3>11. Importing'
      BY <1>1, <1>2, <2>1, <2>2, <3>1, <3>2, <3>3, <3>4, <3>6, <3>7, <3>10 DEF ArchiveInv, Importing, Whole, Rows, c
    <3>12. /\ \A g \in Filings \ {f} :
                /\ vec'[h].held[g] = vec[h].held[g]
                /\ g \in DOMAIN db'[h].count <=> g \in DOMAIN db[h].count
                /\ g \in DOMAIN db[h].count => db'[h].count[g] = db[h].count[g]
                /\ marred'[h][g] = marred[h][g]
           /\ db'[h].count[f] = s /\ IsCount(db'[h].count)
      BY <2>2, <3>3, <3>4, <3>5 DEF c
    <3> QED BY <1>6, <2>1, <2>2, <3>1, <3>2, <3>4, <3>5, <3>6, <3>7, <3>8, <3>9, <3>11, <3>12
  <2> QED BY <2>3, <2>4
<1>8. CASE ImportFails \/ Imported
  <2>1. /\ cmd.is = "import" /\ cmd.step = "claim" /\ UNCHANGED <<vec, db, marred, was>> /\ cmd' = Idle
        /\ stage' = Nothing /\ (result' = "failed" \/ (result' = "imported" /\ cmd.todo = {}))
    BY <1>8 DEF ImportFails, Imported, Doing, End, data
  <2> QED BY <1>5, <2>1
<1>9. CASE ImportSlice \/ ImportAddFails
  <2>0. PICK f \in Filings : cmd.step = f
    BY <1>9 DEF ImportSlice, ImportAddFails
  <2>1. PICK h \in Hosts :
           /\ cmd.host = h /\ was.host = h /\ result = "none" /\ vec[h].is = "whole" /\ db[h].is = "whole"
           /\ DOMAIN vec = Hosts /\ DOMAIN db = Hosts /\ DOMAIN marred = Hosts
           /\ DOMAIN vec[h] = {"is", "stamp", "held"} /\ vec[h].held \in Held /\ DOMAIN vec[h].held = Filings
           /\ DOMAIN db[h] = {"is", "version", "count"} /\ IsCount(db[h].count)
           /\ DOMAIN stage = {"held", "count", "version", "schema"} /\ stage.held \in Held /\ IsCount(stage.count)
           /\ DOMAIN stage.held = Filings
           /\ DOMAIN cmd = {"is", "host", "step", "todo"} /\ cmd.todo \subseteq Filings
           /\ \A g \in Filings : stage.held[g] \subseteq Index
    BY <1>9, ImportHas DEF ImportSlice, ImportAddFails
  <2>2. cmd.is = "import" /\ f \in Filings /\ f \in cmd.todo /\ f \notin DOMAIN was.db.count
    BY <1>9, <2>0 DEF ArchiveInv, Importing, ImportSlice, ImportAddFails
  <2>3. f # "claim" /\ f # "unclaim"
    BY <1>1, <2>2
  <2>4. /\ dump.manifest /\ \A g \in cmd.todo : g # f => stage.held[g] = Lines(g)
        /\ \A g \in was.asked : g \in Rows(h) \/ (g \in cmd.todo /\ g # f)
    BY <2>0, <2>1, <2>2, <2>3 DEF ArchiveInv, Importing
  <2>5. \A g : Lines(g)' = Lines(g)
    BY <1>2 DEF Lines
  <2>6. CASE ImportSlice
    <3>1. UNCHANGED <<db, result, was, marred>>
      BY <2>6 DEF ImportSlice
    <3>2. PICK k \in stage.held[f] :
            /\ vec' = [vec EXCEPT ![cmd.host].held[f] = @ \cup {i \in stage.held[f] : i <= k}]
            /\ stage' = [stage EXCEPT !.held[f] = @ \ {i \in stage.held[f] : i <= k}]
            /\ cmd' = IF stage.held[f] = {i \in stage.held[f] : i <= k}
                      THEN [cmd EXCEPT !.step = "claim", !.todo = @ \ {f}] ELSE cmd
      BY <2>0, <2>6 DEF ImportSlice
    <3> DEFINE slice == {i \in stage.held[f] : i <= k}
    <3>3. slice \subseteq stage.held[f] /\ slice \subseteq Index
      BY <2>1, <2>2
    <3>4. /\ vec' = [vec EXCEPT ![h].held[f] = @ \cup slice] /\ stage' = [stage EXCEPT !.held[f] = @ \ slice]
          /\ \/ stage.held[f] = slice /\ cmd' = [cmd EXCEPT !.step = "claim", !.todo = @ \ {f}]
             \/ cmd' = cmd
      BY <2>1, <3>2
    <3> HIDE DEF slice
    <3>5. /\ DOMAIN vec' = Hosts /\ \A j \in Hosts \ {h} : vec'[j] = vec[j]
          /\ DOMAIN vec'[h] = {"is", "stamp", "held"} /\ vec'[h].is = "whole"
          /\ vec'[h].held = [vec[h].held EXCEPT ![f] = @ \cup slice]
      BY <2>1, <3>4
    <3>6. /\ vec'[h].held[f] = vec[h].held[f] \cup slice /\ vec'[h].held \in Held
          /\ \A g \in Filings \ {f} : vec'[h].held[g] = vec[h].held[g]
      BY <2>1, <2>2, <3>3, <3>5 DEF Held
    <3>7. DOMAIN stage' = {"held", "count", "version", "schema"} /\ stage'.held = [stage.held EXCEPT ![f] = @ \ slice]
          /\ stage'.count = stage.count
      BY <2>1, <3>4
    <3>8. /\ stage'.held[f] = stage.held[f] \ slice /\ stage'.held \in Held
          /\ \A g \in Filings \ {f} : stage'.held[g] = stage.held[g]
      BY <2>1, <2>2, <3>7 DEF Held
    <3>9. /\ DOMAIN cmd' = {"is", "host", "step", "todo"} /\ cmd'.is = "import" /\ cmd'.host = h
          /\ \/ cmd'.step = "claim" /\ cmd'.todo = cmd.todo \ {f} /\ stage.held[f] = slice
             \/ cmd'.step = f /\ cmd'.todo = cmd.todo
      BY <2>0, <2>1, <2>2, <3>4
    <3>10. BeingAdded(h, f) = stage.held[f] /\ stage.held[f] \ slice \subseteq BeingAdded(h, f)'
      BY <2>0, <2>1, <2>2, <3>8, <3>9 DEF BeingAdded
    <3>11. Fine(h, f)' <=> Fine(h, f)
      BY <1>2, <3>1 DEF Fine, AppIsAt
    <3>12. f \in DOMAIN db[h].count /\ Fine(h, f) =>
             /\ db[h].count[f] \subseteq vec[h].held[f] \cup stage.held[f]
             /\ ~dump.residue => dump.fetched[f] \subseteq vec[h].held[f] \cup stage.held[f]
      BY <2>1, <2>2, <3>10 DEF ArchiveInv, Registered, Brought, Rows
    <3>13. Importing'
      <4>1. Rows(h)' = Rows(h) /\ Whole(h)'
        BY <2>1, <3>1, <3>5 DEF Rows, Whole
      <4>2. cmd'.todo \subseteq Filings /\ \A g \in cmd'.todo : g # cmd'.step => stage'.held[g] = Lines(g)
        BY <2>1, <2>4, <3>8, <3>9
      <4> QED BY <1>1, <1>2, <2>1, <2>2, <2>3, <2>4, <2>5, <3>1, <3>9, <4>1, <4>2 DEF Importing
    <3>14. f \in DOMAIN db'[h].count /\ Fine(h, f)' =>
             /\ db'[h].count[f] \subseteq vec'[h].held[f] \cup BeingAdded(h, f)'
             /\ cmd'.is = "import" /\ ~dump.residue => dump.fetched[f] \subseteq vec'[h].held[f] \cup BeingAdded(h, f)'
      BY <3>1, <3>6, <3>10, <3>11, <3>12
    <3>15. /\ DOMAIN db' = Hosts /\ DOMAIN marred' = Hosts
           /\ \A j \in Hosts \ {h} : vec'[j] = vec[j] /\ db'[j] = db[j] /\ marred'[j] = marred[j]
           /\ DOMAIN db'[h] = {"is", "version", "count"} /\ IsCount(db'[h].count) /\ db'[h].is = "whole"
           /\ IsCount(stage'.count)
           /\ \A g \in Filings \ {f} :
                  /\ vec'[h].held[g] = vec[h].held[g]
                  /\ g \in DOMAIN db'[h].count <=> g \in DOMAIN db[h].count
                  /\ g \in DOMAIN db[h].count => db'[h].count[g] = db[h].count[g]
                  /\ marred'[h][g] = marred[h][g]
      BY <2>1, <3>1, <3>5, <3>6, <3>7
    <3> QED BY <1>6, <2>1, <2>2, <3>1, <3>5, <3>6, <3>7, <3>8, <3>9, <3>13, <3>14, <3>15, <2>0
  <2>7. CASE ImportAddFails
    <3>1. UNCHANGED <<db, result, was, stage>>
      BY <2>7 DEF ImportAddFails
    <3>2. PICK written \in SUBSET Index :
            /\ vec' = [vec EXCEPT ![h].held[f] = @ \ written] \/ vec' = vec
            /\ cmd' = [cmd EXCEPT !.step = "unclaim", !.todo = {f}] /\ Mark(h, {f}, "failed")
      <4>1. /\ vec' = [vec EXCEPT ![cmd.host].held[f] = @ \ (Lines(f) \ stage.held[f])] \/ vec' = vec
            /\ cmd' = [cmd EXCEPT !.step = "unclaim", !.todo = {f}] /\ Mark(cmd.host, {f}, "failed")
        BY <2>0, <2>7 DEF ImportAddFails
      <4>2. Lines(f) \ stage.held[f] \in SUBSET Index
        BY DEF Lines
      <4>3. cmd.host = h
        BY <2>1
      <4> QED BY <4>1, <4>2, <4>3, Zenon
    <3>3. /\ DOMAIN vec' = Hosts /\ \A j \in Hosts \ {h} : vec'[j] = vec[j]
          /\ DOMAIN vec'[h] = {"is", "stamp", "held"} /\ vec'[h].is = "whole"
          /\ \/ vec'[h].held = [vec[h].held EXCEPT ![f] = @ \ written]
             \/ vec'[h].held = vec[h].held
      <4>1. CASE vec' = [vec EXCEPT ![h].held[f] = @ \ written]
        BY <2>1, <4>1
      <4>2. CASE vec' = vec
        BY <2>1, <4>2
      <4> QED BY <3>2, <4>1, <4>2
    <3>4. vec'[h].held \in Held /\ \A g \in Filings \ {f} : vec'[h].held[g] = vec[h].held[g]
      BY <2>1, <2>2, <3>3 DEF Held
    <3>5. /\ DOMAIN cmd' = {"is", "host", "step", "todo"} /\ cmd'.is = "import" /\ cmd'.host = h
          /\ cmd'.step = "unclaim" /\ cmd'.todo = {f}
      BY <2>1, <2>2, <3>2
    <3>6. /\ DOMAIN marred' = Hosts /\ \A j \in Hosts \ {h} : marred'[j] = marred[j]
          /\ \A g \in Filings \ {f} : marred'[h][g] = marred[h][g]
          /\ marred'[h][f] = "failed"
      BY <2>2, <3>2, MarkIs DEF ArchiveInv
    <3>7. Importing'
      BY <1>1, <1>2, <2>1, <2>2, <2>4, <3>1, <3>3, <3>5 DEF Importing, Whole
    <3>8. ~Fine(h, f)'
      BY <3>6 DEF Fine
    <3>9. /\ DOMAIN db' = Hosts /\ \A j \in Hosts \ {h} : vec'[j] = vec[j] /\ db'[j] = db[j] /\ marred'[j] = marred[j]
          /\ DOMAIN db'[h] = {"is", "version", "count"} /\ IsCount(db'[h].count) /\ db'[h].is = "whole"
          /\ DOMAIN stage' = {"held", "count", "version", "schema"} /\ stage'.held \in Held /\ IsCount(stage'.count)
          /\ \A g \in Filings \ {f} :
                  /\ vec'[h].held[g] = vec[h].held[g]
                  /\ g \in DOMAIN db'[h].count <=> g \in DOMAIN db[h].count
                  /\ g \in DOMAIN db[h].count => db'[h].count[g] = db[h].count[g]
                  /\ marred'[h][g] = marred[h][g]
      BY <2>1, <3>1, <3>3, <3>4, <3>6
    <3> QED BY <1>6, <2>1, <2>2, <3>1, <3>3, <3>4, <3>5, <3>6, <3>7, <3>8, <3>9, <2>0
  <2> QED BY <1>9, <2>6, <2>7
<1>10. CASE ImportUnclaim
  <2>1. /\ cmd.is = "import" /\ cmd.step = "unclaim" /\ UNCHANGED <<vec, was>>
        /\ cmd' = Idle /\ stage' = Nothing /\ result' = "failed"
        /\ \/ \E f \in cmd.todo :
                db' = [db EXCEPT ![cmd.host].count = WithoutRow(@, f)] /\ Mark(cmd.host, {f}, "no")
           \/ UNCHANGED <<db, marred>>
    BY <1>10 DEF ImportUnclaim, Doing, End
  <2>2. CASE UNCHANGED <<db, marred>>
    BY <1>5, <2>1, <2>2
  <2>3. CASE \E f \in cmd.todo :
               db' = [db EXCEPT ![cmd.host].count = WithoutRow(@, f)] /\ Mark(cmd.host, {f}, "no")
    <3>1. PICK h \in Hosts :
             /\ cmd.host = h /\ was.host = h /\ vec[h].is = "whole" /\ db[h].is = "whole"
             /\ DOMAIN vec = Hosts /\ DOMAIN db = Hosts /\ DOMAIN marred = Hosts
             /\ DOMAIN vec[h] = {"is", "stamp", "held"} /\ vec[h].held \in Held
             /\ DOMAIN db[h] = {"is", "version", "count"} /\ IsCount(db[h].count)
             /\ cmd.todo \subseteq Filings
      BY <2>1, ImportHas
    <3>2. cmd.host = h
      BY <3>1
    <3>3. PICK f \in cmd.todo : db' = [db EXCEPT ![h].count = WithoutRow(@, f)] /\ Mark(h, {f}, "no")
      BY <2>3, <3>2, Zenon
    <3>4. f \in Filings /\ f \notin DOMAIN was.db.count
      BY <2>1, <3>1 DEF ArchiveInv, Importing
    <3> DEFINE c == db[h].count
    <3>5. IsCount(WithoutRow(c, f)) /\ DOMAIN WithoutRow(c, f) = DOMAIN c \ {f}
          /\ \A g \in DOMAIN c \ {f} : WithoutRow(c, f)[g] = c[g]
      BY <3>1, WithoutRowIs, Zenon
    <3>6. /\ DOMAIN db' = Hosts /\ \A k \in Hosts \ {h} : db'[k] = db[k]
          /\ DOMAIN db'[h] = {"is", "version", "count"} /\ db'[h].is = "whole" /\ db'[h].count = WithoutRow(c, f)
      BY <3>1, <3>3
    <3>7. /\ DOMAIN marred' = Hosts /\ \A k \in Hosts \ {h} : marred'[k] = marred[k]
          /\ \A g \in Filings \ {f} : marred'[h][g] = marred[h][g]
      BY <3>3, MarkIs DEF ArchiveInv
    <3>8. /\ DOMAIN cmd' = {"is", "host", "step", "todo"} /\ cmd'.is = "none" /\ cmd'.host \in Hosts
          /\ DOMAIN stage' = {"held", "count", "version", "schema"} /\ stage'.held \in Held /\ IsCount(stage'.count)
      BY <2>1, IdleIs DEF Hosts
    <3>9. /\ \A g \in Filings \ {f} :
                /\ vec'[h].held[g] = vec[h].held[g]
                /\ g \in DOMAIN db'[h].count <=> g \in DOMAIN db[h].count
                /\ g \in DOMAIN db[h].count => db'[h].count[g] = db[h].count[g]
                /\ marred'[h][g] = marred[h][g]
          /\ f \notin DOMAIN db'[h].count /\ IsCount(db'[h].count)
      BY <2>1, <3>5, <3>6, <3>7
    <3>10. /\ DOMAIN vec' = Hosts /\ \A k \in Hosts \ {h} : vec'[k] = vec[k]
           /\ DOMAIN vec'[h] = {"is", "stamp", "held"} /\ vec'[h].held \in Held /\ vec'[h].is = "whole"
      BY <2>1, <3>1
    <3> HIDE DEF c
    <3> QED BY <1>6, <2>1, <3>1, <3>4, <3>6, <3>7, <3>8, <3>9, <3>10
  <2> QED BY <2>1, <2>2, <2>3
<1> QED BY <1>4, <1>7, <1>8, <1>9, <1>10

\* Two hosts with empty stores, no artefact and no export.
LEMMA ArchiveInitKeeps ==
  ASSUME ArchiveInit
  PROVE  ArchiveInv
<1>1. Here \in Hosts /\ There \in Hosts /\ Here # There
  BY ArchiveAssumption DEF Hosts
<1>2. PICK v \in {2, 3} : db = [h \in Hosts |-> File(IF h = Here THEN v ELSE conf[h].build, NoRows)]
  BY DEF ArchiveInit
<1>3. /\ vec = [h \in Hosts |-> Collection(conf[h].stamp, NoChunks)]
      /\ tar = NoTar /\ dump = NoDump /\ app = AppIdle("off")
      /\ cmd = Idle /\ stage = Nothing /\ result = "none" /\ was = NoWas
      /\ marred = [h \in Hosts |-> [f \in Filings |-> "no"]]
  BY DEF ArchiveInit
<1>4. /\ DOMAIN vec = Hosts /\ DOMAIN db = Hosts /\ DOMAIN marred = Hosts
      /\ \A h \in Hosts : /\ vec[h] = Collection(conf[h].stamp, NoChunks)
                          /\ \E n : db[h] = File(n, NoRows)
  BY <1>2, <1>3
<1>5. /\ DOMAIN tar = {"is", "stamp", "version", "schema", "key", "held", "count"} /\ tar.held = NoChunks /\ tar.count = NoRows
      /\ DOMAIN dump = {"manifest", "lines", "fetched", "residue"} /\ dump.fetched = NoChunks /\ dump.manifest = FALSE
      /\ app.step = "off"
  BY <1>3 DEF NoTar, NoDump, AppIdle, AppAt
<1>6. ArchiveTypes
  BY <1>1, <1>3, <1>4, <1>5, StoresAre, IdleIs DEF ArchiveTypes
<1>7. Control /\ Restoring /\ BackingUp /\ Running /\ Dumped /\ Importing
  BY <1>3, <1>5, IdleIs DEF Control, Restoring, BackingUp, Running, Dumped, Importing
<1>8. \A h \in Hosts : Rows(h) = {}
  BY <1>4, StoresAre DEF Rows, NoRows
<1>9. Registered /\ Brought /\ Ended
  BY <1>3, <1>8, IdleIs DEF Registered, Brought, Ended
<1>10. RestoreSafe /\ ImportKeepsExisting
  BY <1>1, <1>3, <1>4, StoresAre, IdleIs DEF RestoreSafe, RefusalKeepsLive, RestoredIsArtefact, LiveOrArtefact, Whole,
       ImportKeepsExisting
<1> QED BY <1>6, <1>7, <1>9, <1>10 DEF ArchiveInv

\* Every step of the application and of a command keeps the invariant.
LEMMA ArchiveStep == ArchiveInv /\ [ArchiveNext]_archiveVars => ArchiveInv'
<1>1. ASSUME ArchiveInv, UNCHANGED archiveVars PROVE ArchiveInv'
  <2>1. UNCHANGED <<conf, vec, db, tar, dump, app, cmd, stage, result, was, marred>>
    BY <1>1 DEF archiveVars, data
  <2>2. ArchiveTypes' /\ Control' /\ Restoring' /\ BackingUp' /\ Running' /\ Dumped'
    BY <1>1, <2>1 DEF ArchiveInv, ArchiveTypes, Control, Restoring, BackingUp, Running, Dumped, Whole, Restorable, Accepts
  <2>3. /\ \A h : Rows(h)' = Rows(h) /\ \A f : Lines(f)' = Lines(f)
        /\ \A h, f : Fine(h, f)' = Fine(h, f) /\ BeingAdded(h, f)' = BeingAdded(h, f)
    BY <2>1 DEF Rows, Lines, Fine, AppIsAt, BeingAdded
  <2>4. Importing' /\ Registered' /\ Brought' /\ Ended'
    BY <1>1, <2>1, <2>3 DEF ArchiveInv, Importing, Registered, Brought, Ended, Whole
  <2>5. RestoreSafe' /\ ImportKeepsExisting'
    BY <1>1, <2>1 DEF ArchiveInv, RestoreSafe, RefusalKeepsLive, RestoredIsArtefact, LiveOrArtefact, Whole, Restorable,
         Accepts, ImportKeepsExisting, Rows
  <2> QED BY <2>2, <2>4, <2>5 DEF ArchiveInv
<1>2. ASSUME ArchiveInv, ArchiveNext PROVE ArchiveInv'
  BY <1>2, ApplicationKeeps, InterruptKeeps, BackupKeeps, RestoreKeeps, ExportKeeps, ImportKeeps DEF ArchiveNext
<1> QED BY <1>1, <1>2

\* The inductive invariant holds throughout, wherever a command is cut off and
\* whatever the application does beside it.
THEOREM ArchiveInvariant == ArchiveSpec => []ArchiveInv
  BY ArchiveInitKeeps, ArchiveStep, PTL DEF ArchiveSpec

\* A refused restore has touched nothing, a finished one has put both stores at the
\* artefact's state, and no backup or restore ever leaves the host with neither
\* readable stores nor an artefact it accepts (database/backup.py:317, 819).
THEOREM ArchiveRestoreSafe == ArchiveSpec => []RestoreSafe
<1>1. ArchiveInv => RestoreSafe
  BY DEF ArchiveInv
<1> QED BY <1>1, ArchiveInvariant, PTL

\* After an import that reported success the filings asked for are registered, each
\* registered filing has the chunks it was registered with and one the import
\* brought all the export read, whatever was interrupted before but the filings
\* that left half stored, and whatever the application does beside; an import
\* never changes a filing the host had (database/portable.py:22).
THEOREM ArchiveImportSafe == ArchiveSpec => []ImportSafe
<1>1. ArchiveInv => ImportSafe
  BY ImportedHas
<1> QED BY <1>1, ArchiveInvariant, PTL
=============================================================================
