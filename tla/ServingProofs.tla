---------------------------- MODULE ServingProofs -----------------------------
(***************************************************************************)
(* Proofs about what every request of a worker goes through: the model     *)
(* catalogue, the embedder and the gates before a handler, for any         *)
(* workers, threads, clients, documents, limits and times.                 *)
(***************************************************************************)
EXTENDS Catalogue, Embedder, Requests, FiniteSetTheorems, WellFoundedInduction, TLAPS

-----------------------------------------------------------------------------
(* The model catalogue: a reported refresh takes effect.                   *)

\* What a thread has in hand: a step, a process and a catalogue, next to data
\* the proof does not look at.
Shape ==
  /\ overlay.version \in Nat
  /\ DOMAIN thread = Threads /\ DOMAIN active = Workers
  /\ \A t \in Threads :
       /\ DOMAIN thread[t] = {"at", "of", "doc", "rows", "got"}
       /\ DOMAIN thread[t].got = {"kind", "rows", "version"}
       /\ thread[t].got.version \in Nat
  /\ promised \in [Workers -> Nat]
  /\ raced \in [Workers -> BOOLEAN]

\* No refresh is reported that is not in the file.
Reported ==
  /\ \A w \in Workers : promised[w] <= overlay.version
  /\ \A t \in Threads : thread[t].at = "reset" => thread[t].got.version <= overlay.version

\* What a thread is about to cache is as new as the newest reported refresh,
\* unless it was loaded before the cache was dropped.
InHandFresh ==
  \A w \in Workers, t \in Threads :
    ~raced[w] /\ thread[t].of = w /\ thread[t].at = "assign" =>
      thread[t].got.version >= promised[w]

CatalogueInv == Shape /\ Reported /\ InHandFresh /\ RefreshTakesEffect

\* A process starts without a catalogue.
LEMMA CatalogueStarts == CatalogueInit => CatalogueInv
  BY DEF CatalogueInit, CatalogueInv, Shape, Reported, InHandFresh, RefreshTakesEffect,
         Absent, Idle, Nothing

\* A thread that has nothing to cache or to report next, and leaves the caches
\* and the file alone.
LEMMA Aside ==
  ASSUME NEW t \in Threads, CatalogueInv, Shape', UNCHANGED <<overlay, active, promised, raced>>,
         \A u \in Threads \ {t} : thread'[u] = thread[u],
         thread'[t].at \notin {"assign", "reset"}
  PROVE  CatalogueInv'
<1>1. Reported'
  <2>1. \A u \in Threads : thread'[u].at = "reset" => thread'[u].got.version <= overlay.version
    BY DEF CatalogueInv, Reported
  <2> QED BY <2>1 DEF CatalogueInv, Reported
<1>2. InHandFresh'
  BY DEF CatalogueInv, InHandFresh
<1>3. RefreshTakesEffect'
  BY DEF CatalogueInv, RefreshTakesEffect
<1> QED BY <1>1, <1>2, <1>3 DEF CatalogueInv

\* A look-up caches what it loaded, or returns what is cached.
LEMMA LookUpKeeps ==
  ASSUME NEW t \in Threads, CatalogueInv, Check(t) \/ Load(t) \/ Assign(t) \/ ReturnActive(t)
  PROVE  CatalogueInv'
<1> USE DEF CatalogueInv, Shape, Reported, InHandFresh, RefreshTakesEffect, Become
<1>1. CASE Check(t)
  <2>1. PICK w \in Workers :
          thread' = [thread EXCEPT ![t].of = w,
                                   ![t].at = IF active[w] = Nothing THEN "load" ELSE "return"]
    BY <1>1 DEF Check
  <2>2. \A u \in Threads \ {t} : thread'[u] = thread[u]
    BY <2>1
  <2>3. thread'[t].at \in {"load", "return"} /\ thread'[t].got = thread[t].got
    BY <2>1
  <2>4. Shape'
    BY <1>1, <2>1 DEF Check
  <2>5. UNCHANGED <<overlay, active, promised, raced>>
    BY <1>1 DEF Check
  <2> HIDE DEF CatalogueInv, Shape, Reported, InHandFresh, RefreshTakesEffect
  <2> QED BY <2>2, <2>3, <2>4, <2>5, Aside
<1>2. CASE Load(t)
  BY <1>2 DEF Load
<1>3. CASE Assign(t)
  BY <1>3 DEF Assign
<1>4. CASE ReturnActive(t)
  BY <1>4 DEF ReturnActive
<1> QED BY <1>1, <1>2, <1>3, <1>4

\* A refresh on its way to the file leaves every cache alone.
LEMMA PrepareKeeps ==
  ASSUME NEW t \in Threads, CatalogueInv,
         FetchJson(t) \/ Normalise(t) \/ Validate(t) \/ WriteTemp(t) \/ Finish(t)
  PROVE  CatalogueInv'
<1> USE DEF CatalogueInv, Shape, Reported, InHandFresh, RefreshTakesEffect, Become
<1>1. CASE FetchJson(t)
  <2>1. PICK of \in Workers \cup {"command"}, doc \in Documents \cup {<<>>} :
          thread' = [thread EXCEPT ![t].of = of, ![t].doc = doc,
                                   ![t].at = IF doc = <<>> THEN "failed" ELSE "fetched"]
    BY <1>1 DEF FetchJson
  <2>2. \A u \in Threads \ {t} : thread'[u] = thread[u]
    BY <2>1
  <2>3. thread'[t].at \in {"failed", "fetched"} /\ thread'[t].got = thread[t].got
    BY <2>1
  <2>4. Shape'
    BY <1>1, <2>1, ZenonT(40) DEF FetchJson
  <2>5. UNCHANGED <<overlay, active, promised, raced>>
    BY <1>1 DEF FetchJson
  <2> HIDE DEF CatalogueInv, Shape, Reported, InHandFresh, RefreshTakesEffect
  <2> QED BY <2>2, <2>3, <2>4, <2>5, Aside
<1>2. CASE Normalise(t)
  BY <1>2 DEF Normalise
<1>3. CASE Validate(t)
  BY <1>3 DEF Validate
<1>4. CASE WriteTemp(t)
  BY <1>4 DEF WriteTemp
<1>5. CASE Finish(t)
  BY <1>5 DEF Finish, Idle, Nothing
<1> QED BY <1>1, <1>2, <1>3, <1>4, <1>5

\* The file only moves on to a newer version.
LEMMA FileKeeps ==
  ASSUME CatalogueInv, EditByHand \/ \E t \in Threads : Replace(t)
  PROVE  CatalogueInv'
<1> USE DEF CatalogueInv, Shape, Reported, InHandFresh, RefreshTakesEffect
<1>1. CASE EditByHand
  BY <1>1 DEF EditByHand
<1>2. ASSUME NEW t \in Threads, Replace(t) PROVE CatalogueInv'
  <2>1. overlay'.version = overlay.version + 1 /\ UNCHANGED <<active, promised, raced>>
    BY <1>2 DEF Replace
  <2>2. \A u \in Threads \ {t} : thread'[u] = thread[u]
    BY <1>2 DEF Replace
  <2>3. /\ thread'[t].at \in {"done", "reset"}
        /\ thread'[t].got.version = overlay.version + 1
        /\ DOMAIN thread' = Threads /\ DOMAIN thread'[t] = DOMAIN thread[t]
        /\ DOMAIN thread'[t].got = DOMAIN thread[t].got
    <3> DEFINE step == IF thread[t].of = "command" THEN "done" ELSE "reset"
               n == overlay.version + 1
               mine == [thread[t] EXCEPT !.at = step, !.rows = NoRows, !.got.version = n]
    <3>1. thread' = [thread EXCEPT ![t].at = step, ![t].rows = NoRows, ![t].got.version = n]
      BY <1>2 DEF Replace
    <3>2. thread'[t] = mine
      BY <3>1
    <3>3. mine.at = step /\ mine.got = [thread[t].got EXCEPT !.version = n]
      OBVIOUS
    <3> QED BY <3>1, <3>2, <3>3
  <2>4. Shape'
    BY <2>1, <2>2, <2>3
  <2>5. Reported'
    BY <2>1, <2>2, <2>3
  <2>6. InHandFresh' /\ RefreshTakesEffect'
    BY <2>1, <2>2, <2>3
  <2> QED BY <2>4, <2>5, <2>6
<1> QED BY <1>1, <1>2

\* Dropping the cache, and reporting the refresh, drops or marks whatever older
\* catalogue a thread of the worker still holds.
LEMMA ResetKeeps ==
  ASSUME NEW t \in Threads, CatalogueInv, Reset(t)
  PROVE  CatalogueInv'
<1> USE DEF CatalogueInv, Shape, Reported, InHandFresh, RefreshTakesEffect, Become
<1> DEFINE w == thread[t].of
<1>1. /\ active' = [active EXCEPT ![w] = Nothing]
      /\ promised' = [promised EXCEPT ![w] = Newest(@, thread[t].got.version)]
      /\ raced' = [raced EXCEPT ![w] = \E u \in Threads : thread[u].of = w /\ thread[u].at = "assign"]
      /\ overlay' = overlay /\ thread[t].at = "reset"
  BY DEF Reset
<1>2. \A u \in Threads \ {t} : thread'[u] = thread[u]
  BY DEF Reset
<1>3. thread'[t].at = "done" /\ thread'[t].got = thread[t].got
  BY DEF Reset
<1>4. Shape'
  BY <1>1 DEF Reset, Newest
<1>5. Reported'
  <2>1. \A v \in Workers : promised'[v] <= overlay.version
    BY <1>1 DEF Newest
  <2> QED BY <1>1, <1>2, <1>3, <2>1
<1>6. InHandFresh' /\ RefreshTakesEffect'
  <2>1. ASSUME NEW v \in Workers, v # w
        PROVE  raced'[v] = raced[v] /\ promised'[v] = promised[v] /\ active'[v] = active[v]
    BY <1>1, <2>1
  <2>2. w \in Workers => active'[w] = Nothing
    BY <1>1
  <2>3. w \in Workers /\ ~raced'[w] => \A u \in Threads : ~(thread[u].of = w /\ thread[u].at = "assign")
    BY <1>1
  <2>4. InHandFresh'
    <3> SUFFICES ASSUME NEW v \in Workers, NEW u \in Threads, ~raced'[v],
                        thread'[u].of = v, thread'[u].at = "assign"
                 PROVE  thread'[u].got.version >= promised'[v]
      OBVIOUS
    <3>1. u # t /\ thread'[u] = thread[u]
      BY <1>2, <1>3
    <3>2. v # w
      BY <2>3, <3>1
    <3> QED BY <2>1, <3>1, <3>2
  <2>5. RefreshTakesEffect'
    BY <2>1, <2>2
  <2> QED BY <2>4, <2>5
<1> QED BY <1>4, <1>5, <1>6

\* A restart takes cache and threads away together.
LEMMA RestartKeeps ==
  ASSUME NEW of \in Workers \cup {"command"}, CatalogueInv, Restart(of)
  PROVE  CatalogueInv'
  BY ZenonT(40) DEF CatalogueInv, Shape, Reported, InHandFresh, RefreshTakesEffect, Restart, Idle, Nothing

\* The inductive invariant holds throughout (providers/catalogue.py:367).
THEOREM CatalogueInvariant == CatalogueSpec => []CatalogueInv
<1>1. CatalogueInv /\ UNCHANGED catalogueVars => CatalogueInv'
  BY DEF CatalogueInv, Shape, Reported, InHandFresh, RefreshTakesEffect, catalogueVars
<1>2. CatalogueInv /\ [CatalogueNext]_catalogueVars => CatalogueInv'
  BY <1>1, LookUpKeeps, PrepareKeeps, FileKeeps, ResetKeeps, RestartKeeps DEF CatalogueNext
<1> QED BY <1>2, CatalogueStarts, PTL DEF CatalogueSpec

\* A worker that has reported a refresh answers from nothing older, unless a
\* look-up was loading when its cache was dropped (api/routes/catalogue.py:112).
THEOREM CatalogueRefreshTakesEffect == CatalogueSpec => []RefreshTakesEffect
<1>1. CatalogueInv => RefreshTakesEffect
  BY DEF CatalogueInv
<1> QED BY <1>1, CatalogueInvariant, PTL

-----------------------------------------------------------------------------
(* What the loop over an upstream document makes of it.                    *)

\* Induction on the natural numbers, over a set.
LEMMA SetInduction ==
  ASSUME NEW S, 0 \in S, \A n \in Nat : n \in S => n + 1 \in S
  PROVE  Nat \subseteq S
<1> DEFINE R == OpToRel(<, Nat)
<1>1. IsWellFoundedOn(R, Nat)
  BY NatLessThanWellFounded, Zenon
<1>2. \A x, y \in Nat : x < y => <<x, y>> \in R
  BY DEF OpToRel
<1> HIDE DEF R
<1>3. SUFFICES ASSUME Nat \ S # {} PROVE FALSE
  OBVIOUS
<1>4. PICK x \in Nat \ S : \A y \in Nat \ S : ~(<<y, x>> \in R)
  BY <1>1, <1>3, WFMin
<1>5. x # 0 /\ x - 1 \in Nat /\ x - 1 < x /\ (x - 1) + 1 = x
  BY <1>4
<1>6. x - 1 \notin Nat \ S
  BY <1>2, <1>4, <1>5
<1> QED BY <1>4, <1>5, <1>6

\* The loop starts from no rows and takes one entry after the other.
LEMMA TakenIs ==
  ASSUME NEW doc, Len(doc) \in Nat
  PROVE  /\ Taken(doc)[0] = NoRows
         /\ \A i \in 1..Len(doc) : Taken(doc)[i] = Take(Taken(doc)[i - 1], doc[i])
<1> DEFINE E(f, n) == f = [i \in 0..n |-> IF i = 0 THEN NoRows ELSE Take(f[i - 1], doc[i])]
           S == {n \in Nat : \E f : E(f, n)}
<1>1. 0 \in S
  <2> DEFINE f == [i \in 0..0 |-> NoRows]
  <2>1. E(f, 0)
    OBVIOUS
  <2> QED BY <2>1
<1>2. ASSUME NEW n \in Nat, n \in S PROVE n + 1 \in S
  <2>1. PICK f : E(f, n)
    BY <1>2
  <2> DEFINE g == [i \in 0..n + 1 |-> IF i = n + 1 THEN Take(f[n], doc[n + 1]) ELSE f[i]]
  <2>2. n + 1 \in Nat /\ n \in 0..n /\ 0..n + 1 = (0..n) \cup {n + 1} /\ n + 1 \notin 0..n
    OBVIOUS
  <2>3. g[n + 1] = Take(f[n], doc[n + 1]) /\ \A i \in 0..n : g[i] = f[i]
    BY <2>2, Zenon
  <2>4. \A i \in 0..n : f[i] = IF i = 0 THEN NoRows ELSE Take(f[i - 1], doc[i])
    BY <2>1, Zenon
  <2>5. DOMAIN g = 0..n + 1 /\ g = [i \in 0..n + 1 |-> g[i]]
    OBVIOUS
  <2> HIDE DEF g
  <2>6. ASSUME NEW i \in 0..n + 1
        PROVE  g[i] = IF i = 0 THEN NoRows ELSE Take(g[i - 1], doc[i])
    <3>1. CASE i = n + 1
      <4>1. i # 0 /\ i - 1 = n
        BY <3>1
      <4> QED BY <2>2, <2>3, <3>1, <4>1, Zenon
    <3>2. CASE i \in 0..n /\ i # 0
      <4>1. i - 1 \in 0..n
        BY <3>2
      <4> QED BY <2>3, <2>4, <3>2, <4>1, Zenon
    <3>3. CASE i = 0
      <4>1. 0 \in 0..n
        OBVIOUS
      <4> QED BY <2>3, <2>4, <3>3, <4>1, Zenon
    <3> QED BY <2>2, <3>1, <3>2, <3>3, Zenon
  <2>7. E(g, n + 1)
    BY <2>5, <2>6, Zenon
  <2> QED BY <2>2, <2>7, Zenon
<1>3. Len(doc) \in S
  <2> HIDE DEF S
  <2> QED BY <1>1, <1>2, SetInduction
<1>4. PICK f : E(f, Len(doc))
  BY <1>3
<1>5. E(Taken(doc), Len(doc))
  BY <1>4 DEF Taken
<1> QED BY <1>5

\* One entry more: the row of its slug, or nothing at all.
LEMMA TakeIs ==
  ASSUME NEW rows, NEW e, e.row \in CatalogueRows
  PROVE  \/ /\ e.id = Served \/ e.slug \notin DOMAIN rows
            /\ DOMAIN Take(rows, e) = DOMAIN rows \cup {e.slug}
            /\ Take(rows, e)[e.slug] = Coerced(e.row)
            /\ \A s \in DOMAIN rows : s # e.slug => Take(rows, e)[s] = rows[s]
         \/ e.id # Served /\ Take(rows, e) = rows
<1> DEFINE all == PutRow(rows, e.slug, Coerced(e.row))
<1>1. Take(rows, e) = IF e.id = Served \/ (e.id \in Aliases /\ e.slug \notin DOMAIN rows)
                      THEN all ELSE rows
  BY DEF Take
<1>2. /\ DOMAIN all = DOMAIN rows \cup {e.slug} /\ all[e.slug] = Coerced(e.row)
      /\ \A s \in DOMAIN rows : s # e.slug => all[s] = rows[s]
  BY Zenon DEF PutRow
<1> HIDE DEF all
<1> QED BY <1>1, <1>2, Zenon

\* Rows that the merge may look into: no cost below zero, and a last spelling of
\* every name that has one.
Clean(rows) ==
  /\ \A s \in DOMAIN rows : rows[s].cost # "negative" /\ s[2] \in Nat
  /\ \A s : Spellings(rows, s) # {} =>
       \E u \in Spellings(rows, s) : \A v \in Spellings(rows, s) : v[2] <= u[2]

\* One entry more leaves the rows clean.
LEMMA TakeClean ==
  ASSUME NEW rows, Clean(rows), NEW e, e.row \in CatalogueRows, e.slug[2] \in Nat
  PROVE  Clean(Take(rows, e))
<1>1. Coerced(e.row).cost # "negative"
  BY DEF Coerced, CatalogueRows
<1>2. CASE Take(rows, e) = rows
  BY <1>2, Zenon
<1>3. CASE /\ DOMAIN Take(rows, e) = DOMAIN rows \cup {e.slug}
           /\ Take(rows, e)[e.slug] = Coerced(e.row)
           /\ \A s \in DOMAIN rows : s # e.slug => Take(rows, e)[s] = rows[s]
  <2> DEFINE new == Take(rows, e)
  <2>1. \A s \in DOMAIN new : new[s].cost # "negative" /\ s[2] \in Nat
    BY <1>1, <1>3 DEF Clean
  <2>2. ASSUME NEW s, Spellings(new, s) # {}
        PROVE  \E u \in Spellings(new, s) : \A v \in Spellings(new, s) : v[2] <= u[2]
    <3>1. CASE e.slug[1] # s[1]
      <4>1. Spellings(new, s) = Spellings(rows, s)
        BY <1>3, <3>1 DEF Spellings
      <4> QED BY <2>2, <4>1 DEF Clean
    <3>2. CASE e.slug[1] = s[1] /\ Spellings(rows, s) = {}
      <4>1. Spellings(new, s) = {e.slug}
        BY <1>3, <3>2 DEF Spellings
      <4> QED BY <4>1
    <3>3. CASE e.slug[1] = s[1] /\ Spellings(rows, s) # {}
      <4>1. Spellings(new, s) = Spellings(rows, s) \cup {e.slug}
        BY <1>3, <3>3 DEF Spellings
      <4>2. PICK u \in Spellings(rows, s) : \A v \in Spellings(rows, s) : v[2] <= u[2]
        BY <3>3 DEF Clean
      <4>3. \A v \in Spellings(rows, s) : v[2] \in Nat
        BY DEF Clean, Spellings
      <4> QED BY <4>1, <4>2, <4>3
    <3> QED BY <3>1, <3>2, <3>3
  <2> HIDE DEF new
  <2>3. Clean(new)
    BY <2>1, <2>2 DEF Clean
  <2> QED BY <2>3 DEF new
<1> QED BY <1>2, <1>3, TakeIs

\* A document's rows are clean, and its own key's rows stand in them.
LEMMA NormalisedIs ==
  ASSUME NEW doc \in Documents
  PROVE  /\ Clean(Normalised(doc))
         /\ \A i \in 1..Len(doc) :
              doc[i].id = Served => Normalised(doc)[doc[i].slug] = Coerced(doc[i].row)
<1>1. /\ Len(doc) \in Nat
      /\ \A i \in 1..Len(doc) : doc[i].row \in CatalogueRows /\ doc[i].slug[2] \in Nat
      /\ \A i, j \in 1..Len(doc) : doc[i].id = doc[j].id /\ doc[i].slug = doc[j].slug => i = j
  BY CatalogueAssumption, Zenon
<1> DEFINE T == Taken(doc)
           Own(n) == \A i \in 1..n : doc[i].id = Served =>
                       doc[i].slug \in DOMAIN T[n] /\ T[n][doc[i].slug] = Coerced(doc[i].row)
           S == {n \in Nat : n <= Len(doc) => Clean(T[n]) /\ Own(n)}
<1>2. T[0] = NoRows /\ \A i \in 1..Len(doc) : T[i] = Take(T[i - 1], doc[i])
  BY <1>1, TakenIs, Zenon
<1> HIDE DEF T
<1>3. 0 \in S
  <2>1. Clean(NoRows)
    BY DEF Clean, NoRows, Spellings
  <2>2. Own(0)
    OBVIOUS
  <2> QED BY <1>2, <2>1, <2>2, Zenon
<1>4. ASSUME NEW n \in Nat, n \in S PROVE n + 1 \in S
  <2>1. n + 1 \in Nat
    OBVIOUS
  <2> SUFFICES ASSUME n + 1 <= Len(doc) PROVE Clean(T[n + 1]) /\ Own(n + 1)
    BY <2>1, Zenon
  <2> DEFINE e == doc[n + 1]
  <2>2. n + 1 \in 1..Len(doc) /\ n <= Len(doc) /\ (n + 1) - 1 = n
    BY <1>1
  <2>3. T[n + 1] = Take(T[n], e) /\ e.row \in CatalogueRows /\ e.slug[2] \in Nat
    BY <1>1, <1>2, <2>2, Zenon
  <2>4. Clean(T[n]) /\ Own(n)
    BY <1>4, <2>2, Zenon
  <2>5. Clean(T[n + 1])
    BY <2>3, <2>4, TakeClean, Zenon
  <2>6. ASSUME NEW i \in 1..n + 1, doc[i].id = Served
        PROVE  doc[i].slug \in DOMAIN T[n + 1] /\ T[n + 1][doc[i].slug] = Coerced(doc[i].row)
    <3>1. \/ /\ e.id = Served \/ e.slug \notin DOMAIN T[n]
             /\ DOMAIN T[n + 1] = DOMAIN T[n] \cup {e.slug}
             /\ T[n + 1][e.slug] = Coerced(e.row)
             /\ \A s \in DOMAIN T[n] : s # e.slug => T[n + 1][s] = T[n][s]
          \/ e.id # Served /\ T[n + 1] = T[n]
      <4> HIDE DEF e
      <4> QED BY <2>3, TakeIs, Zenon
    <3>2. CASE i = n + 1
      BY <2>6, <3>1, <3>2, Zenon
    <3>3. CASE i \in 1..n
      <4>1. doc[i].slug \in DOMAIN T[n] /\ T[n][doc[i].slug] = Coerced(doc[i].row)
        BY <2>4, <2>6, <3>3, Zenon
      <4>2. i \in 1..Len(doc) /\ i # n + 1
        BY <1>1, <2>2, <3>3
      <4>3. e.id = Served => e.slug # doc[i].slug
        BY <1>1, <2>2, <2>6, <4>2, Zenon
      <4> QED BY <3>1, <4>1, <4>3, Zenon
    <3> QED BY <3>2, <3>3
  <2> QED BY <2>5, <2>6, Zenon
<1>5. Len(doc) \in S
  <2> HIDE DEF S
  <2> QED BY <1>1, <1>3, <1>4, SetInduction
<1> QED BY <1>1, <1>5 DEF Normalised, T
-----------------------------------------------------------------------------
(* What a look-up may rely on.                                             *)

\* Merged rows that take nothing from the baseline.
Kept(rows) ==
  \A s \in DOMAIN Baseline :
    /\ {u \in ListModels(rows) : u[1] = s[1]} = {s}
    /\ Baseline[s].flag => Capability(rows, s).flag
    /\ Baseline[s].window # "unknown" => Capability(rows, s).window # "unknown"
    /\ Baseline[s].cost # "none" => Capability(rows, s).cost \notin {"none", "negative", "huge"}

\* Whatever clean rows the file holds, the merge keeps the baseline.
LEMMA MergedKept ==
  ASSUME Clean(overlay.rows)
  PROVE  Kept(LoadMerged)
<1> DEFINE file == LoadOverlay
           rows == LoadMerged
<1>1. Clean(file) /\ Valid(file)
  <2>1. Clean(NoRows) /\ Valid(NoRows)
    BY DEF Clean, NoRows, Spellings, Valid
  <2> QED BY <2>1 DEF LoadOverlay
<1>2. /\ DOMAIN rows = DOMAIN Baseline \cup Added(file)
      /\ \A s \in DOMAIN Baseline :
           rows[s] = IF Spellings(file, s) = {} THEN Baseline[s]
                     ELSE MergeRow(Baseline[s], file[Counterpart(file, s)])
  BY DEF LoadMerged
<1> HIDE DEF file, rows
<1> SUFFICES ASSUME NEW s \in DOMAIN Baseline
             PROVE  /\ {u \in ListModels(rows) : u[1] = s[1]} = {s}
                    /\ Baseline[s].flag => Capability(rows, s).flag
                    /\ Baseline[s].window # "unknown" => Capability(rows, s).window # "unknown"
                    /\ Baseline[s].cost # "none" =>
                         Capability(rows, s).cost \notin {"none", "negative", "huge"}
  BY DEF Kept, rows
<1>3. {u \in ListModels(rows) : u[1] = s[1]} = {s}
  <2>1. \A u \in DOMAIN Baseline : s[1] = u[1] => s = u
    BY CatalogueAssumption, Zenon
  <2>2. \A u \in Added(file) : s[1] # u[1]
    BY DEF Added
  <2> QED BY <1>2, <2>1, <2>2 DEF ListModels
<1>4. Capability(rows, s) = rows[s]
  BY <1>2 DEF Capability
<1>5. CASE Spellings(file, s) = {}
  <2>1. rows[s] = Baseline[s]
    BY <1>2, <1>5, Zenon
  <2>2. Baseline[s].cost \notin {"negative", "huge"}
    BY CatalogueAssumption, Zenon
  <2> QED BY <1>3, <1>4, <2>1, <2>2
<1>6. CASE Spellings(file, s) # {}
  <2> DEFINE c == Counterpart(file, s)
  <2>1. c \in DOMAIN file
    <3>1. \E u \in Spellings(file, s) : \A v \in Spellings(file, s) : v[2] <= u[2]
      BY <1>1, <1>6 DEF Clean
    <3>2. s \notin DOMAIN file => c \in Spellings(file, s)
      BY <3>1 DEF Counterpart
    <3>3. s \in DOMAIN file => c = s
      BY DEF Counterpart
    <3> QED BY <3>2, <3>3 DEF Spellings
  <2> HIDE DEF c
  <2>2. file[c].cost \notin {"negative", "huge"}
    BY <1>1, <2>1 DEF Clean, Valid
  <2>3. rows[s] = MergeRow(Baseline[s], file[c])
    BY <1>2, <1>6, Zenon DEF c
  <2>4. /\ Baseline[s].flag => rows[s].flag
        /\ rows[s].window = IF file[c].window # "unknown" THEN file[c].window ELSE Baseline[s].window
        /\ rows[s].cost = IF file[c].cost # "none" THEN file[c].cost ELSE Baseline[s].cost
    <3>1. Baseline[s].flag => rows[s].flag
      <4> DEFINE flag == Baseline[s].flag \/ file[c].flag
      <4>1. rows[s].flag = flag
        <5> HIDE DEF flag
        <5> QED BY <2>3 DEF MergeRow, flag
      <4> QED BY <4>1, Zenon
    <3>2. /\ rows[s].window = IF file[c].window # "unknown" THEN file[c].window ELSE Baseline[s].window
          /\ rows[s].cost = IF file[c].cost # "none" THEN file[c].cost ELSE Baseline[s].cost
      BY <2>3 DEF MergeRow
    <3> QED BY <3>1, <3>2, Zenon
  <2>5. Baseline[s].cost \notin {"negative", "huge"}
    BY CatalogueAssumption, Zenon
  <2> QED BY <1>3, <1>4, <2>2, <2>4, <2>5
<1> QED BY <1>5, <1>6

\* What a thread has in hand at each step of its look-up or refresh.
InHand(h) ==
  /\ Clean(h.rows)
  /\ h.at \in {"valid", "written"} => Valid(h.rows)
  /\ h.at \in {"fetched", "normalised"} => h.doc \in Documents
  /\ h.at = "normalised" => h.rows = Normalised(h.doc)
  /\ h.at \in {"load", "assign", "return"} => h.of \in Workers
  /\ h.at = "assign" => Kept(h.got.rows)
  /\ h.at = "told" /\ h.got # Nothing => Kept(h.got.rows)

CachesKept == \A w \in Workers : active[w] # Nothing => Kept(active[w].rows)

SoundInv ==
  /\ Clean(overlay.rows) /\ OverlaySound
  /\ CachesKept
  /\ \A t \in Threads : InHand(thread[t])

\* A thread at rest has nothing in hand that could be wrong.
LEMMA IdleInHand == InHand(Idle)
  BY DEF InHand, Idle, Nothing, Clean, NoRows, Spellings

\* An absent overlay and empty caches are sound.
LEMMA SoundStarts == CatalogueInit => SoundInv
<1> SUFFICES ASSUME CatalogueInit PROVE SoundInv
  OBVIOUS
<1>1. Clean(overlay.rows) /\ OverlaySound
  BY DEF CatalogueInit, Absent, Clean, NoRows, Spellings, OverlaySound, Valid
<1>2. CachesKept
  BY DEF CatalogueInit, CachesKept
<1>3. \A t \in Threads : thread[t] = Idle
  BY DEF CatalogueInit
<1> QED BY <1>1, <1>2, <1>3, IdleInHand DEF SoundInv

\* A thread's step of its own: the file and the caches stay.
LEMMA StepOfOne ==
  ASSUME NEW t \in Threads, SoundInv, UNCHANGED <<overlay, active>>,
         \A u \in Threads \ {t} : thread'[u] = thread[u], InHand(thread'[t])
  PROVE  SoundInv'
  BY DEF SoundInv, OverlaySound, CachesKept

\* A look-up hands out the merge, or what a look-up has cached.
LEMMA LookUpSound ==
  ASSUME NEW t \in Threads, Shape, SoundInv, Check(t) \/ Load(t) \/ Assign(t) \/ ReturnActive(t)
  PROVE  SoundInv'
<1>1. InHand(thread[t]) /\ Clean(overlay.rows) /\ CachesKept
  BY DEF SoundInv
<1>2. CASE Check(t)
  <2>1. PICK w \in Workers :
          thread' = [thread EXCEPT ![t].of = w,
                                   ![t].at = IF active[w] = Nothing THEN "load" ELSE "return"]
    BY <1>2 DEF Check
  <2>2. /\ thread'[t].of = w /\ thread'[t].at \in {"load", "return"}
        /\ thread'[t].rows = thread[t].rows
    BY <2>1 DEF Shape
  <2>3. InHand(thread'[t])
    BY <1>1, <2>2 DEF InHand
  <2>4. \A u \in Threads \ {t} : thread'[u] = thread[u]
    BY <2>1 DEF Shape
  <2> QED BY <1>2, <2>3, <2>4, StepOfOne DEF Check
<1>3. CASE Load(t)
  <2>1. /\ thread'[t].of = thread[t].of /\ thread'[t].at = "assign"
        /\ thread'[t].rows = thread[t].rows
        /\ thread'[t].got = [kind |-> "catalogue", rows |-> LoadMerged, version |-> overlay.version]
        /\ thread[t].at = "load"
        /\ \A u \in Threads \ {t} : thread'[u] = thread[u]
    BY <1>3 DEF Load, Shape
  <2>2. Kept(thread'[t].got.rows)
    BY <1>1, <2>1, MergedKept
  <2>3. InHand(thread'[t])
    BY <1>1, <2>1, <2>2 DEF InHand
  <2> QED BY <1>3, <2>1, <2>3, StepOfOne DEF Load
<1>4. CASE Assign(t)
  <2>1. /\ thread'[t].of = thread[t].of /\ thread'[t].at = "return"
        /\ thread'[t].rows = thread[t].rows
        /\ thread[t].at = "assign"
        /\ \A u \in Threads \ {t} : thread'[u] = thread[u]
        /\ active' = [active EXCEPT ![thread[t].of] = thread[t].got]
        /\ overlay' = overlay
    BY <1>4 DEF Assign, Become, Shape
  <2>2. InHand(thread'[t]) /\ Kept(thread[t].got.rows)
    BY <1>1, <2>1 DEF InHand
  <2>3. CachesKept'
    BY <1>1, <2>1, <2>2 DEF CachesKept, Shape
  <2>4. \A u \in Threads : InHand(thread'[u])
    BY <2>1, <2>2 DEF SoundInv
  <2> QED BY <2>1, <2>3, <2>4 DEF SoundInv, OverlaySound
<1>5. CASE ReturnActive(t)
  <2>1. /\ thread'[t].of = thread[t].of /\ thread'[t].at = "told"
        /\ thread'[t].rows = thread[t].rows
        /\ thread'[t].got = active[thread[t].of]
        /\ thread[t].at = "return"
        /\ \A u \in Threads \ {t} : thread'[u] = thread[u]
    BY <1>5 DEF ReturnActive, Shape
  <2>2. thread[t].of \in Workers
    BY <1>1, <2>1 DEF InHand
  <2>3. InHand(thread'[t])
    BY <1>1, <2>1, <2>2 DEF InHand, CachesKept
  <2> QED BY <1>5, <2>1, <2>3, StepOfOne DEF ReturnActive
<1> QED BY <1>2, <1>3, <1>4, <1>5

\* A refresh goes from a document to its normalised, then its valid rows.
LEMMA PrepareSound ==
  ASSUME NEW t \in Threads, Shape, SoundInv,
         FetchJson(t) \/ Normalise(t) \/ Validate(t) \/ WriteTemp(t) \/ Finish(t)
  PROVE  SoundInv'
<1>1. InHand(thread[t])
  BY DEF SoundInv
<1>2. CASE FetchJson(t)
  <2>1. PICK of \in Workers \cup {"command"}, doc \in Documents \cup {<<>>} :
          thread' = [thread EXCEPT ![t].of = of, ![t].doc = doc,
                                   ![t].at = IF doc = <<>> THEN "failed" ELSE "fetched"]
    BY <1>2 DEF FetchJson
  <2>2. /\ thread'[t].doc = doc /\ thread'[t].rows = thread[t].rows
        /\ thread'[t].at = IF doc = <<>> THEN "failed" ELSE "fetched"
        /\ \A u \in Threads \ {t} : thread'[u] = thread[u]
    BY <2>1 DEF Shape
  <2>3. InHand(thread'[t])
    BY <1>1, <2>2 DEF InHand
  <2> QED BY <1>2, <2>2, <2>3, StepOfOne DEF FetchJson
<1>3. CASE Normalise(t)
  <2>1. /\ thread[t].at = "fetched" /\ thread'[t].doc = thread[t].doc
        /\ \/ thread'[t].at = "failed" /\ thread'[t].rows = thread[t].rows
           \/ thread'[t].at = "normalised" /\ thread'[t].rows = Normalised(thread[t].doc)
        /\ \A u \in Threads \ {t} : thread'[u] = thread[u]
    BY <1>3 DEF Normalise, Become, Shape
  <2>2. Clean(Normalised(thread[t].doc)) /\ thread[t].doc \in Documents
    BY <1>1, <2>1, NormalisedIs DEF InHand
  <2>3. InHand(thread'[t])
    BY <1>1, <2>1, <2>2 DEF InHand
  <2> QED BY <1>3, <2>1, <2>3, StepOfOne DEF Normalise
<1>4. CASE Validate(t)
  <2>1. /\ thread'[t].rows = thread[t].rows
        /\ thread'[t].at = IF Valid(thread[t].rows) THEN "valid" ELSE "failed"
        /\ \A u \in Threads \ {t} : thread'[u] = thread[u]
    BY <1>4 DEF Validate, Shape
  <2>2. InHand(thread'[t])
    BY <1>1, <2>1 DEF InHand
  <2> QED BY <1>4, <2>1, <2>2, StepOfOne DEF Validate
<1>5. CASE WriteTemp(t)
  <2>1. /\ thread[t].at = "valid" /\ thread'[t].rows = thread[t].rows
        /\ thread'[t].at \in {"written", "failed"}
        /\ \A u \in Threads \ {t} : thread'[u] = thread[u]
    BY <1>5 DEF WriteTemp, Become, Shape
  <2>2. InHand(thread'[t])
    BY <1>1, <2>1 DEF InHand
  <2> QED BY <1>5, <2>1, <2>2, StepOfOne DEF WriteTemp
<1>6. CASE Finish(t)
  <2>1. thread'[t] = Idle /\ \A u \in Threads \ {t} : thread'[u] = thread[u]
    BY <1>6 DEF Finish, Shape
  <2> QED BY <1>6, <2>1, IdleInHand, StepOfOne DEF Finish
<1> QED BY <1>2, <1>3, <1>4, <1>5, <1>6

\* Only valid rows replace the file; a hand may leave anything in it.
LEMMA FileSound ==
  ASSUME Shape, SoundInv, EditByHand \/ \E t \in Threads : Replace(t)
  PROVE  SoundInv'
<1>1. CASE EditByHand
  <2>1. PICK doc \in Documents, whole \in BOOLEAN :
          overlay' = [whole |-> whole, rows |-> Normalised(doc), by |-> "hand",
                      version |-> overlay.version + 1]
    BY <1>1 DEF EditByHand
  <2>2. Clean(overlay'.rows) /\ OverlaySound'
    BY <2>1, NormalisedIs DEF OverlaySound
  <2> QED BY <1>1, <2>2 DEF EditByHand, SoundInv, CachesKept
<1>2. ASSUME NEW t \in Threads, Replace(t) PROVE SoundInv'
  <2>1. InHand(thread[t])
    BY DEF SoundInv
  <2>2. /\ thread[t].at = "written" /\ active' = active
        /\ overlay' = [whole |-> TRUE, rows |-> thread[t].rows, by |-> "refresh",
                       version |-> overlay.version + 1]
    BY <1>2 DEF Replace
  <2>3. Clean(overlay'.rows) /\ OverlaySound'
    BY <2>1, <2>2 DEF InHand, OverlaySound
  <2>4. /\ thread'[t].at \in {"done", "reset"} /\ thread'[t].rows = NoRows
        /\ \A u \in Threads \ {t} : thread'[u] = thread[u]
    <3> DEFINE step == IF thread[t].of = "command" THEN "done" ELSE "reset"
               n == overlay.version + 1
               mine == [thread[t] EXCEPT !.at = step, !.rows = NoRows, !.got.version = n]
    <3>1. thread' = [thread EXCEPT ![t].at = step, ![t].rows = NoRows, ![t].got.version = n]
      BY <1>2 DEF Replace
    <3>2. thread'[t] = mine /\ \A u \in Threads \ {t} : thread'[u] = thread[u]
      BY <3>1 DEF Shape
    <3>3. mine.at = step /\ mine.rows = NoRows
      BY DEF Shape
    <3> QED BY <3>2, <3>3
  <2>5. Clean(NoRows)
    BY DEF Clean, NoRows, Spellings
  <2>6. InHand(thread'[t])
    BY <2>4, <2>5 DEF InHand
  <2>7. \A u \in Threads : InHand(thread'[u])
    BY <2>4, <2>6 DEF SoundInv
  <2> QED BY <2>2, <2>3, <2>7 DEF SoundInv, CachesKept
<1> QED BY <1>1, <1>2

\* A cache dropped, or a process started again, has nothing to keep.
LEMMA DropSound ==
  ASSUME Shape, SoundInv,
         \/ \E t \in Threads : Reset(t)
         \/ \E of \in Workers \cup {"command"} : Restart(of)
  PROVE  SoundInv'
<1>1. ASSUME NEW t \in Threads, Reset(t) PROVE SoundInv'
  <2>1. /\ thread'[t].rows = thread[t].rows /\ thread'[t].at = "done"
        /\ \A u \in Threads \ {t} : thread'[u] = thread[u]
        /\ active' = [active EXCEPT ![thread[t].of] = Nothing] /\ overlay' = overlay
    BY <1>1 DEF Reset, Become, Shape
  <2>2. InHand(thread'[t])
    BY <2>1 DEF InHand, SoundInv
  <2>3. CachesKept'
    BY <2>1 DEF CachesKept, SoundInv, Shape
  <2>4. \A u \in Threads : InHand(thread'[u])
    BY <2>1, <2>2 DEF SoundInv
  <2> QED BY <2>1, <2>3, <2>4 DEF SoundInv, OverlaySound
<1>2. ASSUME NEW of \in Workers \cup {"command"}, Restart(of) PROVE SoundInv'
  <2>1. /\ \A u \in Threads : thread'[u] = Idle \/ thread'[u] = thread[u]
        /\ overlay' = overlay
        /\ \A w \in Workers : active'[w] = Nothing \/ active'[w] = active[w]
    BY <1>2 DEF Restart, Shape
  <2>2. CachesKept'
    BY <2>1 DEF CachesKept, SoundInv
  <2>3. \A u \in Threads : InHand(thread'[u])
    BY <2>1, IdleInHand DEF SoundInv
  <2> QED BY <2>1, <2>2, <2>3 DEF SoundInv, OverlaySound
<1> QED BY <1>1, <1>2
\* No look-up loses a curated model, no upstream order costs the served key its
\* row, no refresh leaves the file half written (providers/catalogue.py:267,
\* providers/refresh.py:287, 536).
THEOREM CatalogueAlwaysSound == CatalogueSpec => []CatalogueSound
<1>1. Shape /\ SoundInv /\ [CatalogueNext]_catalogueVars => SoundInv'
  <2>1. SoundInv /\ UNCHANGED catalogueVars => SoundInv'
    BY DEF SoundInv, CachesKept, OverlaySound, catalogueVars
  <2> QED BY <2>1, LookUpSound, PrepareSound, FileSound, DropSound DEF CatalogueNext
<1>2. SoundInv => CatalogueSound
  <2> SUFFICES ASSUME SoundInv PROVE CatalogueSound
    OBVIOUS
  <2>1. BaselineKept
    BY DEF SoundInv, InHand, BaselineKept, Kept
  <2>2. OwnIdWins
    <3> SUFFICES ASSUME NEW t \in Threads, thread[t].at = "normalised"
                 PROVE  \A i \in 1..Len(thread[t].doc) :
                          LET e == thread[t].doc[i]
                          IN e.id = Served => thread[t].rows[e.slug] = Coerced(e.row)
      BY DEF OwnIdWins
    <3>1. thread[t].doc \in Documents /\ thread[t].rows = Normalised(thread[t].doc)
      BY DEF SoundInv, InHand
    <3> QED BY <3>1, NormalisedIs
  <2> QED BY <2>1, <2>2 DEF SoundInv, CatalogueSound
<1>3. CatalogueInv => Shape
  BY DEF CatalogueInv
<1> QED BY <1>1, <1>2, <1>3, CatalogueInvariant, SoundStarts, PTL DEF CatalogueSpec

-----------------------------------------------------------------------------
(* The embedder: one model in memory, and none lost under an encode.       *)

\* The encodes that hold a reference to a model.
Busy == {e \in Encoders : encoder[e].at \in {"encode", "vectors", "raised"}}

EmbedderTypes ==
  /\ boot \in {"starting", "up", "refused"}
  /\ loadLock \in {"free", "boot"} \cup Encoders
  /\ model \in Nat /\ loads \in Nat /\ inFlight \in Nat
  /\ encoder \in [Encoders -> [at : {"rest", "enter", "encode", "vectors", "raised"}, on : Nat]]

\* The inductive invariant: only a booted process encodes, who loads is not
\* encoding, and the count is the number of encodes that hold the model.
EmbedderInv ==
  /\ EmbedderTypes
  /\ boot # "up" => loadLock \in {"free", "boot"} /\ \A e \in Encoders : encoder[e].at = "rest"
  /\ loadLock = "boot" => boot = "starting" /\ warm
  /\ loadLock \in Encoders => encoder[loadLock].at = "enter"
  /\ inFlight = Cardinality(Busy)
  /\ Busy # {} => model # 0
  /\ OneModel

\* Raising and dropping the count by one follows the set it counts.
LEMMA CountFollows ==
  ASSUME NEW S \in SUBSET Encoders, NEW e \in Encoders
  PROVE  /\ IsFiniteSet(S) /\ Cardinality(S) \in Nat /\ (Cardinality(S) = 0 <=> S = {})
         /\ e \notin S => Cardinality(S \cup {e}) = Cardinality(S) + 1
         /\ e \in S => Cardinality(S \ {e}) = Cardinality(S) - 1 /\ Cardinality(S) # 0
<1>1. IsFiniteSet(S)
  BY FS_Subset, EmbedderAssumption
<1>2. Cardinality(S) \in Nat /\ (Cardinality(S) = 0 <=> S = {})
  BY <1>1, FS_CardinalityType, FS_EmptySet
<1>3. e \notin S => Cardinality(S \cup {e}) = Cardinality(S) + 1
  BY <1>1, FS_AddElement
<1>4. e \in S => Cardinality(S \ {e}) = Cardinality(S) - 1
  BY <1>1, FS_RemoveElement
<1> QED BY <1>1, <1>2, <1>3, <1>4

\* A process starts with no model and no encode.
LEMMA EmbedderStarts == EmbedderInit => EmbedderInv
<1> SUFFICES ASSUME EmbedderInit PROVE EmbedderInv
  OBVIOUS
<1> USE DEF EmbedderInit, Resting
<1>1. Busy = {}
  BY DEF Busy
<1>2. inFlight = Cardinality(Busy)
  BY <1>1, FS_EmptySet
<1>3. EmbedderTypes
  BY DEF EmbedderTypes
<1>4. OneModel
  BY DEF OneModel
<1> QED BY <1>1, <1>2, <1>3, <1>4, EmbedderAssumption DEF EmbedderInv

\* The boot's load runs before any encode.
LEMMA WarmUpKeeps == EmbedderInv /\ WarmUp => EmbedderInv'
<1> SUFFICES ASSUME EmbedderInv, WarmUp PROVE EmbedderInv'
  OBVIOUS
<1> USE DEF EmbedderInv, EmbedderTypes, WarmUp
<1>1. Busy = {} /\ Busy' = {}
  BY DEF Busy
<1>2. (inFlight = Cardinality(Busy))'
  BY <1>1
<1>3. EmbedderTypes'
  BY DEF BeginLoad, Loads
<1>4. OneModel'
  BY EmbedderAssumption DEF OneModel, BeginLoad, Loads
<1> QED BY <1>1, <1>2, <1>3, <1>4, EmbedderAssumption DEF BeginLoad, Loads

\* A call arrives, begins to load, or fails to: no reference is taken.
LEMMA ArriveKeeps ==
  ASSUME NEW e \in Encoders, EmbedderInv, EmbedTexts(e) \/ EnterLoad(e) \/ LoadFails(e)
  PROVE  EmbedderInv'
<1> USE DEF EmbedderInv, EmbedderTypes, EmbedTexts, EnterLoad, LoadFails, BeginLoad, Resting
<1>1. encoder[e].at \in {"rest", "enter"} /\ Busy' = Busy
  BY DEF Busy
<1>2. (inFlight = Cardinality(Busy))'
  BY <1>1
<1>3. EmbedderTypes'
  OBVIOUS
<1>4. OneModel'
  BY <1>1, EmbedderAssumption DEF OneModel, Busy
<1> QED BY <1>1, <1>2, <1>3, <1>4, EmbedderAssumption

\* An encode takes its reference: to the resident model, or to the one it has
\* just loaded while nobody held any.
LEMMA EnterKeeps ==
  ASSUME NEW e \in Encoders, EmbedderInv, Enter(e) PROVE EmbedderInv'
<1> USE DEF EmbedderInv, EmbedderTypes, Enter, Loads
<1>1. encoder[e].at = "enter" /\ boot = "up" /\ loadLock' = "free"
  BY EmbedderAssumption
<1>2. model' \in Nat \ {0} /\ (Busy # {} => model' = model)
  BY EmbedderAssumption DEF OneModel
<1>3. e \notin Busy /\ Busy' = Busy \cup {e}
  BY <1>1, <1>2 DEF Busy
<1>4. (inFlight = Cardinality(Busy))'
  <2>1. Busy \in SUBSET Encoders
    BY DEF Busy
  <2> QED BY <1>3, <2>1, CountFollows
<1>5. EmbedderTypes'
  BY <1>1, <1>2
<1>6. OneModel'
  <2>1. ASSUME NEW d \in Encoders, encoder'[d].at \in {"encode", "vectors", "raised"}
        PROVE  encoder'[d].on = model'
    <3>1. CASE d = e
      BY <3>1, <1>2
    <3>2. CASE d # e
      BY <3>2, <2>1, <1>2 DEF OneModel, Busy
    <3> QED BY <3>1, <3>2
  <2> QED BY <2>1, <1>1 DEF OneModel
<1> QED BY <1>1, <1>2, <1>3, <1>4, <1>5, <1>6, EmbedderAssumption

\* An encode that runs or raises holds on to its model.
LEMMA EncodeKeeps ==
  ASSUME NEW e \in Encoders, EmbedderInv, Encode(e) PROVE EmbedderInv'
<1> USE DEF EmbedderInv, EmbedderTypes, Encode
<1>1. Busy' = Busy
  BY DEF Busy
<1>2. (inFlight = Cardinality(Busy))'
  BY <1>1
<1>3. EmbedderTypes'
  OBVIOUS
<1>4. OneModel'
  BY DEF OneModel
<1> QED BY <1>1, <1>2, <1>3, <1>4, EmbedderAssumption

\* An encode that ends gives its reference back.
LEMMA LeaveKeeps ==
  ASSUME NEW e \in Encoders, EmbedderInv, LeaveEncode(e) PROVE EmbedderInv'
<1> USE DEF EmbedderInv, EmbedderTypes, LeaveEncode, Resting
<1>1. e \in Busy /\ Busy' = Busy \ {e}
  BY DEF Busy
<1>2. (inFlight = Cardinality(Busy))' /\ inFlight' \in Nat
  <2>1. Busy \in SUBSET Encoders
    BY DEF Busy
  <2>2. Cardinality(Busy) \in Nat /\ Cardinality(Busy \ {e}) = Cardinality(Busy) - 1 /\ Cardinality(Busy) # 0
    BY <1>1, <2>1, CountFollows
  <2>3. inFlight' = inFlight - 1 /\ inFlight = Cardinality(Busy)
    OBVIOUS
  <2> HIDE DEF EmbedderInv, EmbedderTypes, LeaveEncode
  <2> QED BY <1>1, <2>2, <2>3
<1>3. EmbedderTypes'
  BY <1>2
<1>4. OneModel'
  BY DEF OneModel
<1> QED BY <1>1, <1>2, <1>3, <1>4, EmbedderAssumption

\* The model goes only when no encode holds it.
LEMMA UnloadKeeps == EmbedderInv /\ MaybeUnload => EmbedderInv'
<1> SUFFICES ASSUME EmbedderInv, MaybeUnload PROVE EmbedderInv'
  OBVIOUS
<1> USE DEF EmbedderInv, EmbedderTypes, MaybeUnload
<1>1. Busy = {} /\ Busy' = {}
  <2>1. IsFiniteSet(Busy)
    BY FS_Subset, EmbedderAssumption DEF Busy
  <2>2. Busy = {}
    BY <2>1, FS_EmptySet
  <2> QED BY <2>2 DEF Busy
<1>2. (inFlight = Cardinality(Busy))'
  BY <1>1
<1>3. OneModel'
  BY <1>1 DEF OneModel, Busy
<1> QED BY <1>1, <1>2, <1>3

\* Time, and steps that leave the embedder alone.
LEMMA RestKeeps == EmbedderInv /\ (Tick \/ UNCHANGED embedderVars) => EmbedderInv'
  BY DEF EmbedderInv, EmbedderTypes, OneModel, Busy, Tick, embedderVars

\* The inductive invariant holds throughout (providers/local.py:278).
THEOREM EmbedderInvariant == EmbedderSpec => []EmbedderInv
<1>1. EmbedderInv /\ [EmbedderNext]_embedderVars => EmbedderInv'
  BY WarmUpKeeps, ArriveKeeps, EnterKeeps, EncodeKeeps, LeaveKeeps, UnloadKeeps, RestKeeps
     DEF EmbedderNext, EncoderStep
<1> QED BY <1>1, EmbedderStarts, PTL DEF EmbedderSpec

\* However many threads embed beside boot and unload, one model at most is in
\* memory, and it stays as long as an encode runs on it (providers/local.py:303).
THEOREM EmbedderOneModel == EmbedderSpec => []OneModel
<1>1. EmbedderInv => OneModel
  BY DEF EmbedderInv
<1> QED BY <1>1, EmbedderInvariant, PTL

-----------------------------------------------------------------------------
(* The gates before a handler: least elements, for the first gate that     *)
(* refuses.                                                                *)

\* A set of natural numbers that is not empty has a least element, and Min is it.
LEMMA LeastIs ==
  ASSUME NEW S \in SUBSET Nat, S # {}
  PROVE  Min(S) \in S /\ \A x \in S : Min(S) <= x
<1> DEFINE R == OpToRel(<, Nat)
<1>1. IsWellFoundedOn(R, Nat)
  BY NatLessThanWellFounded, Zenon
<1>2. \A x, y \in Nat : x < y => <<x, y>> \in R
  BY DEF OpToRel
<1> HIDE DEF R
<1>3. PICK x \in S : \A y \in S : ~(<<y, x>> \in R)
  BY <1>1, WFMin, Zenon
<1>4. ASSUME NEW y \in S PROVE x <= y
  <2>1. x \in Nat /\ y \in Nat /\ ~(y < x)
    BY <1>2, <1>3
  <2> QED BY <2>1
<1> QED BY <1>3, <1>4 DEF Min

-----------------------------------------------------------------------------
(* Deques of stamps.                                                       *)

Stamps == Seq(Nat)

\* A window lasts some time.
LEMMA TicksPositive == Ticks \in Nat /\ Ticks > 0
<1>1. Window \in Nat \ {0}
  BY RequestsAssumption, Zenon
<1> QED BY <1>1 DEF Ticks

\* Where what is left of a deque begins.
LEMMA OldestIs ==
  ASSUME NEW s \in Stamps, NEW t \in Int
  PROVE  /\ Oldest(s, t) \in 1..Len(s) + 1
         /\ \A j \in 1..Oldest(s, t) - 1 : s[j] <= t - Ticks
         /\ Oldest(s, t) <= Len(s) => s[Oldest(s, t)] > t - Ticks
<1> DEFINE S == {i \in 1..Len(s) + 1 : i = Len(s) + 1 \/ s[i] > t - Ticks}
           m == Min(S)
<1>1. Len(s) \in Nat /\ \A i \in 1..Len(s) : s[i] \in Nat
  BY DEF Stamps
<1>2. S \in SUBSET Nat /\ Len(s) + 1 \in S
  BY <1>1
<1>3. m \in S /\ \A x \in S : m <= x
  BY <1>2, LeastIs
<1> HIDE DEF m
<1>4. Ticks \in Int
  BY TicksPositive
<1>5. m \in 1..Len(s) + 1 /\ (\A j \in 1..m - 1 : s[j] <= t - Ticks) /\ (m <= Len(s) => s[m] > t - Ticks)
  <2>1. m \in 1..Len(s) + 1 /\ (m <= Len(s) => s[m] > t - Ticks)
    BY <1>1, <1>3
  <2>2. ASSUME NEW j \in 1..m - 1 PROVE s[j] <= t - Ticks
    <3>1. j \in 1..Len(s) /\ j \notin S
      BY <1>1, <1>3, <2>1
    <3> QED BY <1>1, <1>4, <3>1
  <2> QED BY <2>1, <2>2
<1> QED BY <1>5 DEF Oldest

\* The i-th stamp left at t.
LEMMA LiveIs ==
  ASSUME NEW s \in Stamps, NEW t \in Int
  PROVE  /\ Live(s, t) \in Stamps
         /\ Len(Live(s, t)) = Len(s) - Oldest(s, t) + 1
         /\ \A i \in 1..Len(Live(s, t)) : /\ Live(s, t)[i] = s[i + Oldest(s, t) - 1]
                                          /\ i + Oldest(s, t) - 1 \in 1..Len(s)
         /\ Live(s, t) # <<>> => Live(s, t)[1] > t - Ticks
<1> DEFINE o == Oldest(s, t)
<1>1. /\ o \in 1..Len(s) + 1 /\ Len(s) \in Nat
      /\ o <= Len(s) => s[o] > t - Ticks
  BY OldestIs DEF Stamps
<1> HIDE DEF o
<1>2. SubSeq(s, o, Len(s)) \in Seq(Nat) /\ Len(SubSeq(s, o, Len(s))) = Len(s) - o + 1
  BY <1>1 DEF Stamps
<1>3. \A i \in 1..Len(s) - o + 1 : SubSeq(s, o, Len(s))[i] = s[i + o - 1] /\ i + o - 1 \in 1..Len(s)
  BY <1>1 DEF Stamps
<1>4. SubSeq(s, o, Len(s)) # <<>> => o <= Len(s) /\ SubSeq(s, o, Len(s))[1] = s[o]
  BY <1>1, <1>2, <1>3
<1> QED BY <1>1, <1>2, <1>3, <1>4 DEF Live, Stamps, o

\* The beginning is determined by what it separates.
LEMMA OldestUnique ==
  ASSUME NEW s \in Stamps, NEW t \in Int, NEW i \in 1..Len(s) + 1,
         \A j \in 1..i - 1 : s[j] <= t - Ticks, i <= Len(s) => s[i] > t - Ticks
  PROVE  Oldest(s, t) = i
<1>1. Ticks \in Int /\ Len(s) \in Nat /\ \A j \in 1..Len(s) : s[j] \in Nat
  BY TicksPositive DEF Stamps
<1> DEFINE o == Oldest(s, t)
<1>2. /\ o \in 1..Len(s) + 1 /\ (o <= Len(s) => s[o] > t - Ticks)
      /\ \A j \in 1..o - 1 : s[j] <= t - Ticks
  BY OldestIs
<1> HIDE DEF o
<1>3. ~(o < i)
  <2> SUFFICES ASSUME o < i PROVE FALSE
    OBVIOUS
  <2>1. o \in 1..i - 1 /\ o \in 1..Len(s)
    BY <1>1, <1>2
  <2>2. s[o] <= t - Ticks /\ s[o] > t - Ticks
    BY <1>2, <2>1
  <2> QED BY <1>1, <2>1, <2>2
<1>4. ~(i < o)
  <2> SUFFICES ASSUME i < o PROVE FALSE
    OBVIOUS
  <2>1. i \in 1..o - 1 /\ i \in 1..Len(s)
    BY <1>1, <1>2
  <2>2. s[i] <= t - Ticks /\ s[i] > t - Ticks
    BY <1>2, <2>1
  <2> QED BY <1>1, <2>1, <2>2
<1> QED BY <1>1, <1>2, <1>3, <1>4 DEF o

\* Stamps are equal entry by entry.
LEMMA SameStamps ==
  ASSUME NEW a \in Stamps, NEW b \in Stamps, Len(a) = Len(b), \A i \in 1..Len(a) : a[i] = b[i]
  PROVE  a = b
  BY DEF Stamps

\* Popping as time passes is popping once.
LEMMA LiveLater ==
  ASSUME NEW s \in Stamps, NEW t \in Int, NEW u \in Int, t <= u
  PROVE  Live(Live(s, t), u) = Live(s, u)
<1> DEFINE a == Live(s, t)
           o == Oldest(s, t)
           p == Oldest(s, u)
           i == p - o + 1
<1>1. /\ a \in Stamps /\ Len(a) = Len(s) - o + 1 /\ Len(s) \in Nat
      /\ \A j \in 1..Len(a) : a[j] = s[j + o - 1]
      /\ Ticks \in Int
  BY LiveIs, TicksPositive DEF Stamps
<1>2. /\ o \in 1..Len(s) + 1 /\ p \in 1..Len(s) + 1
      /\ \A j \in 1..o - 1 : s[j] <= t - Ticks
      /\ \A j \in 1..p - 1 : s[j] <= u - Ticks
      /\ p <= Len(s) => s[p] > u - Ticks
  BY OldestIs
<1>3. \A j \in 1..Len(s) : s[j] \in Nat
  BY DEF Stamps
<1> HIDE DEF a, o, p
<1>4. o <= p
  BY <1>1, <1>2, <1>3
<1>5. i \in 1..Len(a) + 1 /\ (\A j \in 1..i - 1 : a[j] <= u - Ticks) /\ (i <= Len(a) => a[i] > u - Ticks)
  <2>1. i \in 1..Len(a) + 1
    BY <1>1, <1>2, <1>4
  <2>2. ASSUME NEW j \in 1..i - 1 PROVE a[j] <= u - Ticks
    <3>1. j \in 1..Len(a) /\ j + o - 1 \in 1..p - 1
      BY <1>1, <1>2, <1>4
    <3> QED BY <1>1, <1>2, <3>1
  <2>3. ASSUME i <= Len(a) PROVE a[i] > u - Ticks
    <3>1. i \in 1..Len(a) /\ i + o - 1 = p /\ p <= Len(s)
      BY <1>1, <1>2, <1>4, <2>3
    <3> QED BY <1>1, <1>2, <3>1
  <2> QED BY <2>1, <2>2, <2>3
<1> HIDE DEF i
<1>6. Oldest(a, u) = i
  BY <1>1, <1>5, OldestUnique
<1>7. /\ Live(a, u) \in Stamps /\ Len(Live(a, u)) = Len(a) - i + 1
      /\ \A j \in 1..Len(Live(a, u)) : Live(a, u)[j] = a[j + i - 1] /\ j + i - 1 \in 1..Len(a)
  BY <1>1, <1>6, LiveIs
<1>8. /\ Live(s, u) \in Stamps /\ Len(Live(s, u)) = Len(s) - p + 1
      /\ \A j \in 1..Len(Live(s, u)) : Live(s, u)[j] = s[j + p - 1] /\ j + p - 1 \in 1..Len(s)
  BY LiveIs DEF p
<1>9. i = p - o + 1
  BY DEF i
<1>10. Len(Live(a, u)) = Len(Live(s, u))
  BY <1>1, <1>2, <1>7, <1>8, <1>9
<1>11. ASSUME NEW j \in 1..Len(Live(a, u)) PROVE Live(a, u)[j] = Live(s, u)[j]
  <2>1. (j + i - 1) + o - 1 = j + p - 1
    BY <1>2, <1>7, <1>9
  <2> QED BY <1>1, <1>7, <1>8, <1>10, <2>1
<1> QED BY <1>7, <1>8, <1>10, <1>11, SameStamps DEF a

\* A stamp of the moment is left, whatever goes before it.
LEMMA LiveAppend ==
  ASSUME NEW s \in Stamps, NEW t \in Nat
  PROVE  /\ Append(s, t) \in Stamps
         /\ Live(Append(s, t), t) = Append(Live(s, t), t)
<1> DEFINE a == Append(s, t)
           o == Oldest(s, t)
           l == Live(s, t)
           b == Append(l, t)
<1>1. /\ a \in Stamps /\ Len(a) = Len(s) + 1 /\ Len(s) \in Nat /\ a[Len(s) + 1] = t
      /\ \A j \in 1..Len(s) : a[j] = s[j]
  BY DEF Stamps
<1>2. /\ o \in 1..Len(s) + 1 /\ (o <= Len(s) => s[o] > t - Ticks)
      /\ \A j \in 1..o - 1 : s[j] <= t - Ticks
  BY OldestIs
<1>3. /\ l \in Stamps /\ Len(l) = Len(s) - o + 1
      /\ \A i \in 1..Len(l) : l[i] = s[i + o - 1] /\ i + o - 1 \in 1..Len(s)
  BY LiveIs
<1> HIDE DEF l
<1>4. /\ b \in Stamps /\ Len(b) = Len(l) + 1 /\ Len(l) \in Nat /\ b[Len(l) + 1] = t
      /\ \A j \in 1..Len(l) : b[j] = l[j]
  BY <1>3 DEF Stamps
<1> HIDE DEF a, b, o
<1>5. o \in 1..Len(a) + 1 /\ (\A j \in 1..o - 1 : a[j] <= t - Ticks) /\ (o <= Len(a) => a[o] > t - Ticks)
  <2>1. o \in 1..Len(a) + 1 /\ t > t - Ticks
    BY <1>1, <1>2, TicksPositive
  <2>2. ASSUME NEW j \in 1..o - 1 PROVE a[j] <= t - Ticks
    <3>1. j \in 1..Len(s)
      BY <1>1, <1>2
    <3> QED BY <1>1, <1>2, <3>1
  <2>3. a[o] > t - Ticks
    <3>1. CASE o = Len(s) + 1
      BY <1>1, <2>1, <3>1
    <3>2. CASE o \in 1..Len(s)
      BY <1>1, <1>2, <3>2
    <3> QED BY <1>1, <1>2, <3>1, <3>2
  <2> QED BY <2>1, <2>2, <2>3
<1>6. Oldest(a, t) = o
  BY <1>1, <1>5, OldestUnique
<1>7. /\ Live(a, t) \in Stamps /\ Len(Live(a, t)) = Len(a) - o + 1
      /\ \A i \in 1..Len(Live(a, t)) : Live(a, t)[i] = a[i + o - 1] /\ i + o - 1 \in 1..Len(a)
  <2>1. a \in Stamps /\ t \in Int
    BY <1>1
  <2>2. /\ Live(a, t) \in Stamps /\ Len(Live(a, t)) = Len(a) - Oldest(a, t) + 1
        /\ \A i \in 1..Len(Live(a, t)) : /\ Live(a, t)[i] = a[i + Oldest(a, t) - 1]
                                         /\ i + Oldest(a, t) - 1 \in 1..Len(a)
    BY <2>1, LiveIs, Zenon
  <2> QED BY <1>6, <2>2
<1>8. Len(Live(a, t)) = Len(b)
  BY <1>1, <1>2, <1>3, <1>4, <1>7
<1>9. ASSUME NEW i \in 1..Len(Live(a, t)) PROVE Live(a, t)[i] = b[i]
  <2>1. CASE i = Len(l) + 1
    <3>1. i + o - 1 = Len(s) + 1
      BY <1>1, <1>2, <1>3, <2>1
    <3> QED BY <1>1, <1>4, <1>7, <2>1, <3>1
  <2>2. CASE i \in 1..Len(l)
    <3>1. l[i] = s[i + o - 1] /\ i + o - 1 \in 1..Len(s)
      BY <1>3, <2>2
    <3> QED BY <1>1, <1>4, <1>7, <2>2, <3>1
  <2> QED BY <1>4, <1>7, <1>8, <2>1, <2>2
<1> QED BY <1>1, <1>4, <1>7, <1>8, <1>9, SameStamps DEF a, b, l

\* A deque popped at t keeps what is left of it at t.
LEMMA LiveAgain ==
  ASSUME NEW s \in Stamps, NEW t \in Int
  PROVE  Live(Live(s, t), t) = Live(s, t)
  BY LiveLater

\* There is nothing in an empty deque.
LEMMA LiveEmpty == \A t \in Int : <<>> \in Stamps /\ Live(<<>>, t) = <<>>
<1> SUFFICES ASSUME NEW t \in Int PROVE <<>> \in Stamps /\ Live(<<>>, t) = <<>>
  OBVIOUS
<1>1. <<>> \in Stamps /\ Len(<<>>) = 0
  BY DEF Stamps
<1>2. Live(<<>>, t) \in Stamps /\ Len(Live(<<>>, t)) = 0
  <2>1. Oldest(<<>>, t) = 1
    BY <1>1, OldestIs
  <2> QED BY <1>1, <2>1, LiveIs
<1> QED BY <1>1, <1>2 DEF Stamps

\* A deque whose stamps are in order, none later than t.
InOrder(s, t) ==
  /\ \A i \in 1..Len(s) : s[i] <= t
  /\ \A i, j \in 1..Len(s) : i <= j => s[i] <= s[j]

\* Popping and stamping keep the order.
LEMMA OrderKept ==
  ASSUME NEW s \in Stamps, NEW t \in Nat, NEW u \in Nat, InOrder(s, t), t <= u
  PROVE  /\ InOrder(s, u) /\ InOrder(Live(s, u), u)
         /\ InOrder(Append(s, u), u)
<1>1. Len(s) \in Nat /\ \A i \in 1..Len(s) : s[i] \in Nat
  BY DEF Stamps
<1>2. InOrder(s, u)
  <2>1. \A i \in 1..Len(s) : s[i] <= u
    BY <1>1 DEF InOrder
  <2> QED BY <2>1 DEF InOrder
<1>3. InOrder(Live(s, u), u)
  <2> DEFINE l == Live(s, u)
             o == Oldest(s, u)
  <2>1. /\ l \in Stamps /\ Len(l) = Len(s) - o + 1 /\ o \in 1..Len(s) + 1
        /\ \A i \in 1..Len(l) : l[i] = s[i + o - 1] /\ i + o - 1 \in 1..Len(s)
    <3>1. u \in Int
      OBVIOUS
    <3> QED BY <3>1, LiveIs, OldestIs, Zenon
  <2> HIDE DEF l, o
  <2>2. ASSUME NEW i \in 1..Len(l), NEW j \in 1..Len(l), i <= j PROVE l[i] <= l[j]
    <3>1. i + o - 1 <= j + o - 1
      BY <1>1, <2>1, <2>2
    <3> QED BY <1>2, <2>1, <3>1 DEF InOrder
  <2>3. \A i \in 1..Len(l) : l[i] <= u
    BY <1>2, <2>1 DEF InOrder
  <2> QED BY <2>2, <2>3 DEF InOrder, l
<1>4. InOrder(Append(s, u), u)
  <2> DEFINE a == Append(s, u)
  <2>1. /\ Len(a) = Len(s) + 1 /\ a[Len(s) + 1] = u /\ \A i \in 1..Len(s) : a[i] = s[i]
    BY DEF Stamps
  <2> HIDE DEF a
  <2>2. ASSUME NEW i \in 1..Len(a), NEW j \in 1..Len(a), i <= j PROVE a[i] <= a[j] /\ a[i] <= u
    <3>1. CASE j = Len(s) + 1
      BY <1>1, <1>2, <2>1, <2>2, <3>1 DEF InOrder
    <3>2. CASE j \in 1..Len(s)
      <4>1. i \in 1..Len(s)
        BY <1>1, <2>2, <3>2
      <4> QED BY <1>1, <1>2, <2>1, <2>2, <3>2, <4>1 DEF InOrder
    <3> QED BY <1>1, <2>1, <3>1, <3>2
  <2> QED BY <2>2 DEF InOrder, a
<1> QED BY <1>2, <1>3, <1>4

\* A cleanup deletes only keys that have nothing left.
LEMMA StaleGone ==
  ASSUME NEW s \in Stamps, NEW t \in Nat, InOrder(s, t),
         s = <<>> \/ Last(s) <= t - Ticks
  PROVE  Live(s, t) = <<>>
<1>1. Len(s) \in Nat /\ \A i \in 1..Len(s) : s[i] \in Nat
  BY DEF Stamps
<1>2. CASE s = <<>>
  BY <1>2, LiveEmpty
<1>3. CASE s # <<>>
  <2>1. Len(s) \in 1..Len(s) /\ s[Len(s)] <= t - Ticks
    BY <1>1, <1>3 DEF Last, Stamps
  <2>2. \A j \in 1..Len(s) : s[j] <= t - Ticks
    <3> TAKE j \in 1..Len(s)
    <3>1. s[j] <= s[Len(s)]
      BY <1>1, <2>1 DEF InOrder
    <3> QED BY <1>1, <2>1, <3>1, TicksPositive
  <2>3. Oldest(s, t) = Len(s) + 1
    BY <1>1, <2>2, OldestUnique
  <2>4. Live(s, t) \in Stamps /\ Len(Live(s, t)) = 0
    BY <1>1, <2>3, LiveIs
  <2> QED BY <2>4 DEF Stamps
<1> QED BY <1>2, <1>3

-----------------------------------------------------------------------------
(* The policy table and the cap on a body.                                 *)

\* Every entry of the table has a cap.
LEMMA RowsCapped == \A i \in 1..Len(RoutePolicies) : RoutePolicies[i].cap \in Nat
<1> DEFINE Rows == {SessionAndUserPolicies[i] : i \in 1..9} \cup {CorpusPolicies[i] : i \in 1..15}
<1>1. /\ Len(SessionAndUserPolicies) = 9
      /\ \A i \in 1..9 : SessionAndUserPolicies[i].cap \in Nat
  BY DEF SessionAndUserPolicies, P
<1>2. /\ Len(CorpusPolicies) = 15
      /\ \A i \in 1..15 : CorpusPolicies[i].cap \in Nat
  BY DEF CorpusPolicies, P
<1>3. \A p \in Rows : p.cap \in Nat
  BY <1>1, <1>2
<1>4. /\ \A i \in 1..9 : SessionAndUserPolicies[i] \in Rows
      /\ \A i \in 1..15 : CorpusPolicies[i] \in Rows
  OBVIOUS
<1> HIDE DEF Rows
<1>5. SessionAndUserPolicies \in Seq(Rows)
  <2>1. SessionAndUserPolicies = [i \in 1..9 |-> SessionAndUserPolicies[i]]
    BY DEF SessionAndUserPolicies
  <2> QED BY <1>4, <2>1
<1>6. CorpusPolicies \in Seq(Rows)
  <2>1. CorpusPolicies = [i \in 1..15 |-> CorpusPolicies[i]]
    BY DEF CorpusPolicies
  <2> QED BY <1>4, <2>1
<1>7. RoutePolicies \in Seq(Rows)
  BY <1>5, <1>6 DEF RoutePolicies
<1> QED BY <1>3, <1>7

\* Every route has a policy, with a cap.
LEMMA PolicyIs == \A path, method : ResolvePolicy(path, method).cap \in Nat
<1> SUFFICES ASSUME NEW path, NEW method PROVE ResolvePolicy(path, method).cap \in Nat
  OBVIOUS
<1>1. Hits(path, method) \subseteq 1..Len(RoutePolicies) /\ Hits(path, method) \in SUBSET Nat
  BY DEF Hits
<1>2. Hits(path, method) # {} => Min(Hits(path, method)) \in 1..Len(RoutePolicies)
  BY <1>1, LeastIs
<1>3. DefaultPolicy.cap \in Nat
  BY DEF DefaultPolicy, P
<1> QED BY <1>2, <1>3, RowsCapped DEF ResolvePolicy

\* No body is let through past a natural number of KiB.
LEMMA CapIs == Cap \in Nat
<1>1. Policy.cap \in Nat /\ Ceiling \in Nat
  BY PolicyIs, RequestsAssumption, Zenon DEF Policy
<1>2. {Policy.cap, Ceiling} \in SUBSET Nat /\ {Policy.cap, Ceiling} # {}
  BY <1>1
<1> QED BY <1>2, LeastIs DEF Cap

-----------------------------------------------------------------------------
(* The inductive invariant.                                                *)

\* A body as it streams in, and the statuses sent.
Statuses == {200, 400, 413, 429}
BodyInv ==
  /\ call \in Calls /\ over \in BOOLEAN
  /\ seen \in Nat /\ fed \in Nat /\ chunk \in Nat \ {0}
  /\ sent \in Seq(Statuses)
  /\ stage \in {"idle", "gate", "size", "application", "responded", "end"}
  /\ stage \in {"idle", "gate", "size"} => sent = <<>> /\ fed = 0
  /\ stage = "application" => sent = <<>>
  /\ stage = "responded" => Len(sent) <= 1 /\ (sent = <<>> => over)
  /\ stage = "end" => Len(sent) = 1
  /\ stage \in {"application", "responded"} => fed <= Cap

WindowTypes ==
  /\ now \in Nat
  /\ DOMAIN stamps = Windows /\ DOMAIN passed = Windows
  /\ DOMAIN refused = Windows /\ DOMAIN cleaned = Windows
  /\ \A w \in Windows : /\ stamps[w] \in [Keys -> Stamps] /\ passed[w] \in [Keys -> Stamps]
                        /\ refused[w] \in [Keys -> Int]

\* What is left of the deque of a key is what is left of the requests that passed,
\* never more than the limit; and a refused key's oldest is gone when it was told.
Exact(w, k) ==
  /\ InOrder(stamps[w][k], now)
  /\ Live(stamps[w][k], now) = Live(passed[w][k], now)
  /\ Len(Live(stamps[w][k], now)) <= LimitOf(w)
  /\ refused[w][k] # -1 =>
       /\ LimitOf(w) > 0
       /\ \/ Len(Live(stamps[w][k], now)) < LimitOf(w)
          \/ Live(stamps[w][k], now)[1] + Ticks <= refused[w][k]

RequestsInv == BodyInv /\ WindowTypes /\ \A w \in Windows, k \in Keys : Exact(w, k)

-----------------------------------------------------------------------------
(* Asking the windows.                                                     *)

\* Every window has a limit.
LEMMA LimitIs == \A w \in Windows : LimitOf(w) \in Nat
<1>1. /\ SessionLimit \in Nat /\ UserLimit \in Nat /\ \A c \in DOMAIN Limits : Limits[c] \in Nat
      /\ {"by session", "by user"} \cap DOMAIN Limits = {}
  BY RequestsAssumption, Zenon
<1> QED BY <1>1 DEF LimitOf, Windows

\* What is_allowed looks at is what is left of the deque, cleaned up or not.
LEMMA DequeIs ==
  ASSUME WindowTypes, NEW w \in Windows, NEW k \in Keys, InOrder(stamps[w][k], now)
  PROVE  /\ Deque(w, k) = Live(stamps[w][k], now)
         /\ Prune(w, now) \in [Keys -> Stamps]
         /\ Prune(w, now)[k] \in {stamps[w][k], <<>>}
         /\ Live(Prune(w, now)[k], now) = Live(stamps[w][k], now)
<1>1. stamps[w] \in [Keys -> Stamps] /\ now \in Nat /\ now \in Int /\ stamps[w][k] \in Stamps
  BY DEF WindowTypes
<1>2. Prune(w, now) = [j \in Keys |-> IF stamps[w][j] = <<>> \/ Last(stamps[w][j]) <= now - Ticks
                                      THEN <<>> ELSE stamps[w][j]]
  BY <1>1 DEF Prune
<1>3. <<>> \in Stamps /\ Live(<<>>, now) = <<>>
  BY <1>1, LiveEmpty
<1>4. Prune(w, now) \in [Keys -> Stamps] /\ Prune(w, now)[k] \in {stamps[w][k], <<>>}
  BY <1>1, <1>2, <1>3
<1>5. Live(Prune(w, now)[k], now) = Live(stamps[w][k], now)
  <2>1. CASE stamps[w][k] = <<>> \/ Last(stamps[w][k]) <= now - Ticks
    BY <1>1, <1>2, <1>3, <2>1, StaleGone
  <2>2. CASE ~(stamps[w][k] = <<>> \/ Last(stamps[w][k]) <= now - Ticks)
    BY <1>2, <2>2
  <2> QED BY <2>1, <2>2
<1> QED BY <1>4, <1>5 DEF Deque

\* What is_allowed does to the window it asks for a key, and leaves of the others.
Untouched(w) == /\ stamps'[w] = stamps[w] /\ passed'[w] = passed[w] /\ refused'[w] = refused[w]
Asked(w, k) ==
  /\ LimitOf(w) > 0
  /\ \E kept \in {stamps[w], Prune(w, now)} :
       stamps'[w] = [kept EXCEPT ![k] = IF Allowed(w, k) THEN Append(Deque(w, k), now) ELSE Deque(w, k)]
  /\ passed'[w] = IF Allowed(w, k) THEN [passed[w] EXCEPT ![k] = Append(@, now)] ELSE passed[w]
  /\ refused'[w] = [refused[w] EXCEPT ![k] = IF Allowed(w, k) THEN -1
                                             ELSE now + 2 * RetryAfter(w, k)]

\* A list of windows to ask, none of them disabled.
Guards(gates) ==
  /\ Len(gates) \in Nat
  /\ \A i \in 1..Len(gates) : /\ gates[i][1] \in Windows /\ gates[i][2] \in Keys
                              /\ LimitOf(gates[i][1]) > 0

\* Every window a request does not ask stays; one it asks is asked once.
LEMMA AskIs ==
  ASSUME WindowTypes, NEW gates, Guards(gates), Ask(gates)
  PROVE  /\ now' = now /\ DOMAIN stamps' = Windows /\ DOMAIN passed' = Windows
         /\ DOMAIN refused' = Windows /\ DOMAIN cleaned' = Windows
         /\ \A w \in Windows : Untouched(w) \/ \E k \in Keys : Asked(w, k)
<1> DEFINE stop == {i \in 1..Len(gates) : ~Allowed(gates[i][1], gates[i][2])}
           upTo == IF stop = {} THEN Len(gates) ELSE Min(stop)
           asked(w) == {i \in 1..upTo : gates[i][1] = w}
           key(w) == gates[Min(asked(w))][2]
           passes(w) == asked(w) # {} /\ Min(asked(w)) \notin stop
           cleans(w) == asked(w) # {} /\ now - cleaned[w] > Cleanup
           kept(w) == IF cleans(w) THEN Prune(w, now) ELSE stamps[w]
<1>1. /\ stamps' = [w \in DOMAIN stamps |->
           IF asked(w) = {} THEN stamps[w]
           ELSE [kept(w) EXCEPT ![key(w)] = IF passes(w) THEN Append(Deque(w, key(w)), now)
                                            ELSE Deque(w, key(w))]]
      /\ cleaned' = [w \in DOMAIN cleaned |-> IF cleans(w) THEN now ELSE cleaned[w]]
      /\ passed' = [w \in DOMAIN passed |->
           IF passes(w) THEN [passed[w] EXCEPT ![key(w)] = Append(@, now)] ELSE passed[w]]
      /\ refused' = [w \in DOMAIN refused |->
           IF asked(w) = {} THEN refused[w]
           ELSE [refused[w] EXCEPT ![key(w)] =
                   IF passes(w) THEN -1 ELSE now + 2 * RetryAfter(w, key(w))]]
      /\ now' = now
  BY Zenon DEF Ask
<1>2. Len(gates) \in Nat
  BY DEF Guards
<1>3. stop \in SUBSET Nat /\ stop \subseteq 1..Len(gates)
  BY <1>2
<1>4. upTo \in 0..Len(gates)
  <2> HIDE DEF stop
  <2>1. stop # {} => Min(stop) \in 1..Len(gates)
    BY <1>3, LeastIs, Zenon
  <2> QED BY <1>2, <2>1
<1> HIDE DEF stop, upTo
<1>5. ASSUME NEW w \in Windows, asked(w) # {}
      PROVE  /\ key(w) \in Keys /\ LimitOf(w) > 0
             /\ passes(w) <=> Allowed(w, key(w))
  <2>1. asked(w) \in SUBSET Nat
    BY <1>2, <1>4
  <2>2. PICK m \in asked(w) : m = Min(asked(w))
    BY <1>5, <2>1, LeastIs
  <2>3. m \in 1..Len(gates) /\ gates[m][1] = w
    BY <1>2, <1>4, <2>2
  <2>4. key(w) = gates[m][2] /\ (passes(w) <=> m \notin stop)
    BY <1>5, <2>2
  <2> HIDE DEF key, passes, asked
  <2>5. m \notin stop <=> Allowed(w, gates[m][2])
    BY <2>3 DEF stop
  <2> QED BY <2>3, <2>4, <2>5 DEF Guards
<1>6. ASSUME NEW w \in Windows, asked(w) = {} PROVE Untouched(w)
  BY <1>1, <1>6 DEF Untouched, WindowTypes
<1>7. ASSUME NEW w \in Windows, asked(w) # {} PROVE Asked(w, key(w))
  <2>1. kept(w) \in {stamps[w], Prune(w, now)}
    OBVIOUS
  <2> HIDE DEF kept, key, passes, asked, cleans
  <2> QED BY <1>1, <1>5, <1>7, <2>1, Zenon DEF Asked, WindowTypes
<1> HIDE DEF asked, key, passes, kept, cleans
<1>8. \A w \in Windows : Untouched(w) \/ \E k \in Keys : Asked(w, k)
  BY <1>5, <1>6, <1>7
<1> QED BY <1>1, <1>8 DEF WindowTypes

\* A window that is not asked, and keys it is not asked for, stay exact.
LEMMA AskKeeps ==
  ASSUME RequestsInv, NEW gates, Guards(gates), Ask(gates)
  PROVE  WindowTypes' /\ \A w \in Windows, k \in Keys : Exact(w, k)'
<1>1. /\ now' = now /\ DOMAIN stamps' = Windows /\ DOMAIN passed' = Windows
      /\ DOMAIN refused' = Windows /\ DOMAIN cleaned' = Windows
      /\ \A w \in Windows : Untouched(w) \/ \E k \in Keys : Asked(w, k)
      /\ WindowTypes /\ now \in Nat /\ now \in Int
  BY AskIs DEF RequestsInv, WindowTypes
<1>2. ASSUME NEW w \in Windows
      PROVE  /\ stamps'[w] \in [Keys -> Stamps] /\ passed'[w] \in [Keys -> Stamps]
             /\ refused'[w] \in [Keys -> Int]
             /\ \A k \in Keys : Exact(w, k)'
  <2>1. CASE Untouched(w)
    BY <1>1, <2>1 DEF Untouched, RequestsInv, WindowTypes, Exact
  <2>2. ASSUME NEW k \in Keys, Asked(w, k)
        PROVE  /\ stamps'[w] \in [Keys -> Stamps] /\ passed'[w] \in [Keys -> Stamps]
               /\ refused'[w] \in [Keys -> Int]
               /\ \A j \in Keys : Exact(w, j)'
    <3> DEFINE l == Live(stamps[w][k], now)
               ok == Len(l) < LimitOf(w)
               told == now + 2 * RetryAfter(w, k)
    <3>1. /\ stamps[w] \in [Keys -> Stamps] /\ passed[w] \in [Keys -> Stamps]
          /\ refused[w] \in [Keys -> Int] /\ LimitOf(w) \in Nat /\ LimitOf(w) > 0
          /\ \A j \in Keys : Exact(w, j)
      BY <1>1, <2>2, LimitIs DEF WindowTypes, RequestsInv, Asked
    <3>2. \A j \in Keys : InOrder(stamps[w][j], now) /\ stamps[w][j] \in Stamps /\ passed[w][j] \in Stamps
      BY <3>1 DEF Exact
    <3>3. Deque(w, k) = l /\ (Allowed(w, k) <=> ok)
      BY <1>1, <3>2, DequeIs DEF Allowed
    <3>4. l \in Stamps /\ Len(l) \in Nat /\ InOrder(l, now) /\ Live(l, now) = l
      BY <1>1, <3>2, LiveIs, OrderKept, LiveAgain DEF Stamps
    <3>5. /\ Append(l, now) \in Stamps /\ InOrder(Append(l, now), now)
          /\ Len(Append(l, now)) = Len(l) + 1 /\ Live(Append(l, now), now) = Append(l, now)
      BY <1>1, <3>4, OrderKept, LiveAppend DEF Stamps
    <3>6. /\ Append(passed[w][k], now) \in Stamps
          /\ Live(Append(passed[w][k], now), now) = Append(l, now)
      BY <1>1, <3>1, <3>2, LiveAppend DEF Exact
    <3>7. PICK kept \in {stamps[w], Prune(w, now)} :
            stamps'[w] = [kept EXCEPT ![k] = IF ok THEN Append(l, now) ELSE l]
      BY <2>2, <3>3 DEF Asked
    <3>8. /\ kept \in [Keys -> Stamps]
          /\ \A j \in Keys : kept[j] \in {stamps[w][j], <<>>} /\ Live(kept[j], now) = Live(stamps[w][j], now)
      BY <1>1, <3>1, <3>2, DequeIs
    <3>9. /\ passed'[w] = IF ok THEN [passed[w] EXCEPT ![k] = Append(@, now)] ELSE passed[w]
          /\ refused'[w] = [refused[w] EXCEPT ![k] = IF ok THEN -1 ELSE told]
      BY <2>2, <3>3 DEF Asked
    <3>10. ~ok => told \in Int /\ l[1] + Ticks <= told
      <4> SUFFICES ASSUME ~ok PROVE told \in Int /\ l[1] + Ticks <= told
        OBVIOUS
      <4>1. l # <<>> /\ l[1] \in Nat /\ Head(l) = l[1]
        BY <3>1, <3>4 DEF Stamps
      <4> DEFINE d == (Ticks - (now - l[1])) \div 2 + 1
      <4>2. RetryAfter(w, k) = Max({d, 1})
        BY <3>3, <4>1 DEF RetryAfter
      <4>3. Ticks - (now - l[1]) \in Int /\ Ticks \in Int
        BY <1>1, <4>1, TicksPositive
      <4>4. d \in Int /\ 2 * d > Ticks - (now - l[1])
        BY <4>3
      <4> HIDE DEF d
      <4>5. Max({d, 1}) \in Int /\ Max({d, 1}) >= d
        BY <4>4, SMTT(40) DEF Max
      <4> QED BY <1>1, <4>1, <4>2, <4>3, <4>4, <4>5, SMTT(40)
    <3> HIDE DEF l, ok, told
    <3>11. /\ stamps'[w] \in [Keys -> Stamps] /\ passed'[w] \in [Keys -> Stamps]
           /\ refused'[w] \in [Keys -> Int]
      BY <3>1, <3>4, <3>5, <3>6, <3>7, <3>8, <3>9, <3>10
    <3>12. Exact(w, k)'
      <4>1. stamps'[w][k] = IF ok THEN Append(l, now) ELSE l
        BY <3>7, <3>8
      <4>2. passed'[w][k] = IF ok THEN Append(passed[w][k], now) ELSE passed[w][k]
        BY <3>1, <3>9
      <4>3. refused'[w][k] = IF ok THEN -1 ELSE told
        BY <3>1, <3>9
      <4>4. CASE ok
        <5>1. Len(Append(l, now)) <= LimitOf(w)
          BY <3>1, <3>4, <3>5, <4>4 DEF ok
        <5> QED BY <1>1, <3>5, <3>6, <4>1, <4>2, <4>3, <4>4, <5>1 DEF Exact, LimitOf
      <4>5. CASE ~ok
        <5>1. Len(l) <= LimitOf(w) /\ Live(passed[w][k], now) = l
          BY <3>1 DEF Exact, l
        <5> QED BY <1>1, <3>1, <3>4, <3>10, <4>1, <4>2, <4>3, <4>5, <5>1 DEF Exact, LimitOf
      <4> QED BY <4>4, <4>5
    <3>13. ASSUME NEW j \in Keys, j # k PROVE Exact(w, j)'
      <4>1. stamps'[w][j] = kept[j] /\ passed'[w][j] = passed[w][j] /\ refused'[w][j] = refused[w][j]
        BY <3>1, <3>7, <3>8, <3>9, <3>13
      <4>2. InOrder(kept[j], now)
        BY <3>2, <3>8 DEF InOrder
      <4>3. Exact(w, j) /\ Live(kept[j], now) = Live(stamps[w][j], now)
        BY <3>1, <3>8
      <4> QED BY <1>1, <4>1, <4>2, <4>3 DEF Exact, LimitOf
    <3> QED BY <3>11, <3>12, <3>13
  <2> QED BY <1>1, <2>1, <2>2
<1> QED BY <1>1, <1>2 DEF WindowTypes

\* Two lists of one window make a list of two.
LEMMA Joined == \A g, h : <<g>> \o <<h>> = <<g, h>> /\ <<g>> \o <<>> = <<g>>
<1> SUFFICES ASSUME NEW g, NEW h PROVE <<g>> \o <<h>> = <<g, h>> /\ <<g>> \o <<>> = <<g>>
  OBVIOUS
<1>1. <<g>> \in Seq({g, h}) /\ <<h>> \in Seq({g, h}) /\ <<>> \in Seq({g, h})
  OBVIOUS
<1>2. <<g>> \o <<>> = <<g>>
  BY <1>1
<1>3. <<g>> \o <<h>> = <<g, h>>
  <2> DEFINE s == <<g>> \o <<h>>
  <2>1. s \in Seq({g, h}) /\ Len(s) = 2 /\ s[1] = g /\ s[2] = h
    BY <1>1
  <2> HIDE DEF s
  <2>2. s = <<s[1], s[2]>>
    BY <2>1
  <2> QED BY <2>1, <2>2 DEF s
<1> QED BY <1>2, <1>3

\* A list of one window, and of two.
LEMMA OneGate ==
  ASSUME NEW g, g[1] \in Windows, g[2] \in Keys, LimitOf(g[1]) > 0
  PROVE  Guards(<<g>>)
<1>1. Len(<<g>>) = 1 /\ <<g>>[1] = g
  OBVIOUS
<1> QED BY <1>1 DEF Guards

\* Two open windows one after the other guard a request.
LEMMA TwoGates ==
  ASSUME NEW g, g[1] \in Windows, g[2] \in Keys, LimitOf(g[1]) > 0,
         NEW h, h[1] \in Windows, h[2] \in Keys, LimitOf(h[1]) > 0
  PROVE  Guards(<<g, h>>)
<1>1. Len(<<g, h>>) = 2 /\ <<g, h>>[1] = g /\ <<g, h>>[2] = h
  OBVIOUS
<1>2. \A i \in 1..2 : <<g, h>>[i] \in {g, h}
  OBVIOUS
<1> QED BY <1>1, <1>2 DEF Guards

\* The windows a request is taken through are not disabled.
LEMMA GatesGuard == BodyInv => Guards(Gates) /\ Guards(UserGate)
<1> SUFFICES ASSUME BodyInv PROVE Guards(Gates) /\ Guards(UserGate)
  OBVIOUS
<1>1. call.ip \in Keys /\ call.session \in Keys /\ call.user \in Keys
  BY DEF BodyInv, Keys
<1>2. /\ \A c \in DOMAIN Limits : Limits[c] \in Nat
      /\ {"by session", "by user"} \cap DOMAIN Limits = {}
      /\ SessionLimit \in Nat /\ UserLimit \in Nat
  BY RequestsAssumption, Zenon
<1>3. Guards(UserGate)
  <2> DEFINE g == <<"by user", call.user>>
  <2>1. UserGate = <<>> \/ (UserLimit > 0 /\ UserGate = <<g>>)
    BY DEF UserGate
  <2>2. UserLimit > 0 => "by user" \in Windows /\ LimitOf("by user") > 0
    BY DEF Windows, LimitOf
  <2>3. g[1] = "by user" /\ g[2] = call.user
    OBVIOUS
  <2> HIDE DEF g
  <2>4. CASE UserGate = <<>>
    BY <2>4 DEF Guards
  <2>5. CASE UserLimit > 0 /\ UserGate = <<g>>
    BY <1>1, <2>2, <2>3, <2>5, OneGate
  <2> QED BY <2>1, <2>4, <2>5
<1>4. Guards(Gates)
  <2> DEFINE c == Policy.category
             g == <<c, call.ip>>
             h == <<"by session", call.session>>
  <2>1. Gates = <<>> \/ (c \in DOMAIN Limits /\ Limits[c] # 0 /\
                         (Gates = <<g>> \/ (SessionLimit > 0 /\ Gates = <<g, h>>)))
    <3>1. <<g>> \o <<h>> = <<g, h>> /\ <<g>> \o <<>> = <<g>>
      BY Joined
    <3> QED BY <3>1, Zenon DEF Gates
  <2>2. g[1] = c /\ g[2] = call.ip /\ h[1] = "by session" /\ h[2] = call.session
    OBVIOUS
  <2> HIDE DEF c, g, h
  <2>3. c \in DOMAIN Limits /\ Limits[c] # 0 => c \in Windows /\ LimitOf(c) > 0
    <3> SUFFICES ASSUME c \in DOMAIN Limits, Limits[c] # 0 PROVE c \in Windows /\ LimitOf(c) > 0
      OBVIOUS
    <3>1. c # "by session" /\ c # "by user"
      BY <1>2
    <3>2. LimitOf(c) = Limits[c]
      BY <3>1 DEF LimitOf
    <3>3. Limits[c] \in Nat
      BY <1>2
    <3>4. c \in Windows
      BY Zenon DEF Windows
    <3>5. Limits[c] > 0
      BY <3>3
    <3> QED BY <3>2, <3>4, <3>5, Zenon
  <2>4. SessionLimit > 0 => "by session" \in Windows /\ LimitOf("by session") > 0
    BY DEF Windows, LimitOf
  <2>5. CASE Gates = <<>>
    BY <2>5 DEF Guards
  <2>6. CASE c \in DOMAIN Limits /\ Limits[c] # 0 /\ Gates = <<g>>
    BY <1>1, <2>2, <2>3, <2>6, OneGate
  <2>7. CASE c \in DOMAIN Limits /\ Limits[c] # 0 /\ SessionLimit > 0 /\ Gates = <<g, h>>
    BY <1>1, <2>2, <2>3, <2>4, <2>7, TwoGates
  <2> QED BY <2>1, <2>5, <2>6, <2>7
<1> QED BY <1>3, <1>4

-----------------------------------------------------------------------------
(* A request, step by step.                                                *)

\* Time only pops stamps: a window stays exact, and a refused key gets its turn.
LEMMA TimeKeepsExact ==
  ASSUME RequestsInv, HalfSecond
  PROVE  WindowTypes' /\ \A w \in Windows, k \in Keys : Exact(w, k)'
<1>1. /\ now' = now + 1 /\ UNCHANGED <<stamps, cleaned, refused>> /\ WindowTypes
      /\ now \in Nat /\ now \in Int /\ now' \in Nat /\ now' \in Int
      /\ passed' = [w \in Windows |-> [k \in Keys |-> Live(passed[w][k], now')]]
  BY DEF HalfSecond, RequestsInv, WindowTypes
<1>2. ASSUME NEW w \in Windows, NEW k \in Keys
      PROVE  Live(passed[w][k], now') \in Stamps /\ Exact(w, k)'
  <2> DEFINE s == stamps[w][k]
             p == passed[w][k]
             l == Live(s, now)
             m == Live(s, now')
  <2>1. s \in Stamps /\ p \in Stamps /\ LimitOf(w) \in Nat /\ refused[w][k] \in Int
    BY <1>1, LimitIs DEF WindowTypes
  <2>2. /\ InOrder(s, now) /\ l = Live(p, now) /\ Len(l) <= LimitOf(w)
        /\ refused[w][k] # -1 => LimitOf(w) > 0 /\ (Len(l) < LimitOf(w) \/ l[1] + Ticks <= refused[w][k])
    BY DEF RequestsInv, Exact
  <2>3. l \in Stamps /\ now <= now' /\ Live(l, now') = m
    <3>1. l \in Stamps /\ now <= now'
      <4>1. l \in Stamps
        BY <1>1, <2>1, LiveIs, Zenon
      <4>2. now <= now'
        BY <1>1
      <4> QED BY <4>1, <4>2
    <3>2. Live(Live(s, now), now') = Live(s, now')
      BY <1>1, <2>1, <3>1, LiveLater, Zenon
    <3> QED BY <3>1, <3>2
  <2>4. m = Live(p, now') /\ Live(p, now') \in Stamps
    <3>1. Live(Live(p, now), now') = Live(p, now')
      BY <1>1, <2>1, <2>3, LiveLater, Zenon
    <3>2. Live(p, now') \in Stamps
      BY <1>1, <2>1, LiveIs, Zenon
    <3> HIDE DEF s, p, l, m
    <3> QED BY <2>2, <2>3, <3>1, <3>2
  <2>5. Live(Live(p, now'), now') = m
    BY <1>1, <2>1, <2>4, LiveAgain
  <2>6. InOrder(s, now')
    BY <1>1, <2>1, <2>2, <2>3, OrderKept
  <2>7. Len(m) <= Len(l) /\ Len(m) \in Nat /\ (Len(m) = Len(l) /\ Len(l) > 0 => m[1] = l[1])
    <3> DEFINE o == Oldest(l, now')
    <3> HIDE DEF l, m
    <3>1. /\ o \in 1..Len(l) + 1 /\ Len(m) = Len(l) - o + 1
          /\ \A i \in 1..Len(m) : m[i] = l[i + o - 1]
          /\ Len(l) \in Nat
      <4>1. /\ Oldest(l, now') \in 1..Len(l) + 1
            /\ Len(Live(l, now')) = Len(l) - Oldest(l, now') + 1
            /\ \A i \in 1..Len(Live(l, now')) : /\ Live(l, now')[i] = l[i + Oldest(l, now') - 1]
                                                /\ i + Oldest(l, now') - 1 \in 1..Len(l)
        BY <1>1, <2>3, LiveIs, OldestIs, Zenon
      <4>2. Len(l) \in Nat
        BY <2>3 DEF Stamps
      <4> QED BY <2>3, <4>1, <4>2
    <3> HIDE DEF o
    <3>2. Len(m) <= Len(l) /\ Len(m) \in Nat
      BY <3>1
    <3>3. ASSUME Len(m) = Len(l), Len(l) > 0 PROVE m[1] = l[1]
      <4>1. o = 1 /\ 1 \in 1..Len(m)
        BY <3>1, <3>3
      <4> QED BY <3>1, <4>1
    <3> QED BY <3>2, <3>3
  <2> HIDE DEF l, m, s, p
  <2>8. Len(m) <= LimitOf(w) /\ Len(l) \in Nat
    BY <2>1, <2>2, <2>3, <2>7 DEF Stamps
  <2>9. refused[w][k] # -1 =>
          LimitOf(w) > 0 /\ (Len(m) < LimitOf(w) \/ m[1] + Ticks <= refused[w][k])
    BY <2>1, <2>2, <2>7, <2>8
  <2>10. stamps'[w][k] = s /\ passed'[w][k] = Live(p, now') /\ refused'[w][k] = refused[w][k]
    BY <1>1 DEF s, p
  <2> QED BY <2>4, <2>5, <2>6, <2>8, <2>9, <2>10 DEF Exact, LimitOf, m, p
<1>3. \A w \in Windows : passed'[w] \in [Keys -> Stamps]
  BY <1>1, <1>2
<1> QED BY <1>1, <1>2, <1>3 DEF WindowTypes

\* The windows as they were are exact as they were.
LEMMA WindowsAside ==
  ASSUME RequestsInv, UNCHANGED windowVars
  PROVE  WindowTypes' /\ \A w \in Windows, k \in Keys : Exact(w, k)'
<1>1. UNCHANGED <<now, stamps, cleaned, passed, refused>>
  BY DEF windowVars
<1>2. WindowTypes'
  BY <1>1 DEF RequestsInv, WindowTypes
<1>3. \A w \in Windows, k \in Keys : Exact(w, k)'
  BY <1>1 DEF RequestsInv, Exact, LimitOf
<1> QED BY <1>2, <1>3

\* A chunk that would go over the cap is not given to the application.
LEMMA BodyRead ==
  ASSUME BodyInv, Receive \/ ReadOn
  PROVE  BodyInv'
<1>1. call \in Calls /\ \A c \in Calls : c.body \in Seq(Nat)
  BY RequestsAssumption, Zenon DEF BodyInv
<1>2. /\ chunk \in Nat \ {0} /\ chunk <= Len(call.body) /\ ~over
      /\ seen' = seen + call.body[chunk] /\ chunk' = chunk + 1
      /\ over' = (seen' > Cap) /\ fed' = IF over' THEN fed ELSE seen'
      /\ call' = call /\ stage' = stage /\ sent' = sent
      /\ stage \in {"application", "responded"} /\ seen \in Nat /\ fed \in Nat
  BY DEF Receive, ReadOn, BodyInv
<1>3. call.body[chunk] \in Nat
  BY <1>1, <1>2
<1>4. Cap' = Cap /\ Cap \in Nat
  BY <1>2, CapIs DEF Cap, Policy
<1> HIDE DEF Cap
<1>5. seen' \in Nat /\ fed' \in Nat /\ chunk' \in Nat \ {0} /\ over' \in BOOLEAN /\ fed' <= Cap
  <2>1. seen' \in Nat /\ chunk' \in Nat \ {0} /\ over' \in BOOLEAN
    BY <1>2, <1>3
  <2>2. CASE seen' > Cap
    BY <1>2, <2>1, <2>2 DEF BodyInv
  <2>3. CASE ~(seen' > Cap)
    <3>1. fed' = seen'
      BY <1>2, <2>3
    <3> QED BY <1>4, <2>1, <2>3, <3>1
  <2> QED BY <2>1, <2>2, <2>3
<1>6. stage = "responded" => Len(sent') <= 1 /\ (sent' = <<>> => over')
  BY <1>2 DEF BodyInv
<1> QED BY <1>2, <1>4, <1>5, <1>6 DEF BodyInv

Answered == sent' \in Seq(Statuses) /\ Len(sent') = 1 /\ sent' # <<>>

\* One status is appended to none.
LEMMA SentOnce ==
  /\ <<>> \in Seq(Statuses) /\ Len(<<>>) = 0
  /\ sent = <<>> => /\ Send(200) => Answered
                    /\ Send(400) => Answered
                    /\ Send(413) => Answered
                    /\ Send(429) => Answered
<1>1. \A x \in Statuses : Append(<<>>, x) \in Seq(Statuses) /\ Len(Append(<<>>, x)) = 1
  OBVIOUS
<1>2. 200 \in Statuses /\ 400 \in Statuses /\ 413 \in Statuses /\ 429 \in Statuses
  BY DEF Statuses
<1>3. <<>> \in Seq(Statuses) /\ Len(<<>>) = 0
  OBVIOUS
<1>4. \A x \in Statuses : Append(<<>>, x) # <<>>
  BY <1>1, <1>3
<1>5. ASSUME sent = <<>>, NEW x \in Statuses, Send(x) PROVE Answered
  <2>1. sent' = Append(<<>>, x)
    BY <1>5 DEF Send
  <2> QED BY <1>1, <1>4, <2>1, Zenon DEF Answered
<1> QED BY <1>2, <1>3, <1>5

\* The windows a request goes through are asked, and its one answer is sent.
LEMMA RequestKeeps == RequestsInv /\ [RequestsNext]_requestVars => RequestsInv'
<1> SUFFICES ASSUME RequestsInv, [RequestsNext]_requestVars PROVE RequestsInv'
  OBVIOUS
<1>1. BodyInv /\ Guards(Gates) /\ Guards(UserGate) /\ Cap \in Nat
  BY GatesGuard, CapIs DEF RequestsInv
<1>2. call' = call => Cap' = Cap
  BY DEF Cap, Policy
<1>3. CASE Arrive
  <2>1. BodyInv'
    BY <1>1, <1>3 DEF Arrive, BodyInv, bodyVars
  <2> QED BY <1>3, <2>1, WindowsAside DEF Arrive, RequestsInv
<1>4. CASE RateLimit
  <2>1. WindowTypes' /\ \A w \in Windows, k \in Keys : Exact(w, k)'
    BY <1>1, <1>4, AskKeeps DEF RateLimit
  <2>2. sent = <<>>
    BY <1>1, <1>4 DEF RateLimit, BodyInv
  <2>3. BodyInv'
    <3>1. /\ UNCHANGED <<call, seen, fed, chunk, over>> /\ stage = "gate"
          /\ (Answered /\ stage' = "end") \/ (sent' = sent /\ stage' = "size")
      BY <1>4, <2>2, SentOnce DEF RateLimit
    <3> QED BY <1>1, <2>2, <3>1 DEF BodyInv, Answered
  <2> QED BY <2>1, <2>3 DEF RequestsInv
<1>5. CASE ContentLength
  <2>1. sent = <<>> /\ fed = 0 /\ Cap' = Cap
    BY <1>1, <1>2, <1>5 DEF ContentLength, BodyInv
  <2>2. BodyInv'
    <3>1. /\ UNCHANGED <<call, seen, fed, chunk, over>>
          /\ (Answered /\ stage' = "end") \/ (sent' = sent /\ stage' = "application")
      BY <1>5, <2>1, SentOnce DEF ContentLength
    <3>2. CASE sent' = sent /\ stage' = "application"
      BY <1>1, <2>1, <3>1, <3>2 DEF BodyInv
    <3>3. CASE Answered /\ stage' = "end"
      BY <1>1, <2>1, <3>1, <3>3 DEF BodyInv, Answered
    <3> QED BY <3>1, <3>2, <3>3
  <2> QED BY <1>5, <2>2, WindowsAside DEF ContentLength, RequestsInv
<1>6. CASE Receive \/ ReadOn
  BY <1>1, <1>6, BodyRead, WindowsAside DEF Receive, ReadOn, RequestsInv
<1>7. CASE Respond
  <2>1. WindowTypes' /\ \A w \in Windows, k \in Keys : Exact(w, k)'
    BY <1>1, <1>7, AskKeeps, WindowsAside DEF Respond
  <2>2. sent = <<>> /\ Cap' = Cap
    BY <1>1, <1>2, <1>7 DEF Respond, BodyInv
  <2>3. (over /\ sent' = sent) \/ Answered
    <3>1. IF over THEN UNCHANGED sent ELSE Send(IF Refuses(UserGate) THEN 429 ELSE 200)
      BY <1>7 DEF Respond
    <3> QED BY <2>2, <3>1, SentOnce
  <2>4. /\ stage = "application" /\ stage' = "responded" /\ UNCHANGED <<call, seen, fed, chunk, over>>
    BY <1>7 DEF Respond
  <2>5. BodyInv'
    <3>1. sent' \in Seq(Statuses) /\ Len(sent') <= 1 /\ (sent' = <<>> => over)
      <4>1. CASE Answered
        BY <4>1 DEF Answered
      <4>2. CASE over /\ sent' = sent
        <5>1. sent' = <<>>
          BY <2>2, <4>2
        <5> QED BY <4>2, <5>1, SentOnce
      <4> QED BY <2>3, <4>1, <4>2
    <3>2. fed <= Cap
      BY <1>1, <2>4 DEF BodyInv
    <3> HIDE DEF Cap
    <3> QED BY <1>1, <2>2, <2>4, <3>1, <3>2 DEF BodyInv
  <2> QED BY <2>1, <2>5 DEF RequestsInv
<1>8. CASE Return
  <2>1. /\ stage = "responded" /\ stage' = "end" /\ UNCHANGED <<windowVars, call, seen, fed, chunk, over>>
        /\ IF over /\ sent = <<>> THEN Send(413) ELSE UNCHANGED sent
    BY <1>8 DEF Return
  <2>2. sent' \in Seq(Statuses) /\ Len(sent') = 1
    <3>1. CASE sent = <<>>
      <4>1. over
        BY <1>1, <2>1, <3>1 DEF BodyInv
      <4> QED BY <2>1, <3>1, <4>1, SentOnce DEF Answered
    <3>2. CASE sent # <<>>
      <4>1. sent' = sent /\ Len(sent) <= 1 /\ sent \in Seq(Statuses)
        BY <1>1, <2>1, <3>2 DEF BodyInv
      <4> QED BY <3>2, <4>1
    <3> QED BY <3>1, <3>2
  <2>3. BodyInv'
    BY <1>1, <2>1, <2>2 DEF BodyInv
  <2> QED BY <2>1, <2>3, WindowsAside DEF RequestsInv
<1>9. CASE AnswerSent
  <2>1. Nobody \in Calls
    BY RequestsAssumption, Zenon DEF Nobody
  <2>2. BodyInv'
    <3>1. /\ stage' = "idle" /\ call' = Nobody /\ seen' = 0 /\ fed' = 0 /\ chunk' = 1
          /\ over' = FALSE /\ sent' = <<>>
      BY <1>9 DEF AnswerSent, Fresh
    <3>2. sent' \in Seq(Statuses)
      BY <3>1, SentOnce, Zenon
    <3>3. call' \in Calls /\ over' \in BOOLEAN /\ seen' \in Nat /\ fed' \in Nat /\ chunk' \in Nat \ {0}
      <4>1. call' \in Calls /\ over' \in BOOLEAN
        BY <2>1, <3>1, Zenon
      <4> QED BY <3>1, <4>1
    <3> QED BY <3>1, <3>2, <3>3 DEF BodyInv
  <2> QED BY <1>9, <2>2, WindowsAside DEF AnswerSent, RequestsInv
<1>10. CASE HalfSecond
  <2>1. BodyInv'
    BY <1>1, <1>2, <1>10 DEF HalfSecond, bodyVars, BodyInv
  <2> QED BY <1>10, <2>1, TimeKeepsExact DEF RequestsInv
<1>11. CASE UNCHANGED requestVars
  <2>1. BodyInv'
    BY <1>1, <1>2, <1>11 DEF requestVars, bodyVars, BodyInv
  <2> QED BY <1>11, <2>1, WindowsAside DEF requestVars, RequestsInv
<1> QED BY <1>3, <1>4, <1>5, <1>6, <1>7, <1>8, <1>9, <1>10, <1>11 DEF RequestsNext

\* No call is under way and no window has a stamp.
LEMMA RequestsStart == RequestsInit => RequestsInv
<1> SUFFICES ASSUME RequestsInit PROVE RequestsInv
  OBVIOUS
<1>1. Nobody \in Calls
  BY RequestsAssumption, Zenon DEF Nobody
<1>2. BodyInv
  <2>1. /\ sent \in Seq(Statuses) /\ sent = <<>>
    BY SentOnce, Zenon DEF RequestsInit
  <2>2. call \in Calls /\ over \in BOOLEAN /\ seen \in Nat /\ fed \in Nat /\ chunk \in Nat \ {0}
    <3>1. call \in Calls /\ over \in BOOLEAN
      BY <1>1, Zenon DEF RequestsInit
    <3>2. seen = 0 /\ fed = 0 /\ chunk = 1
      BY DEF RequestsInit
    <3> QED BY <3>1, <3>2
  <2>3. stage = "idle" /\ fed = 0
    BY DEF RequestsInit
  <2> QED BY <2>1, <2>2, <2>3 DEF BodyInv
<1>3. <<>> \in Stamps /\ now = 0 /\ now \in Int
  BY LiveEmpty DEF RequestsInit, Stamps
<1>4. WindowTypes
  BY <1>3 DEF RequestsInit, WindowTypes
<1>5. ASSUME NEW w \in Windows, NEW k \in Keys PROVE Exact(w, k)
  <2>1. stamps[w][k] = <<>> /\ passed[w][k] = <<>> /\ refused[w][k] = -1
    BY DEF RequestsInit
  <2>2. Live(<<>>, now) = <<>> /\ InOrder(<<>>, now) /\ LimitOf(w) \in Nat
    BY <1>3, LiveEmpty, LimitIs DEF InOrder
  <2> QED BY <2>1, <2>2 DEF Exact
<1> QED BY <1>2, <1>4, <1>5 DEF RequestsInv

\* The inductive invariant holds throughout (api/middleware.py:425, 440).
THEOREM RequestsInvariant == RequestsSpec => []RequestsInv
  BY RequestsStart, RequestKeeps, PTL DEF RequestsSpec

\* OneAnswer: a request is answered once, and the application is given no more of
\* its body than the cap (api/middleware.py:262).
THEOREM RequestsOneAnswer == RequestsSpec => []OneAnswer
<1>1. RequestsInv => OneAnswer
  <2> SUFFICES ASSUME RequestsInv PROVE OneAnswer
    OBVIOUS
  <2>1. Len(sent) <= 1
    <3>1. sent = <<>> => Len(sent) = 0
      OBVIOUS
    <3>2. sent \in Seq(Statuses)
      BY DEF RequestsInv, BodyInv
    <3>3. CASE sent = <<>>
      BY <3>1, <3>3
    <3>4. CASE sent # <<>>
      <4>1. /\ stage \in {"idle", "gate", "size", "application", "responded", "end"}
            /\ stage \in {"idle", "gate", "size"} => sent = <<>>
            /\ stage = "application" => sent = <<>>
            /\ stage = "responded" => Len(sent) <= 1
            /\ stage = "end" => Len(sent) = 1
        BY DEF RequestsInv, BodyInv
      <4>2. Len(sent) = 1 => Len(sent) <= 1
        OBVIOUS
      <4> QED BY <3>4, <4>1, <4>2, Zenon
    <3> QED BY <3>3, <3>4
  <2> QED BY <2>1 DEF RequestsInv, BodyInv, OneAnswer
<1> QED BY <1>1, RequestsInvariant, PTL

\* WindowExact: no more requests of a key pass in a window than its limit, and a
\* client that waits as long as it was told is let through (api/middleware.py:466, 479).
THEOREM RequestsWindowExact == RequestsSpec => []WindowExact
<1>1. RequestsInv => WindowExact
  <2> SUFFICES ASSUME RequestsInv PROVE AtMostLimit /\ RetryAfterSuffices
    BY DEF WindowExact
  <2>1. ASSUME NEW w \in Windows, NEW k \in Keys
        PROVE  /\ Cardinality({i \in DOMAIN passed[w][k] : passed[w][k][i] > now - Ticks}) <= LimitOf(w)
               /\ refused[w][k] # -1 /\ now >= refused[w][k] => Allowed(w, k)
    <3> DEFINE p == passed[w][k]
               l == Live(stamps[w][k], now)
               o == Oldest(p, now)
               I == {i \in DOMAIN p : p[i] > now - Ticks}
    <3>1. /\ p \in Stamps /\ stamps[w][k] \in Stamps /\ now \in Nat /\ now \in Int /\ LimitOf(w) \in Nat
          /\ refused[w][k] \in Int /\ WindowTypes /\ Exact(w, k)
      BY LimitIs DEF RequestsInv, WindowTypes
    <3>2. l = Live(p, now) /\ Len(l) <= LimitOf(w) /\ InOrder(stamps[w][k], now)
      BY <3>1 DEF Exact
    <3>3. Len(l) = Len(p) - o + 1 /\ o \in 1..Len(p) + 1 /\ \A j \in 1..o - 1 : p[j] <= now - Ticks
      BY <3>1, <3>2, LiveIs, OldestIs
    <3>4. Len(p) \in Nat /\ DOMAIN p = 1..Len(p) /\ \A j \in 1..Len(p) : p[j] \in Nat
      BY <3>1 DEF Stamps
    <3> HIDE DEF p, l, o
    <3>5. I \subseteq o..Len(p)
      <4> SUFFICES ASSUME NEW i \in I PROVE i \in o..Len(p)
        OBVIOUS
      <4>1. i \in 1..Len(p) /\ p[i] > now - Ticks
        BY <3>4
      <4>2. i \notin 1..o - 1
        BY <3>1, <3>3, <3>4, <4>1, TicksPositive
      <4> QED BY <3>3, <3>4, <4>1, <4>2
    <3>6. IsFiniteSet(o..Len(p)) /\ Cardinality(o..Len(p)) = Len(l)
      <4>1. o \in Int /\ Len(p) \in Int
        BY <3>3, <3>4
      <4>2. IsFiniteSet(o..Len(p)) /\ Cardinality(o..Len(p)) = IF o > Len(p) THEN 0 ELSE Len(p) - o + 1
        BY <4>1, FS_Interval
      <4> QED BY <3>3, <3>4, <4>1, <4>2
    <3>7. Cardinality(I) <= LimitOf(w)
      <4>1. Cardinality(I) <= Len(l) /\ Cardinality(I) \in Nat
        BY <3>5, <3>6, FS_Subset, FS_CardinalityType
      <4> QED BY <3>1, <3>2, <3>3, <3>4, <4>1
    <3>8. ASSUME refused[w][k] # -1, now >= refused[w][k] PROVE Allowed(w, k)
      <4>1. Deque(w, k) = l
        BY <3>1, <3>2, DequeIs DEF l
      <4>2. LimitOf(w) > 0 /\ (Len(l) < LimitOf(w) \/ l[1] + Ticks <= refused[w][k])
        BY <3>1, <3>8 DEF Exact, l
      <4>3. l \in Stamps /\ (l # <<>> => l[1] > now - Ticks)
        BY <3>1, LiveIs DEF l
      <4>4. l # <<>> => l[1] \in Nat
        BY <4>3 DEF Stamps
      <4>5. l = <<>> => Len(l) = 0
        OBVIOUS
      <4>6. Len(l) < LimitOf(w)
        BY <3>1, <3>8, <4>2, <4>3, <4>4, <4>5, TicksPositive
      <4> QED BY <4>1, <4>6 DEF Allowed
    <3> QED BY <3>7, <3>8 DEF p
  <2> QED BY <2>1 DEF AtMostLimit, RetryAfterSuffices
<1> QED BY <1>1, RequestsInvariant, PTL
=============================================================================
