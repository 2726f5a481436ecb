--------------------------- MODULE PipelineProofs ---------------------------
(***************************************************************************)
(* Proofs about the three data paths, for every document, corpus, question *)
(* and listing: no chunk loses, repeats or misplaces a sentence; what a    *)
(* prompt holds and an answer cites is within every limit; no call to      *)
(* EDGAR is made under another task's identity; and an ingest works        *)
(* through the newest filings it was asked for.                            *)
(***************************************************************************)
EXTENDS Chunking, Retrieval, Fetching,
        NaturalsInduction, WellFoundedInduction, FiniteSetTheorems, TLAPS

-----------------------------------------------------------------------------
(* Induction over a set of numbers.                                         *)

\* Induction on the numbers.
LEMMA SetInduction ==
  ASSUME NEW S, 0 \in S, \A n \in Nat : n \in S => n + 1 \in S
  PROVE  Nat \subseteq S
<1> DEFINE R == OpToRel(<, Nat)
<1>1. IsWellFoundedOn(R, Nat)
  BY NatLessThanWellFounded, Zenon
<1>2. \A x, y \in Nat : x < y => <<x, y>> \in R
  BY DEF OpToRel
<1> HIDE DEF R
<1>3. SUFFICES ASSUME Nat \ S # {} PROVE FALSE
  OBVIOUS
<1>4. PICK x \in Nat \ S : \A y \in Nat \ S : ~(<<y, x>> \in R)
  BY <1>1, <1>3, WFMin
<1>5. x # 0 /\ x - 1 \in Nat /\ x - 1 < x /\ (x - 1) + 1 = x
  BY <1>4
<1>6. x - 1 \notin Nat \ S
  BY <1>2, <1>4, <1>5
<1> QED BY <1>4, <1>5, <1>6

\* A set of numbers that is not empty has a least element.
LEMMA LeastExists ==
  ASSUME NEW S \in SUBSET Nat, S # {}
  PROVE  \E j \in S : \A k \in S : j <= k
<1> DEFINE R == OpToRel(<, Nat)
<1>1. IsWellFoundedOn(R, Nat)
  BY NatLessThanWellFounded, Zenon
<1>2. \A x, y \in Nat : x < y => <<x, y>> \in R
  BY DEF OpToRel
<1> HIDE DEF R
<1>3. PICK x \in S : \A y \in S : ~(<<y, x>> \in R)
  BY <1>1, WFMin
<1>4. ASSUME NEW y \in S PROVE x <= y
  <2>1. x \in Nat /\ y \in Nat /\ ~(<<y, x>> \in R)
    BY <1>3
  <2>2. ~(y < x)
    BY <1>2, <2>1, Zenon
  <2> QED BY <2>1, <2>2
<1> QED BY <1>4

-----------------------------------------------------------------------------
(* The tokens of an interval of sentences.                                  *)

SumOf(f, s, i, j) == f = [k \in i - 1 .. j |-> IF k = i - 1 THEN 0 ELSE f[k - 1] + s[k]]

\* The recursive function of Tokens exists.
LEMMA SumExists ==
  ASSUME NEW s, NEW i \in Nat \ {0}, NEW n \in Nat
  PROVE  \E f : SumOf(f, s, i, i - 1 + n)
<1> DEFINE N == {m \in Nat : \E f : SumOf(f, s, i, i - 1 + m)}
<1>1. 0 \in N
  <2> DEFINE f == [k \in i - 1 .. i - 1 |-> 0]
  <2>1. i - 1 + 0 = i - 1 /\ \A k \in i - 1 .. i - 1 : k = i - 1
    OBVIOUS
  <2>2. SumOf(f, s, i, i - 1)
    BY <2>1 DEF SumOf
  <2> QED BY <2>1, <2>2
<1>2. ASSUME NEW m \in Nat, m \in N PROVE m + 1 \in N
  <2> DEFINE j == i - 1 + m
  <2>1. PICK f : SumOf(f, s, i, j)
    BY <1>2
  <2> DEFINE g == [k \in i - 1 .. j + 1 |-> IF k = j + 1 THEN f[j] + s[j + 1] ELSE f[k]]
  <2>2. /\ j \in Nat /\ j \in i - 1 .. j /\ j + 1 \in i - 1 .. j + 1 /\ j + 1 # i - 1
        /\ i - 1 .. j + 1 = (i - 1 .. j) \cup {j + 1} /\ j + 1 \notin i - 1 .. j
        /\ i - 1 + (m + 1) = j + 1
    OBVIOUS
  <2>3. g[j + 1] = f[j] + s[j + 1] /\ \A k \in i - 1 .. j : g[k] = f[k]
    BY <2>2, Zenon
  <2>4. \A k \in i - 1 .. j : f[k] = IF k = i - 1 THEN 0 ELSE f[k - 1] + s[k]
    BY <2>1, Zenon DEF SumOf
  <2>5. g = [k \in i - 1 .. j + 1 |-> g[k]]
    OBVIOUS
  <2> HIDE DEF g, j
  <2>6. ASSUME NEW k \in i - 1 .. j + 1
        PROVE  g[k] = IF k = i - 1 THEN 0 ELSE g[k - 1] + s[k]
    <3>1. CASE k = j + 1
      <4>1. k - 1 = j
        BY <2>2, <3>1
      <4> QED BY <2>2, <2>3, <3>1, <4>1, Zenon
    <3>2. CASE k \in i - 1 .. j
      <4>1. k = i - 1 \/ k - 1 \in i - 1 .. j
        BY <2>2, <3>2
      <4> QED BY <2>3, <2>4, <3>2, <4>1, Zenon
    <3> QED BY <2>2, <3>1, <3>2
  <2>7. SumOf(g, s, i, j + 1)
    BY <2>5, <2>6, Zenon DEF SumOf
  <2> QED BY <2>2, <2>7
<1>3. n \in N
  <2> HIDE DEF N
  <2> QED BY <1>1, <1>2, SetInduction
<1> QED BY <1>3

LEMMA TokensAre ==
  ASSUME NEW s, NEW i \in Nat \ {0}, NEW j \in Nat, i - 1 <= j
  PROVE  \E f : SumOf(f, s, i, j) /\ Tokens(s, i, j) = f[j]
<1>1. j - (i - 1) \in Nat /\ i - 1 + (j - (i - 1)) = j
  OBVIOUS
<1>2. \E f : SumOf(f, s, i, j)
  BY <1>1, SumExists, Zenon
<1> QED BY <1>2, Zenon DEF Tokens, SumOf

\* Two sums agree as far as both go.
LEMMA SumsAgree ==
  ASSUME NEW s, NEW i \in Nat \ {0}, NEW j \in Nat, i - 1 <= j,
         NEW f, SumOf(f, s, i, j), NEW g, SumOf(g, s, i, j + 1)
  PROVE  f[j] = g[j] /\ g[j + 1] = g[j] + s[j + 1] /\ f[i - 1] = 0
<1> DEFINE N == {m \in Nat : i - 1 + m <= j => f[i - 1 + m] = g[i - 1 + m]}
<1>1. /\ \A k \in i - 1 .. j : f[k] = IF k = i - 1 THEN 0 ELSE f[k - 1] + s[k]
      /\ \A k \in i - 1 .. j + 1 : g[k] = IF k = i - 1 THEN 0 ELSE g[k - 1] + s[k]
  BY Zenon DEF SumOf
<1>2. /\ i - 1 \in i - 1 .. j /\ i - 1 \in i - 1 .. j + 1 /\ i - 1 + 0 = i - 1
      /\ j + 1 \in i - 1 .. j + 1 /\ j + 1 # i - 1 /\ j + 1 - 1 = j
  OBVIOUS
<1>3. f[i - 1] = 0 /\ g[i - 1] = 0 /\ g[j + 1] = g[j] + s[j + 1]
  <2>1. f[i - 1] = 0 /\ g[i - 1] = 0
    BY <1>1, <1>2, Zenon
  <2>2. g[j + 1] = IF j + 1 = i - 1 THEN 0 ELSE g[(j + 1) - 1] + s[j + 1]
    BY <1>1, <1>2, Zenon
  <2> QED BY <1>2, <2>1, <2>2
<1>4. 0 \in N
  BY <1>2, <1>3
<1>5. ASSUME NEW m \in Nat, m \in N PROVE m + 1 \in N
  <2> SUFFICES ASSUME i - 1 + (m + 1) <= j PROVE f[i - 1 + (m + 1)] = g[i - 1 + (m + 1)]
    OBVIOUS
  <2> DEFINE k == i - 1 + (m + 1)
  <2>1. k \in i - 1 .. j /\ k \in i - 1 .. j + 1 /\ k # i - 1 /\ k - 1 = i - 1 + m /\ i - 1 + m <= j
    OBVIOUS
  <2>2. f[i - 1 + m] = g[i - 1 + m]
    BY <1>5, <2>1
  <2> HIDE DEF k
  <2>3. f[k] = g[k]
    BY <1>1, <2>1, <2>2, Zenon
  <2> QED BY <2>3 DEF k
<1>6. j - (i - 1) \in N
  <2> HIDE DEF N
  <2> QED BY <1>4, <1>5, SetInduction
<1>7. i - 1 + (j - (i - 1)) = j /\ j <= j
  OBVIOUS
<1>8. f[j] = g[j]
  BY <1>6, <1>7
<1> QED BY <1>3, <1>8

\* No sentence has no tokens; one sentence more adds its own.
LEMMA TokensNone ==
  ASSUME NEW s, NEW i \in Nat \ {0}
  PROVE  Tokens(s, i, i - 1) = 0
<1>1. PICK f : SumOf(f, s, i, i - 1) /\ Tokens(s, i, i - 1) = f[i - 1]
  BY TokensAre
<1>2. i - 1 \in i - 1 .. i - 1
  OBVIOUS
<1> QED BY <1>1, <1>2, Zenon DEF SumOf

LEMMA TokensOneMore ==
  ASSUME NEW s, NEW i \in Nat \ {0}, NEW j \in Nat, i - 1 <= j
  PROVE  Tokens(s, i, j + 1) = Tokens(s, i, j) + s[j + 1]
<1>1. PICK f : SumOf(f, s, i, j) /\ Tokens(s, i, j) = f[j]
  BY TokensAre
<1>2. PICK g : SumOf(g, s, i, j + 1) /\ Tokens(s, i, j + 1) = g[j + 1]
  BY TokensAre
<1>3. f[j] = g[j] /\ g[j + 1] = g[j] + s[j + 1]
  BY <1>1, <1>2, SumsAgree
<1> QED BY <1>1, <1>2, <1>3

LEMMA TokensNat ==
  ASSUME NEW s \in Seq(Nat), NEW i \in Nat \ {0}, NEW j \in Nat, i - 1 <= j, j <= Len(s)
  PROVE  Tokens(s, i, j) \in Nat
<1> DEFINE N == {m \in Nat : i - 1 + m <= Len(s) => Tokens(s, i, i - 1 + m) \in Nat}
<1>1. 0 \in N
  <2>1. i - 1 + 0 = i - 1
    OBVIOUS
  <2> QED BY <2>1, TokensNone
<1>2. ASSUME NEW m \in Nat, m \in N PROVE m + 1 \in N
  <2> DEFINE k == i - 1 + m
  <2>1. k \in Nat /\ i - 1 <= k /\ i - 1 + (m + 1) = k + 1
    OBVIOUS
  <2>2. Tokens(s, i, k + 1) = Tokens(s, i, k) + s[k + 1]
    BY <2>1, TokensOneMore
  <2>3. k + 1 <= Len(s) => s[k + 1] \in Nat /\ Tokens(s, i, k) \in Nat
    BY <1>2, <2>1
  <2>4. k + 1 <= Len(s) => Tokens(s, i, k + 1) \in Nat
    <3> HIDE DEF k
    <3> QED BY <2>2, <2>3
  <2> HIDE DEF k
  <2>5. i - 1 + (m + 1) <= Len(s) => Tokens(s, i, i - 1 + (m + 1)) \in Nat
    BY <2>1, <2>4, Zenon
  <2>6. m + 1 \in Nat
    OBVIOUS
  <2> QED BY <2>5, <2>6, Zenon
<1>3. j - (i - 1) \in N
  <2> HIDE DEF N
  <2> QED BY <1>1, <1>2, SetInduction, SMTT(40)
<1>4. i - 1 + (j - (i - 1)) = j
  OBVIOUS
<1> QED BY <1>3, <1>4
-----------------------------------------------------------------------------
(* The walk.                                                                *)

LEMMA InSeq ==
  ASSUME NEW S, NEW s \in Seq(S), NEW i \in DOMAIN s
  PROVE  s[i] \in S
  OBVIOUS

LEMMA MapInSeq ==
  ASSUME NEW S, NEW s \in Seq(S), NEW T, NEW f,
         f = [i \in DOMAIN s |-> f[i]], \A i \in DOMAIN s : f[i] \in T
  PROVE  f \in Seq(T)
<1>1. DOMAIN s = 1 .. Len(s) /\ Len(s) \in Nat
  OBVIOUS
<1> QED BY <1>1

LEMMA HeadTail ==
  ASSUME NEW S, NEW s \in Seq(S), s # <<>>
  PROVE  Head(s) \in S /\ Tail(s) \in Seq(S)
<1>1. Len(s) \in Nat \ {0}
  OBVIOUS
<1>2. Head(s) = s[1] /\ 1 \in DOMAIN s
  BY <1>1
<1> QED BY <1>2

Ids == DOMAIN doc.node
Kinds == {"text", "textsmall", "table"}
Over(n) == UNION {Above(p) : p \in ParentsIn(doc, n)}
Titled(S) == {m \in S : doc.node[m].title}
InPath(p) == {p[i] : i \in DOMAIN p}

\* What may stand on the stack, carrying the titles above it, and what may have
\* been extracted, carrying those and its own.
Entries == {e \in [node : Ids, path : Seq(Ids)] : InPath(e.path) = Titled(Over(e.node))}
Extracts == {s \in [node : Ids, path : Seq(Ids), kind : Kinds, sizes : Seq(Nat)] :
               InPath(s.path) = Titled(Above(s.node))}

WalkInv == doc \in Docs /\ stack \in Seq(Entries) /\ segments \in Seq(Extracts)

\* A node is inside of itself and of what its parent is inside of.
LEMMA AboveIs ==
  ASSUME doc \in Docs, NEW n \in Ids
  PROVE  Above(n) = {n} \cup Over(n) /\ Above(n) \subseteq Ids
<1> DEFINE Closed(S) == \A k \in S : ParentsIn(doc, k) \subseteq S
           U == {n} \cup Over(n)
<1>1. \A k \in Ids : ParentsIn(doc, k) \subseteq Ids
  BY DEF ParentsIn, Ids
<1>2. \A k : Above(k) \subseteq Ids
  BY DEF Above, Ids
<1>3. \A k \in Ids, m \in Ids :
        m \in Above(k) <=> \A S \in SUBSET Ids : k \in S /\ Closed(S) => m \in S
  BY DEF Above, Ids
<1>4. \A k \in Ids : k \in Above(k)
  BY <1>3
<1>5. ASSUME NEW p \in Ids PROVE Closed(Above(p))
  <2> SUFFICES ASSUME NEW k \in Above(p), NEW q \in ParentsIn(doc, k)
               PROVE  q \in Above(p)
    OBVIOUS
  <2>1. k \in Ids /\ q \in Ids
    <3>1. k \in Ids
      BY <1>2
    <3> QED BY <1>1, <3>1
  <2>2. ASSUME NEW S \in SUBSET Ids, p \in S, Closed(S) PROVE q \in S
    <3>1. k \in S
      BY <1>3, <2>1, <2>2, Zenon
    <3> QED BY <2>2, <3>1, Zenon
  <2> HIDE DEF Closed
  <2> QED BY <1>3, <2>1, <2>2, Zenon
<1>6. U \subseteq Ids
  BY <1>2 DEF Over
<1>7. Closed(U)
  <2> SUFFICES ASSUME NEW k \in U, NEW q \in ParentsIn(doc, k) PROVE q \in U
    OBVIOUS
  <2>1. CASE k = n
    <3>1. q \in Ids
      BY <1>1, <2>1
    <3>2. q \in Above(q)
      BY <1>4, <3>1
    <3> QED BY <2>1, <3>2 DEF Over
  <2>2. CASE k # n
    <3>1. PICK p \in ParentsIn(doc, n) : k \in Above(p)
      BY <2>2 DEF Over
    <3>2. p \in Ids
      BY <1>1
    <3>3. q \in Above(p)
      BY <1>5, <3>1, <3>2
    <3> QED BY <3>1, <3>3 DEF Over
  <2> QED BY <2>1, <2>2
<1>8. ASSUME NEW m \in Above(n) PROVE m \in U
  <2>1. m \in Ids
    BY <1>2
  <2>2. n \in U
    OBVIOUS
  <2> HIDE DEF U
  <2> QED BY <1>3, <1>6, <1>7, <2>1, <2>2
<1>9. ASSUME NEW m \in U PROVE m \in Above(n)
  <2>1. CASE m = n
    BY <1>4, <2>1
  <2>2. CASE m # n
    <3>1. PICK p \in ParentsIn(doc, n) : m \in Above(p)
      BY <2>2 DEF Over
    <3>2. p \in Ids /\ m \in Ids
      BY <1>1, <1>2, <3>1
    <3>3. ASSUME NEW S \in SUBSET Ids, n \in S, Closed(S) PROVE m \in S
      <4>1. p \in S
        BY <3>3
      <4> QED BY <1>3, <3>1, <3>2, <3>3, <4>1
    <3> QED BY <1>3, <3>2, <3>3
  <2> QED BY <2>1, <2>2
<1> QED BY <1>2, <1>8, <1>9

LEMMA DocIs ==
  ASSUME doc \in Docs
  PROVE  /\ doc.roots \in Seq(Ids)
         /\ \A i \in DOMAIN doc.roots : Over(doc.roots[i]) = {}
         /\ \A n \in Ids : /\ doc.node[n].parts \in Seq([kind : Kinds, sizes : Seq(Nat)])
                           /\ doc.node[n].kids \in Seq(Ids)
         /\ \A n \in Ids : \A i \in DOMAIN doc.node[n].kids : Over(doc.node[n].kids[i]) = Above(n)
<1>1. /\ doc.roots \in Seq(Ids)
      /\ \A n \in Ids : /\ doc.node[n].parts \in Seq([kind : Kinds, sizes : Seq(Nat)])
                        /\ doc.node[n].kids \in Seq(Ids)
      /\ \A i \in DOMAIN doc.roots : ParentsIn(doc, doc.roots[i]) = {}
      /\ \A n, k, l \in Ids : k \in ParentsIn(doc, n) /\ l \in ParentsIn(doc, n) => k = l
  BY DocsAssumption, Zenon DEF Ids, Kinds
<1>2. \A i \in DOMAIN doc.roots : Over(doc.roots[i]) = {}
  BY <1>1 DEF Over
<1>3. ASSUME NEW n \in Ids, NEW i \in DOMAIN doc.node[n].kids
      PROVE  Over(doc.node[n].kids[i]) = Above(n)
  <2> DEFINE k == doc.node[n].kids[i]
  <2>1. k \in Ids
    BY <1>1
  <2>2. n \in ParentsIn(doc, k) /\ ParentsIn(doc, k) \subseteq Ids
    BY DEF ParentsIn, Ids
  <2>3. \A m \in ParentsIn(doc, k) : m = n
    BY <1>1, <2>1, <2>2, Zenon
  <2> HIDE DEF k
  <2>4. ParentsIn(doc, k) = {n}
    BY <2>2, <2>3
  <2> QED BY <2>4 DEF Over, k
<1> QED BY <1>1, <1>2, <1>3, Zenon

LEMMA WalkStarts == CInit => WalkInv
<1> SUFFICES ASSUME CInit PROVE WalkInv
  OBVIOUS
<1>1. doc \in Docs /\ stack = Nodes(doc.roots, <<>>) /\ segments = <<>>
  BY DEF CInit
<1>2. doc.roots \in Seq(Ids) /\ \A i \in DOMAIN doc.roots : Over(doc.roots[i]) = {}
  BY <1>1, DocIs
<1>3. ASSUME NEW i \in DOMAIN doc.roots
      PROVE  [node |-> doc.roots[i], path |-> <<>>] \in Entries
  <2>1. doc.roots[i] \in Ids /\ Over(doc.roots[i]) = {}
    BY <1>2, InSeq, Zenon
  <2>2. <<>> \in Seq(Ids) /\ InPath(<<>>) = {} /\ Titled({}) = {}
    BY DEF InPath, Titled
  <2> QED BY <2>1, <2>2 DEF Entries
<1>4. stack \in Seq(Entries)
  <2>1. stack = [i \in DOMAIN doc.roots |-> [node |-> doc.roots[i], path |-> <<>>]]
    BY <1>1, Zenon DEF Nodes
  <2>2. /\ stack = [i \in DOMAIN doc.roots |-> stack[i]]
        /\ \A i \in DOMAIN doc.roots : stack[i] \in Entries
    BY <1>3, <2>1, Zenon
  <2> QED BY <1>2, <2>2, MapInSeq, Zenon
<1>5. segments \in Seq(Extracts)
  BY <1>1
<1> QED BY <1>1, <1>4, <1>5 DEF WalkInv

\* One node: its parts come behind what has been extracted, its contents before
\* what still waits.
LEMMA VisitKeeps ==
  ASSUME WalkInv, Visit
  PROVE  WalkInv'
<1> DEFINE e == Head(stack)
           n == doc.node[e.node]
           path == IF n.title THEN Append(e.path, e.node) ELSE e.path
           new == [i \in DOMAIN n.parts |-> [node |-> e.node, path |-> path,
                     kind |-> n.parts[i].kind, sizes |-> n.parts[i].sizes]]
           kids == [i \in DOMAIN n.kids |-> [node |-> n.kids[i], path |-> path]]
<1>1. /\ doc \in Docs /\ doc' = doc /\ stack # <<>>
      /\ stack \in Seq(Entries) /\ segments \in Seq(Extracts)
      /\ segments' = segments \o new /\ stack' = kids \o Tail(stack)
  BY Zenon DEF Visit, WalkInv, Nodes
<1>2. e \in Entries /\ Tail(stack) \in Seq(Entries)
  BY <1>1, HeadTail, Zenon
<1>3. e.node \in Ids /\ e.path \in Seq(Ids) /\ InPath(e.path) = Titled(Over(e.node))
  BY <1>2 DEF Entries
<1>4. /\ n.parts \in Seq([kind : Kinds, sizes : Seq(Nat)]) /\ n.kids \in Seq(Ids)
      /\ \A i \in DOMAIN n.kids : Over(n.kids[i]) = Above(e.node)
  BY <1>1, <1>3, DocIs, Zenon
<1>5. Above(e.node) = {e.node} \cup Over(e.node)
  BY <1>1, <1>3, AboveIs, Zenon
<1>6. path \in Seq(Ids) /\ InPath(path) = Titled(Above(e.node))
  <2> DEFINE p == e.path
             o == e.node
  <2>1. p \in Seq(Ids) /\ o \in Ids
    BY <1>3
  <2>2. InPath(Append(p, o)) = InPath(p) \cup {o} /\ Append(p, o) \in Seq(Ids)
    <3> HIDE DEF p, o
    <3>1. /\ Append(p, o) \in Seq(Ids) /\ DOMAIN p = 1 .. Len(p) /\ Len(p) \in Nat
          /\ DOMAIN Append(p, o) = (1 .. Len(p)) \cup {Len(p) + 1}
          /\ Append(p, o)[Len(p) + 1] = o /\ \A i \in 1 .. Len(p) : Append(p, o)[i] = p[i]
      BY <2>1
    <3> QED BY <3>1 DEF InPath
  <2>3. CASE n.title
    <3>1. Titled(Above(e.node)) = Titled(Over(e.node)) \cup {e.node}
      BY <1>5, <2>3 DEF Titled
    <3> QED BY <1>3, <2>2, <2>3, <3>1
  <2>4. CASE ~n.title
    <3>1. Titled(Above(e.node)) = Titled(Over(e.node))
      BY <1>5, <2>4 DEF Titled
    <3> QED BY <1>3, <2>4, <3>1
  <2> QED BY <2>3, <2>4
<1>7. Entries' = Entries /\ Extracts' = Extracts
  <2>1. Ids' = Ids
    BY <1>1 DEF Ids
  <2>2. \A k : Above(k)' = Above(k)
    BY <1>1 DEF Above
  <2>3. \A k : Over(k)' = Over(k)
    BY <1>1, <2>2 DEF Over
  <2>4. \A S : Titled(S)' = Titled(S)
    BY <1>1 DEF Titled
  <2> QED BY <2>1, <2>2, <2>3, <2>4 DEF Entries, Extracts, InPath
<1> HIDE DEF e, n, path
<1>8. new \in Seq(Extracts)
  <2>1. ASSUME NEW i \in DOMAIN n.parts
        PROVE  [node |-> e.node, path |-> path,
                kind |-> n.parts[i].kind, sizes |-> n.parts[i].sizes] \in Extracts
    <3>1. n.parts[i] \in [kind : Kinds, sizes : Seq(Nat)]
      BY <1>4, InSeq, Zenon
    <3> QED BY <1>3, <1>6, <3>1 DEF Extracts
  <2>2. new = [i \in DOMAIN n.parts |-> new[i]] /\ \A i \in DOMAIN n.parts : new[i] \in Extracts
    BY <2>1, Zenon
  <2>3. n.parts \in Seq([kind : Kinds, sizes : Seq(Nat)])
    BY <1>4
  <2> HIDE DEF new
  <2> QED BY <2>2, <2>3, MapInSeq, Zenon
<1>9. kids \in Seq(Entries)
  <2>1. ASSUME NEW i \in DOMAIN n.kids
        PROVE  [node |-> n.kids[i], path |-> path] \in Entries
    <3>1. n.kids[i] \in Ids /\ Over(n.kids[i]) = Above(e.node)
      BY <1>4, InSeq, Zenon
    <3> QED BY <1>6, <3>1 DEF Entries
  <2>2. kids = [i \in DOMAIN n.kids |-> kids[i]] /\ \A i \in DOMAIN n.kids : kids[i] \in Entries
    BY <2>1, Zenon
  <2>3. n.kids \in Seq(Ids)
    BY <1>4
  <2> HIDE DEF kids
  <2> QED BY <2>2, <2>3, MapInSeq, Zenon
<1> HIDE DEF new, kids
<1>10. segments' \in Seq(Extracts) /\ stack' \in Seq(Entries)
  BY <1>1, <1>2, <1>8, <1>9
<1> QED BY <1>1, <1>7, <1>10, Zenon DEF WalkInv
-----------------------------------------------------------------------------
(* The cut.                                                                 *)

Final == chunks[Len(chunks)]
Begun == chunks # <<>> /\ Final.seg = seg        \* the segment has a chunk already
SizesOf(s) == segments[s].sizes
Text(s) == segments[s].kind # "table"

\* The first chunk of a segment, and a chunk behind another of its segment.
FirstOK(c) ==
  /\ c.from = 1
  /\ Text(c.seg) /\ c.tokens > Limit + Tolerance => c.from = c.to
BehindOK(p, c) ==
  /\ p.to < c.to /\ c.from <= p.to + 1
  /\ Text(c.seg) /\ c.tokens > Limit + Tolerance => p.to + 1 = c.to
  /\ Text(c.seg) /\ p.tokens < Limit - Tolerance
       => p.tokens + SizesOf(p.seg)[p.to + 1] > Limit + Tolerance
NextOK(p, c) ==
  \/ p.seg = c.seg /\ BehindOK(p, c)
  \/ p.seg < c.seg /\ p.to = Len(SizesOf(p.seg)) /\ FirstOK(c)

ChunkSet == [seg : Nat \ {0}, from : Nat \ {0}, to : Nat, tokens : Nat]

\* The chunks made so far.
ChunksInv ==
  /\ chunks \in Seq(ChunkSet)
  /\ chunks # <<>> => FirstOK(chunks[1])
  /\ \A k \in 1 .. Len(chunks) : chunks[k].seg <= seg /\ chunks[k].seg <= Len(segments)
  /\ \A k \in 1 .. Len(chunks) : k > 1 => NextOK(chunks[k-1], chunks[k])
  /\ \A k, l \in 1 .. Len(chunks) : k < l => chunks[k].seg <= chunks[l].seg
  /\ \A s \in 1 .. Len(segments) : s < seg =>
       \E k \in 1 .. Len(chunks) : chunks[k].seg = s /\ chunks[k].to = Len(SizesOf(s))

\* The last of them: it ends its segment, or the sentence behind it did not fit.
FinalInv ==
  chunks # <<>> =>
    \/ Final.seg < seg /\ Final.to = Len(SizesOf(Final.seg))
    \/ /\ Final.seg = seg /\ Final.to < Len(SizesOf(seg))
       /\ Final.tokens < Limit - Tolerance
            => Final.tokens + SizesOf(seg)[Final.to + 1] > Limit + Tolerance

\* The chunk being put together has a sentence that no chunk has yet, joins on to
\* the last chunk, and is over the band only by that one sentence.
OpenInv ==
  seg <= Len(segments) =>
    /\ from <= at /\ at <= Len(Sizes) + 1
    /\ at = 1 => ~Begun
    /\ at > 1 => from < at /\ ~Whole
    /\ at > 1 /\ ~Begun => from = 1 /\ (Open > Limit + Tolerance => from = at - 1)
    /\ at > 1 /\ Begun => /\ Final.to < at - 1 /\ from <= Final.to + 1
                          /\ Open > Limit + Tolerance => Final.to + 1 = at - 1

CutInv ==
  /\ cstage \in {"parse", "cut", "done", "failed"}
  /\ seg \in Nat \ {0} /\ from \in Nat \ {0} /\ at \in Nat \ {0}
  /\ cstage \in {"parse", "failed"} => chunks = <<>> /\ seg = 1 /\ from = 1 /\ at = 1
  /\ seg <= Len(segments) + 1
  /\ cstage = "done" => seg = Len(segments) + 1
  /\ ChunksInv /\ FinalInv /\ OpenInv

ChunkingInv == WalkInv /\ CutInv

\* The invariant holds all that the property says.
LEMMA ChunkingInvImplies ==
  ASSUME ChunkingInv
  PROVE  ChunksFaithful
<1>1. /\ chunks \in Seq(ChunkSet) /\ Len(chunks) \in Nat /\ DOMAIN chunks = 1 .. Len(chunks)
      /\ segments \in Seq(Extracts) /\ DOMAIN segments = 1 .. Len(segments)
      /\ \A k \in 1 .. Len(chunks) : chunks[k] \in ChunkSet
      /\ chunks = <<>> <=> Len(chunks) = 0
  BY DEF ChunkingInv, WalkInv, CutInv, ChunksInv
<1>2. /\ chunks # <<>> => FirstOK(chunks[1])
      /\ \A k \in 1 .. Len(chunks) : k > 1 => NextOK(chunks[k-1], chunks[k])
      /\ \A k \in 1 .. Len(chunks) : chunks[k].seg <= seg /\ chunks[k].seg <= Len(segments)
      /\ \A k, l \in 1 .. Len(chunks) : k < l => chunks[k].seg <= chunks[l].seg
      /\ \A s \in 1 .. Len(segments) : s < seg =>
           \E k \in 1 .. Len(chunks) : chunks[k].seg = s /\ chunks[k].to = Len(SizesOf(s))
      /\ cstage = "done" => seg = Len(segments) + 1
  BY Zenon DEF ChunkingInv, CutInv, ChunksInv
<1>3. ASSUME NEW k \in DOMAIN chunks
      PROVE  LET c == chunks[k] IN
             /\ c.from = 1 \/ (k > 1 /\ chunks[k-1].seg = c.seg
                               /\ c.from <= chunks[k-1].to + 1)
             /\ k > 1 /\ chunks[k-1].seg = c.seg => c.to > chunks[k-1].to
             /\ Text(c.seg) /\ c.tokens > Limit + Tolerance => New(k) = c.to
  <2>1. CASE k = 1
    <3>1. FirstOK(chunks[1]) /\ chunks[1] \in ChunkSet
      BY <1>1, <1>2, <2>1
    <3> QED BY <2>1, <3>1 DEF FirstOK, New, ChunkSet
  <2>2. CASE k > 1
    <3>1. NextOK(chunks[k-1], chunks[k])
      BY <1>1, <1>2, <2>2
    <3>2. chunks[k-1] \in ChunkSet /\ chunks[k] \in ChunkSet
      BY <1>1, <2>2
    <3> DEFINE p == chunks[k-1]
               c == chunks[k]
    <3>3. New(k) = IF p.seg = c.seg THEN p.to + 1 ELSE c.from
      BY <2>2 DEF New
    <3> HIDE DEF p, c
    <3>4. NextOK(p, c) /\ p \in ChunkSet /\ c \in ChunkSet
      BY <3>1, <3>2 DEF p, c
    <3>5. /\ c.from = 1 \/ (k > 1 /\ p.seg = c.seg /\ c.from <= p.to + 1)
          /\ k > 1 /\ p.seg = c.seg => c.to > p.to
          /\ Text(c.seg) /\ c.tokens > Limit + Tolerance => New(k) = c.to
      BY <2>2, <3>3, <3>4 DEF NextOK, BehindOK, FirstOK, ChunkSet
    <3> QED BY <3>5 DEF p, c
  <2> QED BY <1>1, <2>1, <2>2
<1>4. ASSUME NEW k \in DOMAIN chunks, k < Len(chunks)
      PROVE  LET c == chunks[k] IN
             /\ chunks[k+1].seg # c.seg => c.to = Len(segments[c.seg].sizes)
             /\ Text(c.seg) /\ chunks[k+1].seg = c.seg /\ c.tokens < Limit - Tolerance
                  => c.tokens + segments[c.seg].sizes[c.to + 1] > Limit + Tolerance
  <2>1. k + 1 \in 1 .. Len(chunks) /\ k + 1 > 1 /\ (k + 1) - 1 = k
    BY <1>1, <1>4
  <2>2. NextOK(chunks[(k+1)-1], chunks[k+1])
    BY <1>2, <2>1, Zenon
  <2>3. NextOK(chunks[k], chunks[k+1])
    BY <2>1, <2>2
  <2> DEFINE c == chunks[k]
             n == chunks[k+1]
  <2>4. c \in ChunkSet /\ n \in ChunkSet
    BY <1>1, <2>1
  <2> HIDE DEF c, n
  <2>5. NextOK(c, n)
    BY <2>3 DEF c, n
  <2>6. /\ n.seg # c.seg => c.to = Len(SizesOf(c.seg))
        /\ Text(c.seg) /\ n.seg = c.seg /\ c.tokens < Limit - Tolerance
             => c.tokens + SizesOf(c.seg)[c.to + 1] > Limit + Tolerance
    BY <2>4, <2>5 DEF NextOK, BehindOK, ChunkSet
  <2> QED BY <2>6 DEF c, n, SizesOf
<1>5. SentencesKept
  <2>1. cstage = "done" => \A s \in DOMAIN segments : \E k \in DOMAIN chunks :
            chunks[k].seg = s /\ chunks[k].to = Len(segments[s].sizes)
    <3> SUFFICES ASSUME cstage = "done", NEW s \in DOMAIN segments
                 PROVE  \E k \in DOMAIN chunks :
                          chunks[k].seg = s /\ chunks[k].to = Len(segments[s].sizes)
      OBVIOUS
    <3>1. s \in 1 .. Len(segments) /\ s < seg
      BY <1>1, <1>2
    <3> QED BY <1>1, <1>2, <3>1 DEF SizesOf
  <2>2. \A k, l \in DOMAIN chunks : k < l => chunks[k].seg <= chunks[l].seg
    BY <1>1, <1>2
  <2>3. \A k \in DOMAIN chunks : LET c == chunks[k] IN
       /\ c.from = 1 \/ /\ k > 1 /\ chunks[k-1].seg = c.seg
                        /\ c.from <= chunks[k-1].to + 1
       /\ k > 1 /\ chunks[k-1].seg = c.seg => c.to > chunks[k-1].to
    BY <1>3, Zenon
  <2>4. \A k \in DOMAIN chunks : LET c == chunks[k] IN
       k < Len(chunks) /\ chunks[k+1].seg # c.seg => c.to = Len(segments[c.seg].sizes)
    BY <1>4, Zenon
  <2> QED BY <2>1, <2>2, <2>3, <2>4, Zenon DEF SentencesKept
<1>6. CutsInBand
  BY <1>3, <1>4, Zenon DEF CutsInBand, Text
<1>7. PathsAreAncestry
  <2> SUFFICES ASSUME NEW s \in DOMAIN segments
               PROVE  InPath(segments[s].path) = Titled(Above(segments[s].node))
    BY DEF PathsAreAncestry, InPath, Titled
  <2>1. segments[s] \in Extracts
    BY <1>1, InSeq, Zenon
  <2> QED BY <2>1 DEF Extracts
<1> QED BY <1>5, <1>6, <1>7 DEF ChunksFaithful

LEMMA TailIn ==
  ASSUME from \in Nat \ {0}, at \in Nat \ {0}, from < at
  PROVE  TailFrom \in from .. at
<1> DEFINE last == at - 1
           fits == {j \in from .. last : Tokens(Sizes, j, last) <= Overlap}
<1>1. last \in from .. at /\ at \in from .. at /\ fits \subseteq from .. at /\ fits \subseteq Nat
  OBVIOUS
<1>2. TailFrom = IF Overlap = 0 \/ Sizes[last] >= Limit THEN at
                 ELSE IF fits = {} THEN last
                 ELSE CHOOSE j \in fits : \A k \in fits : j <= k
  BY DEF TailFrom
<1> HIDE DEF fits, last
<1>3. CASE fits = {}
  BY <1>1, <1>2, <1>3
<1>4. CASE fits # {}
  <2>1. \E j \in fits : \A k \in fits : j <= k
    BY <1>1, <1>4, LeastExists, Zenon
  <2>2. (CHOOSE j \in fits : \A k \in fits : j <= k) \in fits
    BY <2>1
  <2> QED BY <1>1, <1>2, <2>2
<1> QED BY <1>3, <1>4

\* One chunk more.
LEMMA EmitKeeps ==
  ASSUME NEW c \in ChunkSet, ChunksInv, segments \in Seq(Extracts),
         segments' = segments, chunks' = Append(chunks, c),
         seg \in Nat \ {0}, seg' \in Nat \ {0}, seg <= seg', c.seg = seg, seg <= Len(segments),
         chunks = <<>> => FirstOK(c), chunks # <<>> => NextOK(Final, c),
         seg' = seg \/ (seg' = seg + 1 /\ c.to = Len(SizesOf(seg)))
  PROVE  ChunksInv'
<1> DEFINE n == Len(chunks)
<1>1. /\ chunks \in Seq(ChunkSet) /\ n \in Nat /\ chunks' \in Seq(ChunkSet) /\ Len(chunks') = n + 1
      /\ \A k \in 1 .. n : chunks'[k] = chunks[k] /\ chunks[k] \in ChunkSet
      /\ chunks'[n + 1] = c
      /\ 1 .. n + 1 = (1 .. n) \cup {n + 1}
      /\ chunks = <<>> <=> n = 0
      /\ chunks' # <<>>
  BY DEF ChunksInv
<1>2. /\ chunks # <<>> => FirstOK(chunks[1])
      /\ \A k \in 1 .. n : chunks[k].seg <= seg /\ chunks[k].seg <= Len(segments)
      /\ \A k \in 1 .. n : k > 1 => NextOK(chunks[k-1], chunks[k])
      /\ \A k, l \in 1 .. n : k < l => chunks[k].seg <= chunks[l].seg
      /\ \A s \in 1 .. Len(segments) : s < seg =>
           \E k \in 1 .. n : chunks[k].seg = s /\ chunks[k].to = Len(SizesOf(s))
  BY Zenon DEF ChunksInv
<1>3. /\ \A s : SizesOf(s)' = SizesOf(s) /\ Text(s)' = Text(s)
      /\ \A x : FirstOK(x)' <=> FirstOK(x)
      /\ \A x, y : NextOK(x, y)' <=> NextOK(x, y)
  <2>1. \A s : SizesOf(s)' = SizesOf(s) /\ Text(s)' = Text(s)
    BY DEF SizesOf, Text
  <2>2. \A x : FirstOK(x)' <=> FirstOK(x)
    BY <2>1, Zenon DEF FirstOK
  <2>3. \A x, y : BehindOK(x, y)' <=> BehindOK(x, y)
    BY <2>1, Zenon DEF BehindOK
  <2> QED BY <2>1, <2>2, <2>3, Zenon DEF NextOK
<1>4. FirstOK(chunks'[1])
  <2>1. CASE n = 0
    BY <1>1, <2>1
  <2>2. CASE n # 0
    <3>1. 1 \in 1 .. n
      BY <1>1, <2>2
    <3> QED BY <1>1, <1>2, <2>2, <3>1
  <2> QED BY <2>1, <2>2
<1>5. ASSUME NEW k \in 1 .. n + 1, k > 1
      PROVE  NextOK(chunks'[k-1], chunks'[k])
  <2>1. CASE k = n + 1
    <3>1. k - 1 = n /\ n \in 1 .. n /\ chunks # <<>>
      BY <1>1, <1>5, <2>1
    <3>2. chunks'[k-1] = Final
      BY <1>1, <3>1 DEF Final
    <3> QED BY <1>1, <2>1, <3>1, <3>2
  <2>2. CASE k \in 1 .. n
    <3>1. k - 1 \in 1 .. n
      BY <1>5, <2>2
    <3>2. chunks'[k-1] = chunks[k-1] /\ chunks'[k] = chunks[k]
      BY <1>1, <2>2, <3>1
    <3> QED BY <1>2, <1>5, <2>2, <3>2
  <2> QED BY <1>1, <2>1, <2>2
<1>6. ASSUME NEW k \in 1 .. n + 1
      PROVE  chunks'[k].seg <= seg' /\ chunks'[k].seg <= Len(segments)
  <2>1. CASE k = n + 1
    BY <1>1, <2>1
  <2>2. CASE k \in 1 .. n
    <3>1. chunks[k].seg <= seg /\ chunks[k].seg <= Len(segments) /\ chunks[k].seg \in Nat
          /\ chunks'[k] = chunks[k]
      BY <1>1, <1>2, <2>2 DEF ChunkSet
    <3> QED BY <3>1
  <2> QED BY <1>1, <2>1, <2>2
<1>7. ASSUME NEW k \in 1 .. n + 1, NEW l \in 1 .. n + 1, k < l
      PROVE  chunks'[k].seg <= chunks'[l].seg
  <2>1. k \in 1 .. n /\ chunks'[k] = chunks[k]
    BY <1>1, <1>7
  <2>2. CASE l = n + 1
    BY <1>1, <1>2, <2>1, <2>2
  <2>3. CASE l \in 1 .. n
    <3>1. chunks'[l] = chunks[l] /\ chunks[k].seg <= chunks[l].seg
      BY <1>1, <1>2, <1>7, <2>1, <2>3
    <3> QED BY <2>1, <3>1
  <2> QED BY <1>1, <2>2, <2>3
<1>8. ASSUME NEW s \in 1 .. Len(segments), s < seg'
      PROVE  \E k \in 1 .. n + 1 : chunks'[k].seg = s /\ chunks'[k].to = Len(SizesOf(s))
  <2>1. CASE s < seg
    <3>1. PICK k \in 1 .. n : chunks[k].seg = s /\ chunks[k].to = Len(SizesOf(s))
      BY <1>2, <2>1
    <3>2. k \in 1 .. n + 1 /\ chunks'[k] = chunks[k]
      BY <1>1, <3>1
    <3> QED BY <3>1, <3>2
  <2>2. CASE s = seg
    <3>1. c.to = Len(SizesOf(seg))
      BY <1>8, <2>2
    <3>2. n + 1 \in 1 .. n + 1
      BY <1>1
    <3> QED BY <1>1, <2>2, <3>1, <3>2
  <2> QED BY <1>8, <2>1, <2>2
<1> HIDE DEF n
<1>9. (chunks # <<>> => FirstOK(chunks[1]))'
  BY <1>3, <1>4, Zenon
<1>10. (\A k \in 1 .. Len(chunks) : k > 1 => NextOK(chunks[k-1], chunks[k]))'
  BY <1>1, <1>3, <1>5, Zenon
<1>11. (\A s \in 1 .. Len(segments) : s < seg =>
          \E k \in 1 .. Len(chunks) : chunks[k].seg = s /\ chunks[k].to = Len(SizesOf(s)))'
  BY <1>1, <1>3, <1>8, Zenon
<1>12. (\A k \in 1 .. Len(chunks) : chunks[k].seg <= seg /\ chunks[k].seg <= Len(segments))'
  BY <1>1, <1>6, Zenon
<1>13. (\A k, l \in 1 .. Len(chunks) : k < l => chunks[k].seg <= chunks[l].seg)'
  BY <1>1, <1>7, Zenon
<1>14. (chunks \in Seq(ChunkSet))'
  BY <1>1 DEF ChunkSet
<1> QED BY <1>9, <1>10, <1>11, <1>12, <1>13, <1>14, Zenon DEF ChunksInv

\* While the walk goes on nothing is cut.
LEMMA EmptyCut ==
  ASSUME chunks = <<>>, seg = 1, from = 1, at = 1, segments \in Seq(Extracts)
  PROVE  ChunksInv /\ FinalInv /\ OpenInv
<1>1. Len(segments) \in Nat
  OBVIOUS
<1>2. ASSUME 1 <= Len(segments) PROVE Len(Sizes) \in Nat
  <2>1. segments[1] \in Extracts
    BY <1>1, <1>2
  <2> QED BY <2>1 DEF Sizes, Extracts
<1>3. OpenInv
  BY <1>1, <1>2 DEF OpenInv, Begun
<1>4. FinalInv
  BY DEF FinalInv
<1>5. ChunksInv
  BY <1>1 DEF ChunksInv
<1> QED BY <1>3, <1>4, <1>5

LEMMA CutStarts == CInit => CutInv
<1> SUFFICES ASSUME CInit PROVE CutInv
  OBVIOUS
<1>1. chunks = <<>> /\ segments = <<>> /\ seg = 1 /\ from = 1 /\ at = 1 /\ cstage = "parse"
  BY DEF CInit
<1>2. ChunksInv /\ FinalInv /\ OpenInv
  BY <1>1, EmptyCut
<1>3. Len(segments) = 0
  BY <1>1
<1> QED BY <1>1, <1>2, <1>3 DEF CutInv

\* What the cut knows of the segment at hand.
LEMMA AtHand ==
  ASSUME ChunkingInv, Cutting
  PROVE  /\ Sizes \in Seq(Nat) /\ Len(Sizes) \in Nat /\ Sizes = SizesOf(seg)
         /\ seg \in 1 .. Len(segments) /\ Len(segments) \in Nat
         /\ from \in Nat \ {0} /\ at \in Nat \ {0}
         /\ from <= at /\ at <= Len(Sizes) + 1
         /\ Open \in Nat
         /\ ~Whole => Text(seg) /\ 1 <= Len(Sizes)
<1>1. /\ segments \in Seq(Extracts) /\ seg \in Nat \ {0} /\ seg <= Len(segments)
      /\ from \in Nat \ {0} /\ at \in Nat \ {0}
      /\ from <= at /\ at <= Len(Sizes) + 1
  BY Zenon DEF ChunkingInv, WalkInv, CutInv, OpenInv, Cutting
<1>2. seg \in 1 .. Len(segments) /\ Len(segments) \in Nat /\ segments[seg] \in Extracts
  BY <1>1
<1>3. Sizes \in Seq(Nat) /\ Sizes = SizesOf(seg)
  BY <1>2 DEF Sizes, SizesOf, Extracts
<1>4. Len(Sizes) \in Nat
  BY <1>3
<1>5. at - 1 \in Nat /\ from - 1 <= at - 1 /\ at - 1 <= Len(Sizes)
  BY <1>1, <1>4
<1>6. Open \in Nat
  BY <1>1, <1>3, <1>5, TokensNat, Zenon DEF Open
<1>7. ASSUME ~Whole PROVE Text(seg) /\ 1 <= Len(Sizes)
  <2>1. Text(seg) /\ ~(Tokens(Sizes, 1, Len(Sizes)) <= Limit)
    BY <1>7 DEF Whole, Text
  <2>2. Tokens(Sizes, 1, 1 - 1) = 0
    BY TokensNone
  <2>3. 1 - 1 = 0 /\ 0 <= Limit
    BY ChunkingAssumption
  <2>4. Len(Sizes) # 0
    BY <2>1, <2>2, <2>3, Zenon
  <2> QED BY <1>4, <2>1, <2>4
<1> QED BY <1>1, <1>2, <1>3, <1>4, <1>6, <1>7

\* The parts of the invariant that no step of the cut touches.
LEMMA CutFrame ==
  ASSUME ChunkingInv, UNCHANGED <<doc, stack, segments>>
  PROVE  /\ WalkInv' /\ Extracts' = Extracts
         /\ \A s : SizesOf(s)' = SizesOf(s) /\ Text(s)' = Text(s)
<1>1. Entries' = Entries /\ Extracts' = Extracts
  <2>1. Ids' = Ids
    BY DEF Ids
  <2>2. \A k : Above(k)' = Above(k)
    BY DEF Above
  <2>3. \A k : Over(k)' = Over(k)
    BY <2>2 DEF Over
  <2>4. \A S : Titled(S)' = Titled(S)
    BY DEF Titled
  <2> QED BY <2>1, <2>2, <2>3, <2>4 DEF Entries, Extracts, InPath
<1>2. WalkInv'
  BY <1>1, Zenon DEF ChunkingInv, WalkInv
<1> QED BY <1>1, <1>2 DEF SizesOf, Text

\* The last chunk, when it is of an earlier segment, has ended it.
LEMMA FinalIs ==
  ASSUME ChunkingInv, chunks # <<>>
  PROVE  /\ Len(chunks) \in Nat \ {0} /\ Final \in ChunkSet
         /\ \/ Begun /\ Final.to < Len(SizesOf(seg))
               /\ (Final.tokens < Limit - Tolerance
                     => Final.tokens + SizesOf(seg)[Final.to + 1] > Limit + Tolerance)
            \/ ~Begun /\ Final.seg < seg /\ Final.to = Len(SizesOf(Final.seg))
<1>1. chunks \in Seq(ChunkSet) /\ FinalInv /\ seg \in Nat
  BY DEF ChunkingInv, CutInv, ChunksInv
<1>2. Len(chunks) \in Nat \ {0} /\ chunks[Len(chunks)] \in ChunkSet
  BY <1>1
<1>3. Final \in ChunkSet /\ Final.seg \in Nat
  BY <1>2 DEF Final, ChunkSet
<1> QED BY <1>1, <1>2, <1>3 DEF FinalInv, Begun

\* The last chunk of a segment is made, and the next segment taken up.
LEMMA NextSegmentKeeps ==
  ASSUME ChunkingInv, Cutting, NEW c \in ChunkSet, chunks' = Append(chunks, c),
         c.seg = seg, c.to = Len(SizesOf(seg)),
         chunks = <<>> => FirstOK(c), chunks # <<>> => NextOK(Final, c),
         seg' = seg + 1, from' = 1, at' = 1, UNCHANGED <<doc, stack, segments, cstage>>
  PROVE  CutInv'
<1>1. /\ Sizes \in Seq(Nat) /\ Len(Sizes) \in Nat /\ Sizes = SizesOf(seg)
      /\ seg \in 1 .. Len(segments) /\ Len(segments) \in Nat
  BY AtHand
<1>2. /\ WalkInv' /\ segments' \in Seq(Extracts') /\ segments \in Seq(Extracts)
      /\ \A s : SizesOf(s)' = SizesOf(s)
  BY CutFrame DEF WalkInv, ChunkingInv
<1>3. ChunksInv'
  <2>1. ChunksInv /\ seg \in Nat \ {0} /\ seg' \in Nat \ {0} /\ seg <= seg' /\ seg <= Len(segments)
    BY <1>1 DEF ChunkingInv, CutInv
  <2> QED BY <1>2, <2>1, EmitKeeps
<1>4. chunks' # <<>> /\ Final' = c
  <2>1. chunks \in Seq(ChunkSet)
    BY DEF ChunkingInv, CutInv, ChunksInv
  <2> QED BY <2>1 DEF Final
<1>5. FinalInv' /\ ~Begun'
  BY <1>1, <1>2, <1>4 DEF FinalInv, Begun
<1>6. OpenInv'
  <2>1. ASSUME seg' <= Len(segments') PROVE Len(Sizes') \in Nat
    <3>1. seg' \in 1 .. Len(segments) /\ segments' = segments
      BY <1>1, <2>1
    <3>2. segments[seg'] \in Extracts
      BY <1>2, <3>1
    <3>3. Sizes' = segments[seg'].sizes
      BY <3>1 DEF Sizes
    <3> QED BY <3>2, <3>3 DEF Extracts
  <2> QED BY <1>5, <2>1 DEF OpenInv
<1>7. /\ cstage' = "cut" /\ seg' <= Len(segments') + 1 /\ seg' \in Nat \ {0}
       /\ from' \in Nat \ {0} /\ at' \in Nat \ {0}
  BY <1>1 DEF Cutting
<1> QED BY <1>3, <1>5, <1>6, <1>7 DEF CutInv

\* A segment that is one chunk.
LEMMA WholeKeeps ==
  ASSUME ChunkingInv, WholeSegment
  PROVE  CutInv'
<1> DEFINE c == [seg |-> seg, from |-> 1, to |-> Len(Sizes), tokens |-> Tokens(Sizes, 1, Len(Sizes))]
<1>1. /\ Cutting /\ Whole /\ chunks' = Append(chunks, c)
      /\ seg' = seg + 1 /\ from' = 1 /\ at' = 1
      /\ UNCHANGED <<doc, stack, segments, cstage>>
  BY Zenon DEF WholeSegment, Emit, NextSegment
<1>2. /\ Sizes \in Seq(Nat) /\ Len(Sizes) \in Nat /\ Sizes = SizesOf(seg)
      /\ seg \in 1 .. Len(segments) /\ Len(segments) \in Nat
      /\ at \in Nat \ {0}
  BY <1>1, AtHand
<1>3. c \in ChunkSet
  <2>1. Tokens(Sizes, 1, Len(Sizes)) \in Nat
    BY <1>2, TokensNat
  <2> QED BY <1>2, <2>1 DEF ChunkSet
<1>4. ~Begun
  BY <1>1, <1>2 DEF ChunkingInv, CutInv, OpenInv
<1>5. FirstOK(c)
  <2>1. Text(seg) => Tokens(Sizes, 1, Len(Sizes)) <= Limit
    BY <1>1 DEF Whole, Text
  <2>2. Tokens(Sizes, 1, Len(Sizes)) \in Nat
    BY <1>2, TokensNat
  <2> QED BY <2>1, <2>2, ChunkingAssumption DEF FirstOK
<1>6. /\ c.seg = seg /\ c.to = Len(SizesOf(seg))
  BY <1>2
<1> HIDE DEF c
<1>7. chunks # <<>> => NextOK(Final, c)
  <2> SUFFICES ASSUME chunks # <<>> PROVE NextOK(Final, c)
    OBVIOUS
  <2>1. Final.seg < seg /\ Final.to = Len(SizesOf(Final.seg))
    BY <1>4, FinalIs
  <2> QED BY <1>5, <1>6, <2>1 DEF NextOK
<1> QED BY <1>1, <1>3, <1>5, <1>6, <1>7, NextSegmentKeeps

\* A sentence joins the open chunk.
LEMMA AddKeeps ==
  ASSUME ChunkingInv, AddSentence
  PROVE  CutInv'
<1>1. /\ Cutting /\ ~Whole /\ at <= Len(Sizes) /\ ~ShouldFinalise /\ at' = at + 1
      /\ UNCHANGED <<doc, stack, segments, seg, from, chunks, cstage>>
  BY Zenon DEF AddSentence
<1>2. /\ Sizes \in Seq(Nat) /\ Len(Sizes) \in Nat /\ Open \in Nat
      /\ from \in Nat \ {0} /\ at \in Nat \ {0} /\ from <= at
      /\ seg <= Len(segments)
  BY <1>1, AtHand
<1>3. /\ ChunksInv /\ FinalInv /\ OpenInv
      /\ cstage \in {"parse", "cut", "done", "failed"} /\ seg \in Nat \ {0}
      /\ seg <= Len(segments) + 1 /\ cstage = "cut"
  BY <1>1 DEF ChunkingInv, CutInv, Cutting
<1>4. /\ Sizes' = Sizes /\ Whole' = Whole /\ Final' = Final /\ Begun' = Begun
      /\ ChunksInv' = ChunksInv /\ FinalInv' = FinalInv
  BY <1>1 DEF Sizes, SizesOf, Whole, Final, Begun, ChunksInv, FinalInv, ChunkSet,
              FirstOK, NextOK, BehindOK, Text
<1>5. Open' = Open + Sizes[at] /\ Sizes[at] \in Nat
  <2>1. at - 1 \in Nat /\ from - 1 <= at - 1 /\ (at - 1) + 1 = at /\ at' - 1 = at
    BY <1>1, <1>2
  <2>2. Tokens(Sizes, from, (at - 1) + 1) = Tokens(Sizes, from, at - 1) + Sizes[(at - 1) + 1]
    BY <1>2, <2>1, TokensOneMore, Zenon
  <2>3. Open' = Tokens(Sizes, from, at)
    BY <1>1, <1>4, <2>1, Zenon DEF Open
  <2>4. Open' = Open + Sizes[at]
    BY <2>1, <2>2, <2>3 DEF Open
  <2>5. Sizes[at] \in Nat
    BY <1>1, <1>2
  <2> QED BY <2>4, <2>5
<1>6. from < at => Open' <= Limit + Tolerance
  <2>1. from < at => ~(Open + Sizes[at] > Limit + Tolerance)
    BY <1>1 DEF ShouldFinalise
  <2> QED BY <1>2, <1>5, <2>1, ChunkingAssumption
<1>7. OpenInv'
  <2>1. /\ from <= at /\ at = 1 => ~Begun
        /\ at > 1 => from < at
        /\ at > 1 /\ ~Begun => from = 1
        /\ at > 1 /\ Begun => Final.to < at - 1 /\ from <= Final.to + 1
    BY <1>2, <1>3 DEF OpenInv
  <2>2. Begun => Final.to \in Nat
    <3> SUFFICES ASSUME Begun PROVE Final.to \in Nat
      OBVIOUS
    <3>1. Final \in ChunkSet
      BY FinalIs DEF Begun
    <3> QED BY <3>1 DEF ChunkSet
  <2>3. from' = from /\ at' = at + 1 /\ at' > 1 /\ from' < at' /\ at' <= Len(Sizes') + 1
    BY <1>1, <1>2, <1>4
  <2>4. ~Begun => from' = 1 /\ (Open' > Limit + Tolerance => from' = at' - 1)
    <3>1. CASE at = 1
      BY <1>2, <2>1, <2>3, <3>1
    <3>2. CASE at > 1
      BY <1>2, <1>5, <1>6, <2>1, <2>3, <3>2, ChunkingAssumption
    <3> QED BY <1>2, <3>1, <3>2
  <2>5. Begun => /\ Final.to < at' - 1 /\ from' <= Final.to + 1
                 /\ Open' > Limit + Tolerance => Final.to + 1 = at' - 1
    <3> SUFFICES ASSUME Begun PROVE /\ Final.to < at' - 1 /\ from' <= Final.to + 1
                                    /\ Open' > Limit + Tolerance => Final.to + 1 = at' - 1
      OBVIOUS
    <3>1. at > 1
      BY <1>2, <2>1
    <3>2. Final.to < at' - 1 /\ from' <= Final.to + 1
      BY <1>2, <2>1, <2>2, <2>3, <3>1
    <3>3. ~(Open' > Limit + Tolerance)
      BY <1>2, <1>5, <1>6, <2>1, <3>1, ChunkingAssumption
    <3> QED BY <3>2, <3>3
  <2>6. ~Whole' /\ at' # 1 /\ from' <= at' /\ Final'.to = Final.to
    BY <1>1, <1>2, <1>4, <2>3
  <2> QED BY <1>4, <2>3, <2>4, <2>5, <2>6 DEF OpenInv
<1> QED BY <1>1, <1>2, <1>3, <1>4, <1>7 DEF CutInv

\* The open chunk as a chunk: what finishing it appends.
OpenChunk(to) == [seg |-> seg, from |-> from, to |-> to, tokens |-> Tokens(Sizes, from, to)]

LEMMA OpenChunkOK ==
  ASSUME ChunkingInv, Cutting, ~Whole, at > 1
  PROVE  LET c == OpenChunk(at - 1)
         IN  /\ c \in ChunkSet /\ c.seg = seg /\ c.to = at - 1 /\ c.tokens = Open
             /\ chunks = <<>> => FirstOK(c)
             /\ chunks # <<>> => NextOK(Final, c)
<1> DEFINE c == OpenChunk(at - 1)
<1>1. /\ Sizes \in Seq(Nat) /\ Len(Sizes) \in Nat /\ Open \in Nat /\ Sizes = SizesOf(seg)
      /\ from \in Nat \ {0} /\ at \in Nat \ {0} /\ seg \in Nat \ {0}
      /\ seg <= Len(segments)
  BY AtHand DEF ChunkingInv, CutInv
<1>2. /\ c.seg = seg /\ c.from = from /\ c.to = at - 1 /\ c.tokens = Open /\ c \in ChunkSet
  BY <1>1 DEF OpenChunk, Open, ChunkSet
<1>3. /\ ~Begun => from = 1 /\ (Open > Limit + Tolerance => from = at - 1)
      /\ Begun => /\ Final.to < at - 1 /\ from <= Final.to + 1
                  /\ Open > Limit + Tolerance => Final.to + 1 = at - 1
  BY <1>1 DEF ChunkingInv, CutInv, OpenInv
<1> HIDE DEF c
<1>4. ~Begun => FirstOK(c)
  BY <1>2, <1>3 DEF FirstOK
<1>5. ASSUME chunks # <<>> PROVE NextOK(Final, c)
  <2>1. CASE Begun
    <3>1. /\ Final.seg = seg
          /\ Final.tokens < Limit - Tolerance
               => Final.tokens + SizesOf(seg)[Final.to + 1] > Limit + Tolerance
      BY <1>5, <2>1, FinalIs DEF Begun
    <3>2. BehindOK(Final, c)
      BY <1>2, <1>3, <2>1, <3>1 DEF BehindOK
    <3> QED BY <1>2, <3>1, <3>2 DEF NextOK
  <2>2. CASE ~Begun
    <3>1. Final.seg < seg /\ Final.to = Len(SizesOf(Final.seg))
      BY <1>5, <2>2, FinalIs
    <3> QED BY <1>2, <1>4, <2>2, <3>1 DEF NextOK
  <2> QED BY <2>1, <2>2
<1>6. chunks = <<>> => FirstOK(c)
  BY <1>4 DEF Begun
<1> QED BY <1>2, <1>5, <1>6 DEF c

\* The open chunk is finished and the next begins with its tail.
LEMMA FinaliseKeeps ==
  ASSUME ChunkingInv, Finalise
  PROVE  CutInv'
<1> DEFINE c == OpenChunk(at - 1)
<1>1. /\ Cutting /\ ~Whole /\ at <= Len(Sizes) /\ ShouldFinalise /\ at' = at + 1
      /\ chunks' = Append(chunks, c) /\ from' = TailFrom
      /\ UNCHANGED <<doc, stack, segments, seg, cstage>>
  BY Zenon DEF Finalise, Emit, OpenChunk
<1>2. /\ Sizes \in Seq(Nat) /\ Len(Sizes) \in Nat /\ Open \in Nat /\ Sizes = SizesOf(seg)
      /\ from \in Nat \ {0} /\ at \in Nat \ {0}
      /\ seg \in Nat \ {0} /\ seg <= Len(segments)
  BY <1>1, AtHand
<1>3. from < at /\ at > 1
  BY <1>1, <1>2 DEF ShouldFinalise
<1>4. from' \in from .. at
  BY <1>1, <1>2, <1>3, TailIn
<1>5. /\ c \in ChunkSet /\ c.seg = seg /\ c.to = at - 1 /\ c.tokens = Open
      /\ chunks = <<>> => FirstOK(c)
      /\ chunks # <<>> => NextOK(Final, c)
  BY <1>1, <1>3, OpenChunkOK, Zenon
<1> HIDE DEF c
<1>6. /\ segments \in Seq(Extracts) /\ ChunksInv /\ cstage = "cut"
      /\ seg <= Len(segments) + 1 /\ \A s : SizesOf(s)' = SizesOf(s)
  BY <1>1, CutFrame DEF ChunkingInv, WalkInv, CutInv, Cutting
<1>7. ChunksInv'
  <2>1. seg <= seg' /\ seg' = seg /\ seg' \in Nat \ {0} /\ segments' = segments
    BY <1>1, <1>2
  <2> QED BY <1>1, <1>2, <1>5, <1>6, <2>1, EmitKeeps
<1>8. chunks' # <<>> /\ Final' = c
  <2>1. chunks \in Seq(ChunkSet)
    BY <1>6 DEF ChunksInv
  <2> QED BY <1>1, <1>5, <2>1 DEF Final
<1>9. FinalInv'
  <2>1. Open < Limit - Tolerance => Open + Sizes[at] > Limit + Tolerance
    <3>1. Sizes[at] \in Nat
      BY <1>1, <1>2
    <3> QED BY <1>1, <1>2, <3>1, ChunkingAssumption DEF ShouldFinalise
  <2>2. c.to < Len(Sizes) /\ c.to + 1 = at
    BY <1>1, <1>2, <1>5
  <2> QED BY <1>1, <1>2, <1>5, <1>6, <1>8, <2>1, <2>2 DEF FinalInv
<1>10. OpenInv'
  <2>1. Begun' /\ Sizes' = Sizes /\ ~Whole'
    BY <1>1, <1>5, <1>8 DEF Begun, Sizes, Whole
  <2>2. /\ Final'.to = at - 1 /\ at' = at + 1 /\ at' > 1 /\ from' \in Nat /\ from' < at'
        /\ at' <= Len(Sizes) + 1 /\ Final'.to < at' - 1 /\ from' <= Final'.to + 1
        /\ Final'.to + 1 = at' - 1
    BY <1>1, <1>2, <1>4, <1>5, <1>8
  <2> QED BY <2>1, <2>2 DEF OpenInv
<1>11. from' \in Nat \ {0} /\ at' \in Nat \ {0}
  BY <1>1, <1>2, <1>4
<1> QED BY <1>1, <1>2, <1>6, <1>7, <1>9, <1>10, <1>11 DEF CutInv

\* The last chunk of a segment.
LEMMA FlushKeeps ==
  ASSUME ChunkingInv, Flush
  PROVE  CutInv'
<1> DEFINE c == OpenChunk(at - 1)
<1>1. /\ Cutting /\ ~Whole /\ at > Len(Sizes)
      /\ chunks' = Append(chunks, OpenChunk(Len(Sizes)))
      /\ seg' = seg + 1 /\ from' = 1 /\ at' = 1
      /\ UNCHANGED <<doc, stack, segments, cstage>>
  BY Zenon DEF Flush, Emit, NextSegment, OpenChunk
<1>2. /\ Sizes \in Seq(Nat) /\ Len(Sizes) \in Nat /\ Sizes = SizesOf(seg)
      /\ seg \in 1 .. Len(segments) /\ Len(segments) \in Nat
      /\ at \in Nat \ {0} /\ at <= Len(Sizes) + 1 /\ 1 <= Len(Sizes)
  BY <1>1, AtHand
<1>3. at > 1 /\ Len(Sizes) = at - 1
  BY <1>1, <1>2
<1>4. chunks' = Append(chunks, c)
  BY <1>1, <1>3
<1>5. /\ c \in ChunkSet /\ c.seg = seg /\ c.to = Len(SizesOf(seg))
      /\ chunks = <<>> => FirstOK(c)
      /\ chunks # <<>> => NextOK(Final, c)
  BY <1>1, <1>2, <1>3, OpenChunkOK
<1> HIDE DEF c
<1> QED BY <1>1, <1>4, <1>5, NextSegmentKeeps

\* Each step of the walk and of the cut keeps the invariant.
LEMMA ChunkingStep ==
  ASSUME ChunkingInv, [CNext]_cvars
  PROVE  ChunkingInv'
<1>1. CASE Visit
  <2>1. WalkInv'
    BY <1>1, VisitKeeps DEF ChunkingInv
  <2>2. /\ chunks' = <<>> /\ seg' = 1 /\ from' = 1 /\ at' = 1 /\ cstage' = "parse"
    BY <1>1 DEF Visit, ChunkingInv, CutInv
  <2>3. (chunks = <<>> /\ seg = 1 /\ from = 1 /\ at = 1 /\ segments \in Seq(Extracts))'
    BY <2>1, <2>2 DEF WalkInv
  <2>4. (ChunksInv /\ FinalInv /\ OpenInv)'
    BY <2>3, EmptyCut, PTL
  <2>5. Len(segments') \in Nat
    BY <2>3
  <2> QED BY <2>1, <2>2, <2>4, <2>5 DEF ChunkingInv, CutInv
<1>2. CASE EndParse
  <2>1. /\ UNCHANGED <<doc, stack, segments, seg, from, at, chunks>>
        /\ cstage = "parse" /\ cstage' \in {"failed", "cut"}
    BY <1>2 DEF EndParse
  <2>2. WalkInv' /\ \A s : SizesOf(s)' = SizesOf(s) /\ Text(s)' = Text(s)
    BY <2>1, CutFrame
  <2>3. ChunksInv' = ChunksInv /\ FinalInv' = FinalInv /\ OpenInv' = OpenInv
    BY <2>1, <2>2 DEF ChunksInv, FinalInv, OpenInv, FirstOK, NextOK, BehindOK, ChunkSet,
                      Final, Begun, Sizes, Whole, Open
  <2> QED BY <2>1, <2>2, <2>3 DEF ChunkingInv, CutInv
<1>3. CASE EndCut
  <2>1. /\ UNCHANGED <<doc, stack, segments, seg, from, at, chunks>>
        /\ cstage = "cut" /\ cstage' = "done" /\ seg > Len(segments)
    BY <1>3 DEF EndCut
  <2>2. WalkInv' /\ \A s : SizesOf(s)' = SizesOf(s) /\ Text(s)' = Text(s)
    BY <2>1, CutFrame
  <2>3. ChunksInv' = ChunksInv /\ FinalInv' = FinalInv /\ OpenInv' = OpenInv
    BY <2>1, <2>2 DEF ChunksInv, FinalInv, OpenInv, FirstOK, NextOK, BehindOK, ChunkSet,
                      Final, Begun, Sizes, Whole, Open
  <2>4. Len(segments) \in Nat /\ seg \in Nat /\ seg <= Len(segments) + 1
    <3>1. segments \in Seq(Extracts) /\ seg \in Nat /\ seg <= Len(segments) + 1
      BY DEF ChunkingInv, WalkInv, CutInv
    <3> QED BY <3>1
  <2>5. seg = Len(segments) + 1
    BY <2>1, <2>4
  <2> QED BY <2>1, <2>2, <2>3, <2>5 DEF ChunkingInv, CutInv
<1>4. CASE WholeSegment \/ AddSentence \/ Finalise \/ Flush
  <2>1. UNCHANGED <<doc, stack, segments>>
    BY <1>4 DEF WholeSegment, AddSentence, Finalise, Flush
  <2>2. WalkInv'
    BY <2>1, CutFrame
  <2>3. CutInv'
    BY <1>4, WholeKeeps, AddKeeps, FinaliseKeeps, FlushKeeps
  <2> QED BY <2>2, <2>3 DEF ChunkingInv
<1>5. CASE UNCHANGED cvars
  <2>1. UNCHANGED <<doc, stack, segments, seg, from, at, chunks, cstage>>
    BY <1>5 DEF cvars
  <2>2. WalkInv' /\ \A s : SizesOf(s)' = SizesOf(s) /\ Text(s)' = Text(s)
    BY <2>1, CutFrame
  <2>3. ChunksInv' = ChunksInv /\ FinalInv' = FinalInv /\ OpenInv' = OpenInv
    BY <2>1, <2>2 DEF ChunksInv, FinalInv, OpenInv, FirstOK, NextOK, BehindOK, ChunkSet,
                      Final, Begun, Sizes, Whole, Open
  <2> QED BY <2>1, <2>2, <2>3 DEF ChunkingInv, CutInv
<1> QED BY <1>1, <1>2, <1>3, <1>4, <1>5 DEF CNext

\* The walk carries exactly the titles above a node, the cut loses no sentence.
THEOREM ChunkingInvariant == CSpec => []ChunkingInv
<1>1. CInit => ChunkingInv
  BY WalkStarts, CutStarts DEF ChunkingInv
<1>2. ChunkingInv /\ [CNext]_cvars => ChunkingInv'
  BY ChunkingStep
<1> QED BY <1>1, <1>2, PTL DEF CSpec

\* ChunksFaithful, for every document, limit, tolerance and overlap.
THEOREM ChunkingFaithful == CSpec => []ChunksFaithful
<1>1. ChunkingInv => ChunksFaithful
  BY ChunkingInvImplies
<1> QED BY <1>1, ChunkingInvariant, PTL

-----------------------------------------------------------------------------
(* The sieve: what passes, in which order, and what keeps the rest out.     *)

LEMMA AmongNat ==
  ASSUME NEW T, NEW t \in Seq(T), NEW S
  PROVE  Among(t, S) \in Nat /\ IsFiniteSet({i \in DOMAIN t : t[i] \in S})
<1>1. DOMAIN t = 1 .. Len(t) /\ 1 \in Int /\ Len(t) \in Int
  OBVIOUS
<1>2. IsFiniteSet(DOMAIN t)
  BY <1>1, FS_Interval, Zenon
<1>3. IsFiniteSet({i \in DOMAIN t : t[i] \in S})
  BY <1>2, FS_Subset
<1> QED BY <1>3, FS_CardinalityType, Zenon DEF Among

\* One element more.
LEMMA AmongAppend ==
  ASSUME NEW T, NEW t \in Seq(T), NEW x, NEW S
  PROVE  /\ x \in S => Among(Append(t, x), S) = Among(t, S) + 1
         /\ x \notin S => Among(Append(t, x), S) = Among(t, S)
<1> DEFINE A == {i \in DOMAIN t : t[i] \in S}
           B == {i \in DOMAIN Append(t, x) : Append(t, x)[i] \in S}
           n == Len(t) + 1
<1>1. IsFiniteSet(A)
  BY AmongNat
<1>2. /\ DOMAIN Append(t, x) = DOMAIN t \cup {n} /\ n \notin DOMAIN t
      /\ Append(t, x)[n] = x /\ \A i \in DOMAIN t : Append(t, x)[i] = t[i]
  <2>1. /\ DOMAIN t = 1 .. Len(t) /\ Len(t) \in Nat
        /\ DOMAIN Append(t, x) = 1 .. Len(t) + 1
    OBVIOUS
  <2> QED BY <2>1
<1> HIDE DEF n
<1>3. x \in S => B = A \cup {n}
  BY <1>2
<1>4. x \notin S => B = A
  BY <1>2
<1>5. n \notin A
  BY <1>2
<1> HIDE DEF A, B
<1>6. x \in S => Cardinality(B) = Cardinality(A) + 1
  BY <1>1, <1>3, <1>5, FS_AddElement, Zenon
<1> QED BY <1>4, <1>6, Zenon DEF Among, A, B

\* The element x passes behind t.
Room(t, x, limits) == \A l \in limits : x \in l.of => Among(t, l.of) < l.most
OneSifted(t, x, limits) == IF Room(t, x, limits) THEN Append(t, x) ELSE t
SieveOf(f, s, limits, n) ==
  f = [i \in 0 .. n |-> IF i = 0 THEN <<>> ELSE OneSifted(f[i - 1], s[i], limits)]

\* The recursive function of Sieve exists.
LEMMA SieveAre ==
  ASSUME NEW s, NEW limits, Len(s) \in Nat
  PROVE  \E f : SieveOf(f, s, limits, Len(s)) /\ Sieve(s, limits) = f[Len(s)]
<1> DEFINE N == {n \in Nat : \E f : SieveOf(f, s, limits, n)}
<1>1. 0 \in N
  <2> DEFINE f == [i \in 0 .. 0 |-> <<>>]
  <2>1. SieveOf(f, s, limits, 0)
    BY DEF SieveOf
  <2> QED BY <2>1
<1>2. ASSUME NEW n \in Nat, n \in N PROVE n + 1 \in N
  <2>1. PICK f : SieveOf(f, s, limits, n)
    BY <1>2
  <2> DEFINE g == [i \in 0 .. n + 1 |-> IF i = n + 1 THEN OneSifted(f[n], s[n + 1], limits) ELSE f[i]]
  <2>2. n + 1 \in Nat /\ n \in 0 .. n /\ 0 .. n + 1 = (0 .. n) \cup {n + 1} /\ n + 1 \notin 0 .. n
    OBVIOUS
  <2>3. g[n + 1] = OneSifted(f[n], s[n + 1], limits) /\ \A i \in 0 .. n : g[i] = f[i]
    BY <2>2, Zenon
  <2>4. \A i \in 0 .. n : f[i] = IF i = 0 THEN <<>> ELSE OneSifted(f[i - 1], s[i], limits)
    BY <2>1, Zenon DEF SieveOf
  <2>5. g = [i \in 0 .. n + 1 |-> g[i]]
    OBVIOUS
  <2> HIDE DEF g
  <2>6. ASSUME NEW i \in 0 .. n + 1
        PROVE  g[i] = IF i = 0 THEN <<>> ELSE OneSifted(g[i - 1], s[i], limits)
    <3>1. CASE i = n + 1
      <4>1. i # 0 /\ i - 1 = n
        BY <3>1
      <4> QED BY <2>2, <2>3, <3>1, <4>1, Zenon
    <3>2. CASE i \in 0 .. n
      <4>1. i = 0 \/ i - 1 \in 0 .. n
        BY <3>2
      <4> QED BY <2>3, <2>4, <3>2, <4>1, Zenon
    <3> QED BY <2>2, <3>1, <3>2
  <2>7. SieveOf(g, s, limits, n + 1)
    BY <2>5, <2>6, Zenon DEF SieveOf
  <2> QED BY <2>2, <2>7
<1>3. Len(s) \in N
  <2> HIDE DEF N
  <2> QED BY <1>1, <1>2, SetInduction
<1>4. \E f : SieveOf(f, s, limits, Len(s))
  BY <1>3
<1> QED BY <1>4, Zenon DEF Sieve, SieveOf, OneSifted, Room

\* t is a part of the first n elements of s, in their order: g says which.
Places(g, t, s, n) ==
  /\ g \in [1 .. Len(t) -> 1 .. n]
  /\ \A k \in 1 .. Len(t) : t[k] = s[g[k]]
  /\ \A k, l \in 1 .. Len(t) : k < l => g[k] < g[l]
\* What had passed before the place i, of a set S.
Passed(g, t, i, S) == {k \in 1 .. Len(t) : g[k] < i /\ t[k] \in S}
\* An element that did not pass met a limit used up by what passed before it.
Sifted(g, t, s, limits, n) ==
  /\ Places(g, t, s, n)
  /\ \A l \in limits : Among(t, l.of) <= l.most
  /\ \A i \in 1 .. n :
       \/ \E k \in 1 .. Len(t) : g[k] = i
       \/ \E l \in limits : s[i] \in l.of /\ l.most <= Cardinality(Passed(g, t, i, l.of))

LEMMA SiftOne ==
  ASSUME NEW T, NEW s \in Seq(T), NEW limits, \A l \in limits : l.most \in Nat,
         NEW n \in Nat, n + 1 <= Len(s), NEW t \in Seq(T), NEW g, Sifted(g, t, s, limits, n)
  PROVE  LET u == OneSifted(t, s[n + 1], limits)
         IN  u \in Seq(T) /\ \E h : Sifted(h, u, s, limits, n + 1)
<1> DEFINE x == s[n + 1]
           u == OneSifted(t, x, limits)
           m == Len(t)
<1>1. x \in T /\ m \in Nat /\ n + 1 \in Nat /\ DOMAIN t = 1 .. m
  OBVIOUS
<1>2. /\ g \in [1 .. m -> 1 .. n]
      /\ \A k \in 1 .. m : t[k] = s[g[k]]
      /\ \A k, l \in 1 .. m : k < l => g[k] < g[l]
      /\ \A l \in limits : Among(t, l.of) <= l.most
      /\ \A i \in 1 .. n :
           \/ \E k \in 1 .. m : g[k] = i
           \/ \E l \in limits : s[i] \in l.of /\ l.most <= Cardinality(Passed(g, t, i, l.of))
  BY Zenon DEF Sifted, Places
<1>3. CASE Room(t, x, limits)
  <2> DEFINE h == [k \in 1 .. m + 1 |-> IF k = m + 1 THEN n + 1 ELSE g[k]]
  <2>1. u = Append(t, x)
    BY <1>3 DEF OneSifted
  <2>2. /\ u \in Seq(T) /\ Len(u) = m + 1 /\ u[m + 1] = x
        /\ \A k \in 1 .. m : u[k] = t[k]
        /\ 1 .. m + 1 = (1 .. m) \cup {m + 1} /\ m + 1 \notin 1 .. m
    <3> HIDE DEF x
    <3> QED BY <1>1, <2>1
  <2>3. /\ h \in [1 .. m + 1 -> 1 .. n + 1]
        /\ h[m + 1] = n + 1 /\ \A k \in 1 .. m : h[k] = g[k] /\ h[k] \in 1 .. n
    <3> HIDE DEF x, u
    <3>1. /\ m + 1 \in 1 .. m + 1 /\ n + 1 \in 1 .. n + 1 /\ 1 .. n \subseteq 1 .. n + 1
          /\ \A k \in 1 .. m : k # m + 1 /\ k \in 1 .. m + 1 /\ g[k] \in 1 .. n
          /\ \A k \in 1 .. m + 1 : k # m + 1 => k \in 1 .. m
      <4> HIDE DEF m
      <4>1. g \in [1 .. m -> 1 .. n]
        BY <1>2
      <4> QED BY <1>1, <4>1
    <3> HIDE DEF m
    <3> QED BY <3>1
  <2> HIDE DEF h, u
  <2>4. Places(h, u, s, n + 1)
    <3>1. ASSUME NEW k \in 1 .. m + 1 PROVE u[k] = s[h[k]]
      BY <1>2, <2>2, <2>3, <3>1
    <3>2. ASSUME NEW k \in 1 .. m + 1, NEW l \in 1 .. m + 1, k < l PROVE h[k] < h[l]
      <4>1. k \in 1 .. m
        BY <1>1, <3>2
      <4>2. CASE l = m + 1
        BY <2>3, <4>1, <4>2
      <4>3. CASE l \in 1 .. m
        BY <1>2, <2>3, <3>2, <4>1, <4>3
      <4> QED BY <2>2, <4>2, <4>3
    <3> QED BY <2>2, <2>3, <3>1, <3>2 DEF Places
  <2>5. ASSUME NEW l \in limits PROVE Among(u, l.of) <= l.most
    <3>1. Among(t, l.of) \in Nat /\ l.most \in Nat /\ Among(t, l.of) <= l.most
      BY <1>2, AmongNat
    <3>2. x \in l.of => Among(t, l.of) < l.most /\ Among(u, l.of) = Among(t, l.of) + 1
      BY <1>3, <2>1, AmongAppend, Zenon DEF Room
    <3>3. x \notin l.of => Among(u, l.of) = Among(t, l.of)
      BY <2>1, AmongAppend, Zenon
    <3> QED BY <3>1, <3>2, <3>3
  <2>6. ASSUME NEW i \in 1 .. n + 1
        PROVE  \/ \E k \in 1 .. m + 1 : h[k] = i
               \/ \E l \in limits : s[i] \in l.of /\ l.most <= Cardinality(Passed(h, u, i, l.of))
    <3>1. CASE i = n + 1
      BY <2>2, <2>3, <3>1
    <3>2. CASE i \in 1 .. n
      <4>1. CASE \E k \in 1 .. m : g[k] = i
        BY <2>2, <2>3, <4>1
      <4>2. CASE \E l \in limits : s[i] \in l.of /\ l.most <= Cardinality(Passed(g, t, i, l.of))
        <5>1. \A S : Passed(h, u, i, S) = Passed(g, t, i, S)
          BY <1>1, <2>2, <2>3, <3>2 DEF Passed
        <5> QED BY <4>2, <5>1
      <4> QED BY <1>2, <3>2, <4>1, <4>2
    <3> QED BY <1>1, <3>1, <3>2
  <2>7. Sifted(h, u, s, limits, n + 1)
    BY <2>2, <2>4, <2>5, <2>6, Zenon DEF Sifted
  <2> QED BY <2>2, <2>7 DEF u
<1>4. CASE ~Room(t, x, limits)
  <2>1. u = t
    BY <1>4 DEF OneSifted
  <2>2. Places(g, t, s, n + 1)
    <3>1. 1 .. n \subseteq 1 .. n + 1
      OBVIOUS
    <3> QED BY <1>2, <3>1 DEF Places
  <2>3. ASSUME NEW i \in 1 .. n + 1
        PROVE  \/ \E k \in 1 .. m : g[k] = i
               \/ \E l \in limits : s[i] \in l.of /\ l.most <= Cardinality(Passed(g, t, i, l.of))
    <3>1. CASE i = n + 1
      <4>1. PICK l \in limits : x \in l.of /\ ~(Among(t, l.of) < l.most)
        BY <1>4 DEF Room
      <4>2. Passed(g, t, n + 1, l.of) = {k \in DOMAIN t : t[k] \in l.of}
        BY <1>1, <1>2 DEF Passed
      <4>3. Among(t, l.of) \in Nat /\ l.most \in Nat
        BY AmongNat
      <4>4. l.most <= Among(t, l.of)
        BY <4>1, <4>3
      <4>5. l.most <= Cardinality(Passed(g, t, n + 1, l.of))
        BY <4>2, <4>4, Zenon DEF Among
      <4> QED BY <3>1, <4>1, <4>5
    <3>2. CASE i \in 1 .. n
      BY <1>2, <3>2
    <3> QED BY <1>1, <3>1, <3>2
  <2> HIDE DEF u
  <2>4. Sifted(g, t, s, limits, n + 1)
    BY <1>2, <2>2, <2>3, Zenon DEF Sifted
  <2> QED BY <2>1, <2>4 DEF u
<1> QED BY <1>3, <1>4

LEMMA SieveIs ==
  ASSUME NEW T, NEW s \in Seq(T), NEW limits, \A l \in limits : l.most \in Nat
  PROVE  Sieve(s, limits) \in Seq(T) /\ \E g : Sifted(g, Sieve(s, limits), s, limits, Len(s))
<1>1. Len(s) \in Nat
  OBVIOUS
<1>2. PICK f : SieveOf(f, s, limits, Len(s)) /\ Sieve(s, limits) = f[Len(s)]
  BY <1>1, SieveAre
<1>3. \A i \in 0 .. Len(s) : f[i] = IF i = 0 THEN <<>> ELSE OneSifted(f[i - 1], s[i], limits)
  BY <1>2, Zenon DEF SieveOf
<1> DEFINE Fits(n) == f[n] \in Seq(T) /\ \E g : Sifted(g, f[n], s, limits, n)
           N == {n \in Nat : n <= Len(s) => Fits(n)}
<1>4. 0 \in N
  <2>1. f[0] = <<>>
    BY <1>1, <1>3
  <2> DEFINE g == [k \in 1 .. 0 |-> k]
  <2>2. Places(g, <<>>, s, 0)
    BY DEF Places
  <2>3. ASSUME NEW l \in limits PROVE Among(<<>>, l.of) <= l.most
    <3>1. {i \in DOMAIN <<>> : <<>>[i] \in l.of} = {}
      OBVIOUS
    <3>2. Among(<<>>, l.of) = 0
      BY <3>1, FS_EmptySet, Zenon DEF Among
    <3> QED BY <3>2
  <2> HIDE DEF g
  <2>4. 1 .. 0 = {}
    OBVIOUS
  <2>5. Sifted(g, <<>>, s, limits, 0)
    BY <2>2, <2>3, <2>4, Zenon DEF Sifted
  <2>6. <<>> \in Seq(T)
    OBVIOUS
  <2> QED BY <2>1, <2>5, <2>6, Zenon
<1>5. ASSUME NEW n \in Nat, n \in N PROVE n + 1 \in N
  <2>1. ASSUME n + 1 <= Len(s) PROVE Fits(n + 1)
    <3>1. n <= Len(s) /\ n + 1 \in 0 .. Len(s) /\ n + 1 # 0 /\ (n + 1) - 1 = n
      BY <1>1, <2>1
    <3>2. Fits(n)
      BY <1>5, <3>1
    <3>3. PICK g : Sifted(g, f[n], s, limits, n)
      BY <3>2, Zenon
    <3>4. f[n + 1] = OneSifted(f[n], s[n + 1], limits)
      BY <1>3, <3>1, Zenon
    <3>5. OneSifted(f[n], s[n + 1], limits) \in Seq(T)
          /\ \E h : Sifted(h, OneSifted(f[n], s[n + 1], limits), s, limits, n + 1)
      BY <2>1, <3>2, <3>3, SiftOne, Zenon
    <3> QED BY <3>4, <3>5, Zenon
  <2> HIDE DEF Fits
  <2> QED BY <2>1
<1>6. Len(s) \in N
  <2> HIDE DEF N
  <2> QED BY <1>1, <1>4, <1>5, SetInduction
<1> HIDE DEF Fits
<1>7. Fits(Len(s))
  BY <1>1, <1>6
<1> QED BY <1>2, <1>7, Zenon DEF Fits

\* How often a set occurs: not at all, or somewhere, or twice.
LEMMA AmongNone ==
  ASSUME NEW T, NEW t \in Seq(T), NEW S
  PROVE  Among(t, S) = 0 <=> Elements(t) \cap S = {}
<1> DEFINE A == {i \in DOMAIN t : t[i] \in S}
<1>1. IsFiniteSet(A) /\ Among(t, S) = Cardinality(A)
  BY AmongNat, Zenon DEF Among
<1>2. A = {} <=> Elements(t) \cap S = {}
  BY DEF Elements
<1> HIDE DEF A
<1>3. Cardinality(A) = 0 <=> A = {}
  BY <1>1, FS_EmptySet, Zenon
<1> QED BY <1>1, <1>2, <1>3, Zenon

LEMMA AmongOne ==
  ASSUME NEW T, NEW t \in Seq(T), NEW x, Among(t, {x}) <= 1
  PROVE  \A i, j \in DOMAIN t : t[i] = x /\ t[j] = x => i = j
<1> SUFFICES ASSUME NEW i \in DOMAIN t, NEW j \in DOMAIN t, t[i] = x, t[j] = x, i # j
             PROVE  FALSE
  OBVIOUS
<1> DEFINE A == {k \in DOMAIN t : t[k] \in {x}}
<1>1. IsFiniteSet(A) /\ Among(t, {x}) = Cardinality(A)
  BY AmongNat, Zenon DEF Among
<1>2. {i, j} \subseteq A
  OBVIOUS
<1> HIDE DEF A
<1>3. Cardinality({i, j}) <= Cardinality(A)
  BY <1>1, <1>2, FS_Subset, Zenon
<1>4. Cardinality({i, j}) = 2
  <2>1. IsFiniteSet({i}) /\ Cardinality({i}) = 1
    BY FS_Singleton, Zenon
  <2>2. j \notin {i} /\ {i} \cup {j} = {i, j}
    OBVIOUS
  <2>3. Cardinality({i} \cup {j}) = Cardinality({i}) + 1
    BY <2>1, <2>2, FS_AddElement, Zenon
  <2>4. Cardinality({i, j}) = Cardinality({i}) + 1
    BY <2>2, <2>3, Zenon
  <2> QED BY <2>1, <2>4
<1>5. Cardinality(A) \in Nat
  BY <1>1, FS_CardinalityType, Zenon
<1> QED BY <1>1, <1>3, <1>4, <1>5

\* What passes is part of what there was, in its order, and repeats nothing new.
LEMMA PlacesKeep ==
  ASSUME NEW T, NEW s \in Seq(T), NEW t \in Seq(T), NEW g, Places(g, t, s, Len(s))
  PROVE  /\ Elements(t) \subseteq Elements(s)
         /\ NoRepeats(s) => NoRepeats(t)
<1>1. /\ DOMAIN t = 1 .. Len(t) /\ DOMAIN s = 1 .. Len(s) /\ Len(t) \in Nat /\ Len(s) \in Nat
      /\ g \in [1 .. Len(t) -> 1 .. Len(s)]
      /\ \A k \in 1 .. Len(t) : t[k] = s[g[k]] /\ g[k] \in 1 .. Len(s)
      /\ \A k, l \in 1 .. Len(t) : k < l => g[k] < g[l]
  BY DEF Places
<1>2. Elements(t) \subseteq Elements(s)
  BY <1>1 DEF Elements
<1>3. ASSUME NoRepeats(s), NEW i \in DOMAIN t, NEW j \in DOMAIN t, i # j PROVE t[i] # t[j]
  <2>1. g[i] \in DOMAIN s /\ g[j] \in DOMAIN s /\ t[i] = s[g[i]] /\ t[j] = s[g[j]]
    BY <1>1
  <2>2. i < j \/ j < i
    BY <1>1, <1>3
  <2>3. g[i] # g[j]
    BY <1>1, <2>2
  <2> QED BY <1>3, <2>1, <2>3, Zenon DEF NoRepeats
<1> QED BY <1>2, <1>3, Zenon DEF NoRepeats

LEMMA OnlyIs ==
  ASSUME NEW T, NEW s \in Seq(T), NEW S
  PROVE  LET t == Only(s, S)
         IN  /\ t \in Seq(T) /\ Elements(t) = Elements(s) \cap S
             /\ NoRepeats(s) => NoRepeats(t)
             /\ \E g : Places(g, t, s, Len(s))
<1> DEFINE l == [of |-> Elements(s) \ S, most |-> 0]
           limits == {l}
           t == Only(s, S)
<1>1. l.most = 0 /\ l.of = Elements(s) \ S /\ t = Sieve(s, limits)
  BY DEF Only
<1> HIDE DEF l
<1>2. \A k \in limits : k.most \in Nat
  BY <1>1
<1>3. t \in Seq(T) /\ \E g : Sifted(g, t, s, limits, Len(s))
  BY <1>1, <1>2, SieveIs, Zenon
<1> HIDE DEF t
<1>4. PICK g : Sifted(g, t, s, limits, Len(s))
  BY <1>3
<1>5. Places(g, t, s, Len(s)) /\ Among(t, l.of) <= 0
  BY <1>1, <1>4, Zenon DEF Sifted
<1>6. Elements(t) \subseteq Elements(s) /\ (NoRepeats(s) => NoRepeats(t))
  BY <1>3, <1>5, PlacesKeep, Zenon
<1>7. Elements(t) \cap (Elements(s) \ S) = {}
  <2>1. Among(t, l.of) \in Nat
    BY <1>3, AmongNat, Zenon
  <2>2. Among(t, l.of) = 0
    BY <1>5, <2>1
  <2> QED BY <1>1, <1>3, <2>2, AmongNone, Zenon
<1>8. ASSUME NEW x \in Elements(s) \cap S PROVE x \in Elements(t)
  <2>1. PICK i \in 1 .. Len(s) : s[i] = x
    BY DEF Elements
  <2>2. x \notin l.of
    BY <1>1
  <2>3. PICK k \in 1 .. Len(t) : g[k] = i
    BY <1>4, <2>1, <2>2, Zenon DEF Sifted
  <2>4. t[k] = x /\ k \in DOMAIN t
    BY <1>3, <1>5, <2>1, <2>3 DEF Places
  <2> QED BY <2>4 DEF Elements
<1>9. Elements(t) = Elements(s) \cap S
  BY <1>6, <1>7, <1>8
<1> QED BY <1>3, <1>5, <1>6, <1>9 DEF t

LEMMA DistinctIs ==
  ASSUME NEW T, NEW s \in Seq(T)
  PROVE  LET t == Distinct(s)
         IN  t \in Seq(T) /\ NoRepeats(t) /\ Elements(t) = Elements(s)
<1> DEFINE limits == {[of |-> {x}, most |-> 1] : x \in Elements(s)}
           t == Distinct(s)
<1>1. /\ \A l \in limits : l.most = 1 /\ \E x \in Elements(s) : l.of = {x}
      /\ \A x \in Elements(s) : \E l \in limits : l.most = 1 /\ l.of = {x}
  <2>1. ASSUME NEW l \in limits PROVE l.most = 1 /\ \E x \in Elements(s) : l.of = {x}
    <3>1. PICK x \in Elements(s) : l = [of |-> {x}, most |-> 1]
      OBVIOUS
    <3> QED BY <3>1
  <2>2. ASSUME NEW x \in Elements(s) PROVE \E l \in limits : l.most = 1 /\ l.of = {x}
    <3> DEFINE l == [of |-> {x}, most |-> 1]
    <3>1. l \in limits /\ l.most = 1 /\ l.of = {x}
      OBVIOUS
    <3> HIDE DEF l, limits
    <3> QED BY <3>1, Zenon
  <2> HIDE DEF limits
  <2> QED BY <2>1, <2>2, Zenon
<1>2. t = Sieve(s, limits)
  BY DEF Distinct
<1> HIDE DEF limits, t
<1>3. \A l \in limits : l.most \in Nat
  BY <1>1
<1>4. t \in Seq(T) /\ \E g : Sifted(g, t, s, limits, Len(s))
  BY <1>2, <1>3, SieveIs, Zenon
<1>5. PICK g : Sifted(g, t, s, limits, Len(s))
  BY <1>4
<1>6. Places(g, t, s, Len(s)) /\ \A l \in limits : Among(t, l.of) <= l.most
  BY <1>5, Zenon DEF Sifted
<1>7. Elements(t) \subseteq Elements(s)
  BY <1>4, <1>6, PlacesKeep, Zenon
<1>8. ASSUME NEW i \in DOMAIN t, NEW j \in DOMAIN t, i # j PROVE t[i] # t[j]
  <2>1. t[i] \in Elements(s)
    BY <1>7 DEF Elements
  <2>2. PICK l \in limits : l.most = 1 /\ l.of = {t[i]}
    BY <1>1, <2>1, Zenon
  <2>3. Among(t, {t[i]}) <= 1
    BY <1>6, <2>2, Zenon
  <2> QED BY <1>4, <1>8, <2>3, AmongOne, Zenon
<1>9. ASSUME NEW x \in Elements(s) PROVE x \in Elements(t)
  <2>1. PICK i \in 1 .. Len(s) : s[i] = x
    BY DEF Elements
  <2>2. CASE \E k \in 1 .. Len(t) : g[k] = i
    <3>1. PICK k \in 1 .. Len(t) : g[k] = i
      BY <2>2
    <3>2. t[k] = x /\ k \in DOMAIN t
      BY <1>4, <1>6, <2>1, <3>1 DEF Places
    <3> QED BY <3>2 DEF Elements
  <2>3. CASE ~ \E k \in 1 .. Len(t) : g[k] = i
    <3>1. PICK l \in limits : s[i] \in l.of /\ l.most <= Cardinality(Passed(g, t, i, l.of))
      BY <1>5, <2>1, <2>3, Zenon DEF Sifted
    <3>2. l.most = 1 /\ l.of = {x}
      <4>1. PICK y \in Elements(s) : l.most = 1 /\ l.of = {y}
        BY <1>1, Zenon
      <4> QED BY <2>1, <3>1, <4>1
    <3>3. Passed(g, t, i, {x}) # {}
      <4>1. 1 <= Cardinality(Passed(g, t, i, {x}))
        BY <3>1, <3>2
      <4> SUFFICES ASSUME Passed(g, t, i, {x}) = {} PROVE FALSE
        OBVIOUS
      <4>2. Cardinality(Passed(g, t, i, {x})) = 0
        BY FS_EmptySet, Zenon
      <4> QED BY <4>1, <4>2
    <3>4. PICK k \in 1 .. Len(t) : t[k] = x
      BY <3>3 DEF Passed
    <3> QED BY <1>4, <3>4 DEF Elements
  <2> QED BY <2>2, <2>3
<1>10. NoRepeats(t)
  BY <1>8, Zenon DEF NoRepeats
<1>11. Elements(t) = Elements(s)
  BY <1>7, <1>9, Zenon
<1> QED BY <1>4, <1>10, <1>11 DEF t

-----------------------------------------------------------------------------
(* The tokens of a list of chunks.                                          *)

CostOf(f, s, n) == f = [i \in 0 .. n |-> IF i = 0 THEN 0 ELSE f[i - 1] + s[i].tokens]

LEMMA CostAre ==
  ASSUME NEW s, NEW n \in Nat
  PROVE  \E f : CostOf(f, s, n)
<1> DEFINE N == {m \in Nat : \E f : CostOf(f, s, m)}
<1>1. 0 \in N
  <2> DEFINE f == [i \in 0 .. 0 |-> 0]
  <2>1. CostOf(f, s, 0)
    BY DEF CostOf
  <2> QED BY <2>1
<1>2. ASSUME NEW m \in Nat, m \in N PROVE m + 1 \in N
  <2>1. PICK f : CostOf(f, s, m)
    BY <1>2
  <2> DEFINE g == [i \in 0 .. m + 1 |-> IF i = m + 1 THEN f[m] + s[m + 1].tokens ELSE f[i]]
  <2>2. m + 1 \in Nat /\ m \in 0 .. m /\ 0 .. m + 1 = (0 .. m) \cup {m + 1} /\ m + 1 \notin 0 .. m
    OBVIOUS
  <2>3. g[m + 1] = f[m] + s[m + 1].tokens /\ \A i \in 0 .. m : g[i] = f[i]
    BY <2>2, Zenon
  <2>4. \A i \in 0 .. m : f[i] = IF i = 0 THEN 0 ELSE f[i - 1] + s[i].tokens
    BY <2>1, Zenon DEF CostOf
  <2>5. g = [i \in 0 .. m + 1 |-> g[i]]
    OBVIOUS
  <2> HIDE DEF g
  <2>6. ASSUME NEW i \in 0 .. m + 1
        PROVE  g[i] = IF i = 0 THEN 0 ELSE g[i - 1] + s[i].tokens
    <3>1. CASE i = m + 1
      <4>1. i # 0 /\ i - 1 = m
        BY <3>1
      <4> QED BY <2>2, <2>3, <3>1, <4>1, Zenon
    <3>2. CASE i \in 0 .. m
      <4>1. i = 0 \/ i - 1 \in 0 .. m
        BY <3>2
      <4> QED BY <2>3, <2>4, <3>2, <4>1, Zenon
    <3> QED BY <2>2, <3>1, <3>2
  <2>7. CostOf(g, s, m + 1)
    BY <2>5, <2>6, Zenon DEF CostOf
  <2> QED BY <2>2, <2>7
<1>3. n \in N
  <2> HIDE DEF N
  <2> QED BY <1>1, <1>2, SetInduction
<1> QED BY <1>3

LEMMA CostIs ==
  ASSUME NEW s, Len(s) \in Nat
  PROVE  \E f : CostOf(f, s, Len(s)) /\ Cost(s) = f[Len(s)]
<1>1. \E f : CostOf(f, s, Len(s))
  BY CostAre
<1> QED BY <1>1, Zenon DEF Cost, CostOf

\* Two sums over lists that agree as far as the first goes.
LEMMA CostsAgree ==
  ASSUME NEW s, NEW u, NEW n \in Nat, NEW m \in Nat, n <= m,
         \A i \in 1 .. n : s[i] = u[i],
         NEW f, CostOf(f, s, n), NEW g, CostOf(g, u, m)
  PROVE  f[n] = g[n]
<1>1. /\ \A i \in 0 .. n : f[i] = IF i = 0 THEN 0 ELSE f[i - 1] + s[i].tokens
      /\ \A i \in 0 .. m : g[i] = IF i = 0 THEN 0 ELSE g[i - 1] + u[i].tokens
  BY Zenon DEF CostOf
<1> DEFINE N == {i \in Nat : i <= n => f[i] = g[i]}
<1>2. 0 \in N
  <2>1. 0 \in 0 .. n /\ 0 \in 0 .. m
    OBVIOUS
  <2> QED BY <1>1, <2>1
<1>3. ASSUME NEW i \in Nat, i \in N PROVE i + 1 \in N
  <2>1. ASSUME i + 1 <= n PROVE f[i + 1] = g[i + 1]
    <3>1. /\ i + 1 \in 0 .. n /\ i + 1 \in 0 .. m /\ i + 1 # 0 /\ (i + 1) - 1 = i
          /\ i + 1 \in 1 .. n /\ i <= n
      BY <2>1
    <3>2. f[i] = g[i] /\ s[i + 1] = u[i + 1]
      BY <1>3, <3>1
    <3>3. /\ f[i + 1] = f[i] + s[i + 1].tokens /\ g[i + 1] = g[i] + u[i + 1].tokens
      BY <1>1, <3>1, Zenon
    <3> QED BY <3>2, <3>3, Zenon
  <2> QED BY <2>1
<1>4. n \in N
  <2> HIDE DEF N
  <2> QED BY <1>2, <1>3, SetInduction
<1> QED BY <1>4

LEMMA CostEmpty == Cost(<<>>) = 0
<1>1. Len(<<>>) = 0
  OBVIOUS
<1>2. PICK f : CostOf(f, <<>>, 0) /\ Cost(<<>>) = f[0]
  BY <1>1, CostIs
<1>3. 0 \in 0 .. 0
  OBVIOUS
<1> QED BY <1>2, <1>3, Zenon DEF CostOf

LEMMA CostAppend ==
  ASSUME NEW T, NEW s \in Seq(T), NEW x
  PROVE  Cost(Append(s, x)) = Cost(s) + x.tokens
<1> DEFINE u == Append(s, x)
           n == Len(s)
<1>1. n \in Nat /\ Len(u) = n + 1 /\ u[n + 1] = x /\ \A i \in 1 .. n : s[i] = u[i]
  OBVIOUS
<1> HIDE DEF u, n
<1>2. PICK f : CostOf(f, s, n) /\ Cost(s) = f[n]
  BY <1>1, CostIs, Zenon DEF n
<1>3. n + 1 \in Nat /\ n <= n + 1 /\ n + 1 \in 0 .. n + 1 /\ n + 1 # 0 /\ (n + 1) - 1 = n
  BY <1>1
<1>4. PICK g : CostOf(g, u, n + 1) /\ Cost(u) = g[n + 1]
  BY <1>1, <1>3, CostIs
<1>5. f[n] = g[n]
  BY <1>1, <1>2, <1>3, <1>4, CostsAgree
<1>6. g[n + 1] = g[n] + u[n + 1].tokens
  BY <1>3, <1>4, Zenon DEF CostOf
<1>7. Cost(u) = Cost(s) + x.tokens
  BY <1>1, <1>2, <1>4, <1>5, <1>6
<1> QED BY <1>7 DEF u

LEMMA CostNat ==
  ASSUME NEW s \in Seq(Corpus)
  PROVE  Cost(s) \in Nat
<1>1. Len(s) \in Nat
  OBVIOUS
<1>2. PICK f : CostOf(f, s, Len(s)) /\ Cost(s) = f[Len(s)]
  BY <1>1, CostIs
<1>3. \A i \in 0 .. Len(s) : f[i] = IF i = 0 THEN 0 ELSE f[i - 1] + s[i].tokens
  BY <1>2, Zenon DEF CostOf
<1> DEFINE N == {n \in Nat : n <= Len(s) => f[n] \in Nat}
<1>4. 0 \in N
  BY <1>1, <1>3
<1>5. ASSUME NEW n \in Nat, n \in N PROVE n + 1 \in N
  <2>1. ASSUME n + 1 <= Len(s) PROVE f[n + 1] \in Nat
    <3>1. /\ n + 1 \in 0 .. Len(s) /\ n + 1 # 0 /\ (n + 1) - 1 = n /\ n <= Len(s)
          /\ n + 1 \in DOMAIN s
      BY <1>1, <2>1
    <3>2. f[n + 1] = f[n] + s[n + 1].tokens
      BY <1>3, <3>1, Zenon
    <3>3. s[n + 1] \in Corpus
      BY <3>1
    <3>4. s[n + 1].tokens \in Nat /\ f[n] \in Nat
      BY <1>5, <3>1, <3>3, CorpusAssumption
    <3> QED BY <3>2, <3>4
  <2> QED BY <2>1
<1>6. Len(s) \in N
  <2> HIDE DEF N
  <2> QED BY <1>1, <1>4, <1>5, SetInduction
<1> QED BY <1>1, <1>2, <1>6

LEMMA SeqFacts ==
  ASSUME NEW T, NEW a \in Seq(T), NEW b \in Seq(T), NEW x \in T
  PROVE  /\ a \o Append(b, x) = Append(a \o b, x)
         /\ a \o <<>> = a
         /\ a \o b \in Seq(T) /\ Len(a \o b) = Len(a) + Len(b)
         /\ \A i \in 1 .. Len(a) : (a \o b)[i] = a[i]
         /\ \A i \in 1 .. Len(b) : (a \o b)[Len(a) + i] = b[i]
  OBVIOUS

\* What passes a sieve costs no more than what there was, behind whatever it comes.
LEMMA CostSieve ==
  ASSUME NEW a \in Seq(Corpus), NEW s \in Seq(Corpus), NEW limits
  PROVE  Cost(a \o Sieve(s, limits)) <= Cost(a) + Cost(s)
<1>1. Len(s) \in Nat /\ \A i \in 1 .. Len(s) : s[i] \in Corpus /\ s[i].tokens \in Nat
  BY CorpusAssumption
<1>2. PICK f : SieveOf(f, s, limits, Len(s)) /\ Sieve(s, limits) = f[Len(s)]
  BY <1>1, SieveAre
<1>3. \A i \in 0 .. Len(s) : f[i] = IF i = 0 THEN <<>> ELSE OneSifted(f[i - 1], s[i], limits)
  BY <1>2, Zenon DEF SieveOf
<1>4. PICK c : CostOf(c, s, Len(s)) /\ Cost(s) = c[Len(s)]
  BY <1>1, CostIs
<1>5. \A i \in 0 .. Len(s) : c[i] = IF i = 0 THEN 0 ELSE c[i - 1] + s[i].tokens
  BY <1>4, Zenon DEF CostOf
<1> DEFINE Fits(n) == /\ f[n] \in Seq(Corpus) /\ c[n] \in Nat
                      /\ Cost(a \o f[n]) <= Cost(a) + c[n]
           N == {n \in Nat : n <= Len(s) => Fits(n)}
<1>6. Cost(a) \in Nat
  BY CostNat
<1>7. 0 \in N
  <2>1. f[0] = <<>> /\ c[0] = 0
    BY <1>1, <1>3, <1>5
  <2>2. a \o <<>> = a /\ <<>> \in Seq(Corpus)
    OBVIOUS
  <2>3. Cost(a \o f[0]) = Cost(a) /\ f[0] \in Seq(Corpus)
    BY <2>1, <2>2, Zenon
  <2>4. Cost(a) <= Cost(a) + c[0] /\ c[0] \in Nat
    BY <1>6, <2>1
  <2>5. Fits(0)
    BY <2>3, <2>4, Zenon
  <2> HIDE DEF Fits
  <2> QED BY <2>5
<1>8. ASSUME NEW n \in Nat, n \in N PROVE n + 1 \in N
  <2>1. ASSUME n + 1 <= Len(s) PROVE Fits(n + 1)
    <3>1. /\ n <= Len(s) /\ n + 1 \in 0 .. Len(s) /\ n + 1 # 0 /\ (n + 1) - 1 = n
          /\ n + 1 \in 1 .. Len(s)
      BY <1>1, <2>1
    <3> DEFINE x == s[n + 1]
               t == f[n]
    <3>2. t \in Seq(Corpus) /\ c[n] \in Nat /\ Cost(a \o t) <= Cost(a) + c[n]
      BY <1>8, <3>1
    <3>3. x \in Corpus /\ x.tokens \in Nat
      BY <1>1, <3>1
    <3>4. f[n + 1] = OneSifted(t, x, limits) /\ c[n + 1] = c[n] + x.tokens
      BY <1>3, <1>5, <3>1, Zenon
    <3> HIDE DEF x, t
    <3>5. a \o t \in Seq(Corpus) /\ a \o Append(t, x) = Append(a \o t, x)
          /\ Append(t, x) \in Seq(Corpus)
      BY <3>2, <3>3, SeqFacts
    <3>6. Cost(a \o Append(t, x)) = Cost(a \o t) + x.tokens
      BY <3>5, CostAppend, Zenon
    <3>7. Cost(a \o t) \in Nat
      BY <3>5, CostNat
    <3>8. CASE Room(t, x, limits)
      <4>1. f[n + 1] = Append(t, x)
        BY <3>4, <3>8 DEF OneSifted
      <4>2. Cost(a \o f[n + 1]) = Cost(a \o t) + x.tokens /\ f[n + 1] \in Seq(Corpus)
        BY <3>5, <3>6, <4>1, Zenon
      <4>3. /\ Cost(a \o t) + x.tokens <= Cost(a) + c[n + 1] /\ c[n + 1] \in Nat
        BY <1>6, <3>2, <3>3, <3>4, <3>7
      <4> QED BY <4>2, <4>3, Zenon
    <3>9. CASE ~Room(t, x, limits)
      <4>1. f[n + 1] = t
        BY <3>4, <3>9 DEF OneSifted
      <4> QED BY <1>6, <3>2, <3>3, <3>4, <3>7, <4>1
    <3> QED BY <3>8, <3>9
  <2> HIDE DEF Fits
  <2> QED BY <2>1
<1>9. Len(s) \in N
  <2> HIDE DEF N
  <2> QED BY <1>1, <1>7, <1>8, SetInduction
<1> HIDE DEF Fits
<1>10. Fits(Len(s))
  BY <1>1, <1>9
<1> QED BY <1>2, <1>4, <1>10 DEF Fits

-----------------------------------------------------------------------------
(* Prefixes and joins.                                                      *)

LEMMA PrefixIs ==
  ASSUME NEW T, NEW t \in Seq(T), NEW n \in 0 .. Len(t)
  PROVE  LET u == SubSeq(t, 1, n)
         IN  /\ u \in Seq(T) /\ Len(u) = n /\ \A i \in 1 .. n : u[i] = t[i]
             /\ Elements(u) \subseteq Elements(t)
             /\ NoRepeats(t) => NoRepeats(u)
<1> DEFINE u == SubSeq(t, 1, n)
<1>1. /\ u \in Seq(T) /\ Len(u) = n /\ \A i \in 1 .. n : u[i] = t[i]
      /\ DOMAIN u = 1 .. n /\ DOMAIN t = 1 .. Len(t) /\ 1 .. n \subseteq 1 .. Len(t)
  OBVIOUS
<1> HIDE DEF u
<1>2. Elements(u) \subseteq Elements(t)
  BY <1>1 DEF Elements
<1>3. NoRepeats(t) => NoRepeats(u)
  BY <1>1 DEF NoRepeats
<1> QED BY <1>1, <1>2, <1>3 DEF u

LEMMA JoinIs ==
  ASSUME NEW T, NEW a \in Seq(T), NEW b \in Seq(T)
  PROVE  LET u == a \o b
         IN  /\ u \in Seq(T) /\ Elements(u) = Elements(a) \cup Elements(b)
             /\ NoRepeats(a) /\ NoRepeats(b) /\ Elements(a) \cap Elements(b) = {} => NoRepeats(u)
<1> DEFINE u == a \o b
           n == Len(a)
           m == Len(b)
<1>1. /\ u \in Seq(T) /\ n \in Nat /\ m \in Nat
      /\ DOMAIN a = 1 .. n /\ DOMAIN b = 1 .. m /\ DOMAIN u = 1 .. n + m
      /\ \A i \in 1 .. n : u[i] = a[i]
      /\ \A i \in n + 1 .. n + m : u[i] = b[i - n]
  OBVIOUS
<1>2. \A i \in 1 .. n + m : i \in 1 .. n \/ (i \in n + 1 .. n + m /\ i - n \in 1 .. m)
  BY <1>1
<1>3. \A i \in 1 .. m : n + i \in n + 1 .. n + m /\ (n + i) - n = i
  BY <1>1
<1>4. 1 .. n \subseteq 1 .. n + m /\ n + 1 .. n + m \subseteq 1 .. n + m
  BY <1>1
<1> HIDE DEF u, n, m
<1>5. ASSUME NEW i \in DOMAIN u
      PROVE  \/ i \in DOMAIN a /\ u[i] = a[i]
             \/ i - n \in DOMAIN b /\ u[i] = b[i - n]
  BY <1>1, <1>2, Zenon
<1>6. Elements(u) = Elements(a) \cup Elements(b)
  <2>1. ASSUME NEW x \in Elements(u) PROVE x \in Elements(a) \cup Elements(b)
    BY <1>5 DEF Elements
  <2>2. ASSUME NEW x \in Elements(a) PROVE x \in Elements(u)
    BY <1>1, <1>4 DEF Elements
  <2>3. ASSUME NEW x \in Elements(b) PROVE x \in Elements(u)
    <3>1. PICK i \in DOMAIN b : x = b[i]
      BY DEF Elements
    <3>2. n + i \in DOMAIN u /\ u[n + i] = b[i]
      BY <1>1, <1>3, <1>4, <3>1
    <3> QED BY <3>1, <3>2 DEF Elements
  <2> QED BY <2>1, <2>2, <2>3
<1>7. ASSUME NoRepeats(a), NoRepeats(b), Elements(a) \cap Elements(b) = {},
             NEW i \in DOMAIN u, NEW j \in DOMAIN u, i # j
      PROVE  u[i] # u[j]
  <2>1. /\ \A k \in DOMAIN a, l \in DOMAIN b : a[k] # b[l]
    BY <1>7 DEF Elements
  <2>2. i - n \in DOMAIN b /\ j - n \in DOMAIN b => i - n # j - n
    BY <1>1, <1>7
  <2> QED BY <1>5, <1>7, <2>1, <2>2 DEF NoRepeats
<1>8. NoRepeats(a) /\ NoRepeats(b) /\ Elements(a) \cap Elements(b) = {} => NoRepeats(u)
  BY <1>7, Zenon DEF NoRepeats
<1> QED BY <1>1, <1>6, <1>8 DEF u

\* A list that repeats nothing has no more of a set than a list with all of those.
LEMMA AmongFewer ==
  ASSUME NEW T, NEW t \in Seq(T), NEW u \in Seq(T), NEW S,
         NoRepeats(t), Elements(t) \cap S \subseteq Elements(u)
  PROVE  Among(t, S) <= Among(u, S)
<1> DEFINE A == {i \in DOMAIN t : t[i] \in S}
           B == {i \in DOMAIN u : u[i] \in S}
           f == [i \in A |-> CHOOSE j \in DOMAIN u : u[j] = t[i]]
<1>1. IsFiniteSet(A) /\ IsFiniteSet(B) /\ Among(t, S) = Cardinality(A) /\ Among(u, S) = Cardinality(B)
  BY AmongNat, Zenon DEF Among
<1>2. ASSUME NEW i \in A PROVE f[i] \in B /\ u[f[i]] = t[i]
  <2>1. \E j \in DOMAIN u : u[j] = t[i]
    BY DEF Elements
  <2> QED BY <2>1
<1>3. \A i, j \in A : i # j => t[i] # t[j]
  BY DEF NoRepeats
<1> HIDE DEF A, B
<1>4. f \in [A -> B]
  BY <1>2
<1>5. \A i \in A : u[f[i]] = t[i]
  BY <1>2
<1> HIDE DEF f
<1>6. f \in Injection(A, B)
  BY <1>3, <1>4, <1>5 DEF Injection, IsInjective
<1>7. Cardinality(A) <= Cardinality(B)
  BY <1>1, <1>6, FS_Injection, Zenon
<1> QED BY <1>1, <1>7
-----------------------------------------------------------------------------
(* One leg, step by step.                                                   *)

LEMMA FetchIs ==
  ASSUME NEW q \in Questions, NEW tickers
  PROVE  LET t == Fetch(q, tickers)
         IN  /\ t \in Seq(Corpus) /\ NoRepeats(t)
             /\ \A c \in Elements(t) : tickers = {} \/ c.ticker \in tickers
<1> DEFINE S == {c \in Corpus : tickers = {} \/ c.ticker \in tickers}
           match == Only(q.ranking, S)
           n == IF q.rerank THEN TopK * OverFetch ELSE TopK
           t == Fetch(q, tickers)
<1>1. q.ranking \in Seq(Corpus) /\ NoRepeats(q.ranking)
  BY QuestionsAssumption, Zenon
<1>2. match \in Seq(Corpus) /\ NoRepeats(match) /\ Elements(match) \subseteq S
  <2>1. match \in Seq(Corpus) /\ NoRepeats(match) /\ Elements(match) = Elements(q.ranking) \cap S
    <3> HIDE DEF S
    <3> QED BY <1>1, OnlyIs, Zenon
  <2> HIDE DEF match, S
  <2> QED BY <2>1
<1>3. n \in Nat
  BY RetrievalAssumption
<1>4. t = IF Len(match) <= n THEN match ELSE SubSeq(match, 1, n)
  BY Zenon DEF Fetch
<1> HIDE DEF match, n, t
<1>5. t \in Seq(Corpus) /\ NoRepeats(t) /\ Elements(t) \subseteq Elements(match)
  <2>1. CASE Len(match) <= n
    BY <1>2, <1>4, <2>1, Zenon
  <2>2. CASE ~(Len(match) <= n)
    <3>1. n \in 0 .. Len(match) /\ t = SubSeq(match, 1, n)
      BY <1>2, <1>3, <1>4, <2>2
    <3> QED BY <1>2, <3>1, PrefixIs, Zenon
  <2> QED BY <2>1, <2>2
<1> QED BY <1>2, <1>5 DEF t

LEMMA RerankedIs ==
  ASSUME NEW q \in Questions, NEW hits \in Seq(Corpus), NoRepeats(hits)
  PROVE  LET t == Reranked(q, hits)
         IN  t \in Seq(Corpus) /\ NoRepeats(t) /\ Elements(t) \subseteq Elements(hits)
<1> DEFINE r == q.reranking
           a == Only(r, Elements(hits))
           b == Only(hits, Corpus \ Elements(r))
<1>1. r \in Seq(Corpus) /\ NoRepeats(r)
  BY QuestionsAssumption, Zenon
<1>2. a \in Seq(Corpus) /\ NoRepeats(a) /\ Elements(a) = Elements(r) \cap Elements(hits)
  BY <1>1, OnlyIs, ZenonT(40)
<1>3. b \in Seq(Corpus) /\ NoRepeats(b) /\ Elements(b) = Elements(hits) \cap (Corpus \ Elements(r))
  BY OnlyIs, Zenon
<1>4. Reranked(q, hits) = IF ~q.rerank THEN hits ELSE a \o b
  BY DEF Reranked
<1> HIDE DEF a, b
<1>5. Elements(a) \cap Elements(b) = {}
  BY <1>2, <1>3
<1>6. a \o b \in Seq(Corpus) /\ NoRepeats(a \o b) /\ Elements(a \o b) = Elements(a) \cup Elements(b)
  <2>1. a \in Seq(Corpus) /\ b \in Seq(Corpus) /\ NoRepeats(a) /\ NoRepeats(b)
    BY <1>2, <1>3, Zenon
  <2> QED BY <1>5, <2>1, JoinIs
<1>7. Elements(a \o b) \subseteq Elements(hits)
  BY <1>2, <1>3, <1>6
<1> QED BY <1>4, <1>6, <1>7

LEMMA CapsAre == \A l \in Caps :
  /\ l.most \in Nat
  /\ \A c \in Corpus : c \in l.of =>
       \/ PerSection > 0 /\ l.of = InSection(c.section) /\ l.most = PerSection
       \/ PerFiling > 0 /\ l.of = InFiling(c.filing) /\ l.most = PerFiling
<1> SUFFICES ASSUME NEW l \in Caps
             PROVE  /\ l.most \in Nat
                    /\ \A c \in Corpus : c \in l.of =>
                         \/ PerSection > 0 /\ l.of = InSection(c.section) /\ l.most = PerSection
                         \/ PerFiling > 0 /\ l.of = InFiling(c.filing) /\ l.most = PerFiling
  OBVIOUS
<1>1. \/ PerSection > 0 /\ \E d \in Corpus : l = [of |-> InSection(d.section), most |-> PerSection]
      \/ PerFiling > 0 /\ \E d \in Corpus : l = [of |-> InFiling(d.filing), most |-> PerFiling]
  BY DEF Caps
<1>2. ASSUME NEW d \in Corpus, l = [of |-> InSection(d.section), most |-> PerSection],
             NEW c \in Corpus, c \in l.of
      PROVE  l.of = InSection(c.section)
  <2>1. c.section = d.section
    BY <1>2 DEF InSection
  <2> QED BY <1>2, <2>1
<1>3. ASSUME NEW d \in Corpus, l = [of |-> InFiling(d.filing), most |-> PerFiling],
             NEW c \in Corpus, c \in l.of
      PROVE  l.of = InFiling(c.filing)
  <2>1. c.filing = d.filing
    BY <1>3 DEF InFiling
  <2> QED BY <1>3, <2>1
<1> QED BY <1>1, <1>2, <1>3, RetrievalAssumption

LEMMA CappedIs ==
  ASSUME NEW hits \in Seq(Corpus), NoRepeats(hits)
  PROVE  LET t == Capped(hits)
         IN  /\ t \in Seq(Corpus) /\ NoRepeats(t) /\ Elements(t) \subseteq Elements(hits)
             /\ \A l \in Caps : Among(t, l.of) <= l.most
             /\ \E g : Sifted(g, t, hits, Caps, Len(hits))
<1> DEFINE t == Capped(hits)
<1>1. \A l \in Caps : l.most \in Nat
  BY CapsAre, Zenon
<1>2. t \in Seq(Corpus) /\ \E g : Sifted(g, t, hits, Caps, Len(hits))
  BY <1>1, SieveIs, Zenon DEF Capped
<1> HIDE DEF t
<1>3. PICK g : Sifted(g, t, hits, Caps, Len(hits))
  BY <1>2
<1>4. Places(g, t, hits, Len(hits)) /\ \A l \in Caps : Among(t, l.of) <= l.most
  BY <1>3, Zenon DEF Sifted
<1>5. NoRepeats(t) /\ Elements(t) \subseteq Elements(hits)
  BY <1>2, <1>4, PlacesKeep, Zenon
<1> QED BY <1>2, <1>4, <1>5 DEF t

LEMMA GreatestExists ==
  ASSUME NEW n \in Nat, NEW S \in SUBSET (0 .. n), S # {}
  PROVE  \E j \in S : \A k \in S : k <= j
<1> DEFINE R == {i \in 0 .. n : n - i \in S}
<1>1. R \subseteq Nat /\ R # {}
  <2>1. PICK j \in S : TRUE
    OBVIOUS
  <2>2. n - j \in 0 .. n /\ n - (n - j) = j
    OBVIOUS
  <2>3. n - j \in R
    BY <2>1, <2>2
  <2>4. R \subseteq 0 .. n /\ 0 .. n \subseteq Nat
    OBVIOUS
  <2> HIDE DEF R
  <2> QED BY <2>3, <2>4
<1>2. PICK i \in R : \A k \in R : i <= k
  <2> HIDE DEF R
  <2> QED BY <1>1, LeastExists
<1>3. ASSUME NEW k \in S PROVE k <= n - i
  <2>1. n - k \in 0 .. n /\ n - (n - k) = k /\ k \in 0 .. n
    OBVIOUS
  <2>2. n - k \in R
    BY <2>1
  <2> QED BY <1>2, <2>1, <2>2
<1> QED BY <1>2, <1>3

\* Packing keeps a front part, whose every front part is within the budget.
LEMMA PackedIs ==
  ASSUME NEW h \in Seq(Corpus), NEW limit \in Int
  PROVE  \E n \in 0 .. Len(h) :
           /\ Packed(h, limit) = SubSeq(h, 1, n)
           /\ limit > 0 => \A m \in 0 .. n : Cost(SubSeq(h, 1, m)) <= limit
<1>0. Len(h) \in Nat
  OBVIOUS
<1>1. CASE limit <= 0
  <2>1. Packed(h, limit) = h /\ h = SubSeq(h, 1, Len(h)) /\ Len(h) \in 0 .. Len(h) /\ ~(limit > 0)
    BY <1>0, <1>1 DEF Packed
  <2> QED BY <2>1
<1>2. CASE ~(limit <= 0)
  <2> DEFINE fit == {n \in 0 .. Len(h) : \A m \in 1 .. n : Cost(SubSeq(h, 1, m)) <= limit}
             n == CHOOSE n \in fit : \A m \in fit : m <= n
  <2>1. Packed(h, limit) = SubSeq(h, 1, n)
    BY <1>2 DEF Packed
  <2>2. 0 \in fit /\ fit \subseteq 0 .. Len(h)
    BY <1>0
  <2>3. n \in fit
    <3> HIDE DEF fit
    <3>1. \E j \in fit : \A k \in fit : k <= j
      BY <1>0, <2>2, GreatestExists, Zenon
    <3> QED BY <3>1
  <2>4. n \in 0 .. Len(h) /\ \A m \in 1 .. n : Cost(SubSeq(h, 1, m)) <= limit
    <3> HIDE DEF n
    <3> QED BY <2>3
  <2> HIDE DEF n, fit
  <2>5. SubSeq(h, 1, 0) = <<>>
    OBVIOUS
  <2>6. ASSUME NEW m \in 0 .. n PROVE Cost(SubSeq(h, 1, m)) <= limit
    <3>1. CASE m = 0
      <4>1. Cost(SubSeq(h, 1, m)) = 0
        BY <2>5, <3>1, CostEmpty, Zenon
      <4> QED BY <1>2, <4>1
    <3>2. CASE m # 0
      <4>1. m \in 1 .. n
        BY <2>4, <3>2
      <4> QED BY <2>4, <4>1
    <3> QED BY <3>1, <3>2
  <2> QED BY <2>1, <2>4, <2>6
<1> QED BY <1>1, <1>2

\* What a leg brings is a front part of what its caps let through.
LEMMA RetrievedIs ==
  ASSUME NEW q \in Questions, NEW tickers, NEW limit \in Int
  PROVE  LET h == Capped(Reranked(q, Fetch(q, tickers)))
             r == Retrieved(q, tickers, limit)
         IN  /\ \E n \in 0 .. Len(h) : r = SubSeq(h, 1, n)
             /\ r \in Seq(Corpus) /\ NoRepeats(r) /\ Elements(r) \subseteq Elements(h)
             /\ \A c \in Elements(r) : tickers = {} \/ c.ticker \in tickers
             /\ limit > 0 => Cost(r) <= limit
             /\ \A l \in Caps : Among(r, l.of) <= l.most
<1> DEFINE f == Fetch(q, tickers)
           k == Reranked(q, f)
           h == Capped(k)
           p == Packed(h, limit)
           r == Retrieved(q, tickers, limit)
<1>1. /\ f \in Seq(Corpus) /\ NoRepeats(f)
      /\ \A c \in Elements(f) : tickers = {} \/ c.ticker \in tickers
  BY FetchIs, Zenon
<1>2. r = IF Len(p) <= TopK THEN p ELSE SubSeq(p, 1, TopK)
  BY Zenon DEF Retrieved
<1> HIDE DEF f, r
<1>3. k \in Seq(Corpus) /\ NoRepeats(k) /\ Elements(k) \subseteq Elements(f)
  BY <1>1, RerankedIs, Zenon
<1> HIDE DEF k
<1>4. /\ h \in Seq(Corpus) /\ NoRepeats(h) /\ Elements(h) \subseteq Elements(k)
      /\ \A l \in Caps : Among(h, l.of) <= l.most
  BY <1>3, CappedIs, Zenon
<1> HIDE DEF h
<1>5. PICK m \in 0 .. Len(h) :
        /\ p = SubSeq(h, 1, m)
        /\ limit > 0 => \A i \in 0 .. m : Cost(SubSeq(h, 1, i)) <= limit
  BY <1>4, PackedIs, Zenon
<1> HIDE DEF p
<1>6. Len(h) \in Nat /\ TopK \in Nat /\ m \in Nat /\ m <= Len(h)
  BY <1>4, RetrievalAssumption
<1>7. p \in Seq(Corpus) /\ Len(p) = m
  BY <1>4, <1>5, PrefixIs, Zenon
<1>8. \E n \in 0 .. m : r = SubSeq(h, 1, n)
  <2>1. CASE m <= TopK
    <3>1. r = SubSeq(h, 1, m) /\ m \in 0 .. m
      BY <1>2, <1>5, <1>6, <1>7, <2>1
    <3> QED BY <3>1
  <2>2. CASE ~(m <= TopK)
    <3>1. r = SubSeq(p, 1, TopK) /\ TopK \in 0 .. m
      BY <1>2, <1>6, <1>7, <2>2
    <3>2. SubSeq(SubSeq(h, 1, m), 1, TopK) = SubSeq(h, 1, TopK)
      BY <1>4, <1>6, <3>1
    <3> QED BY <1>5, <3>1, <3>2
  <2> QED BY <2>1, <2>2
<1>9. PICK n \in 0 .. m : r = SubSeq(h, 1, n)
  BY <1>8
<1>10. n \in 0 .. Len(h)
  BY <1>6
<1>11. r \in Seq(Corpus) /\ Elements(r) \subseteq Elements(h) /\ NoRepeats(r)
  BY <1>4, <1>9, <1>10, PrefixIs, Zenon
<1>12. limit > 0 => Cost(r) <= limit
  BY <1>5, <1>9, Zenon
<1>13. \A c \in Elements(r) : tickers = {} \/ c.ticker \in tickers
  BY <1>1, <1>3, <1>4, <1>11
<1>14. ASSUME NEW l \in Caps PROVE Among(r, l.of) <= l.most
  <2>1. Among(r, l.of) <= Among(h, l.of)
    BY <1>4, <1>11, AmongFewer
  <2>2. Among(r, l.of) \in Nat /\ Among(h, l.of) \in Nat /\ l.most \in Nat
    BY <1>4, <1>11, AmongNat, CapsAre, Zenon
  <2> QED BY <1>4, <2>1, <2>2
<1>15. \E i \in 0 .. Len(h) : r = SubSeq(h, 1, i)
  BY <1>9, <1>10, Zenon
<1> QED BY <1>11, <1>12, <1>13, <1>14, <1>15, Zenon DEF f, k, h, r
-----------------------------------------------------------------------------
(* What a leg leaves out, and what the citations are.                       *)

\* A chunk that ranks above one of the leg and is not in it met a cap that the leg's
\* own chunks fill.
LEMMA LegBest ==
  ASSUME NEW q \in Questions, NEW tickers, NEW limit \in Int,
         NEW c \in Corpus, NEW d \in Corpus,
         Before(Reranked(q, Fetch(q, tickers)), c, d),
         d \in Elements(Retrieved(q, tickers, limit)),
         c \notin Elements(Retrieved(q, tickers, limit))
  PROVE  \E l \in Caps : /\ c \in l.of
                         /\ Among(Retrieved(q, tickers, limit), l.of) = l.most
<1> DEFINE k == Reranked(q, Fetch(q, tickers))
           h == Capped(k)
           r == Retrieved(q, tickers, limit)
<1>1. Fetch(q, tickers) \in Seq(Corpus) /\ NoRepeats(Fetch(q, tickers))
  BY FetchIs, Zenon
<1>2. k \in Seq(Corpus) /\ NoRepeats(k)
  BY <1>1, RerankedIs, Zenon
<1>3. PICK a \in DOMAIN k, b \in DOMAIN k : a < b /\ k[a] = c /\ k[b] = d
  BY DEF Before
<1>4. /\ \E n \in 0 .. Len(h) : r = SubSeq(h, 1, n)
      /\ r \in Seq(Corpus) /\ \A l \in Caps : Among(r, l.of) <= l.most
  BY RetrievedIs, Zenon
<1>5. d \in Elements(r) /\ c \notin Elements(r)
  BY Zenon DEF r
<1> HIDE DEF r, k
<1>6. h \in Seq(Corpus) /\ \E g : Sifted(g, h, k, Caps, Len(k))
  BY <1>2, CappedIs, Zenon
<1> HIDE DEF h
<1>7. PICK n \in 0 .. Len(h) : r = SubSeq(h, 1, n)
  BY <1>4
<1>8. PICK g : Sifted(g, h, k, Caps, Len(k))
  BY <1>6
<1>9. /\ g \in [1 .. Len(h) -> 1 .. Len(k)]
      /\ \A i \in 1 .. Len(h) : h[i] = k[g[i]]
      /\ \A i, j \in 1 .. Len(h) : i < j => g[i] < g[j]
  BY <1>8, Zenon DEF Sifted, Places
<1>10. DOMAIN k = 1 .. Len(k) /\ Len(k) \in Nat /\ Len(h) \in Nat /\ n \in Nat /\ n <= Len(h)
  BY <1>2, <1>6
<1>11. Len(r) = n /\ DOMAIN r = 1 .. n /\ \A i \in 1 .. n : r[i] = h[i]
  <2> DEFINE u == SubSeq(h, 1, n)
  <2>1. Len(u) = n /\ \A i \in 1 .. n : u[i] = h[i]
    <3>1. h \in Seq(Corpus) /\ n \in 0 .. Len(h)
      BY <1>6, <1>7
    <3> QED BY <3>1, PrefixIs
  <2> HIDE DEF u
  <2>2. Len(r) = n /\ \A i \in 1 .. n : r[i] = h[i]
    BY <1>7, <2>1 DEF u
  <2> QED BY <1>4, <2>2
<1>12. PICK e \in 1 .. n : r[e] = d
  BY <1>5, <1>11 DEF Elements
<1>13. e \in 1 .. Len(h) /\ g[e] = b
  <2>1. e \in 1 .. Len(h) /\ g[e] \in DOMAIN k /\ k[g[e]] = k[b]
    BY <1>3, <1>9, <1>10, <1>11, <1>12, SMTT(40)
  <2> QED BY <1>2, <2>1 DEF NoRepeats
\* What stands before b stands before e.
<1>14. ASSUME NEW i \in 1 .. Len(h), g[i] <= a
       PROVE  i \in 1 .. n
  <2>1. g[i] < g[e] /\ g[i] \in Nat /\ g[e] \in Nat
    <3>1. g[i] \in 1 .. Len(k) /\ a \in 1 .. Len(k) /\ b \in 1 .. Len(k)
      BY <1>9, <1>10
    <3> QED BY <1>3, <1>10, <1>13, <1>14, <3>1
  <2>2. i < e
    <3>1. ~(e < i)
      BY <1>9, <1>13, <2>1
    <3>2. i # e
      BY <2>1
    <3> QED BY <3>1, <3>2
  <2> QED BY <1>10, <2>2
<1>15. ~\E i \in 1 .. Len(h) : g[i] = a
  <2> SUFFICES ASSUME NEW i \in 1 .. Len(h), g[i] = a PROVE FALSE
    OBVIOUS
  <2>1. i \in 1 .. n
    BY <1>3, <1>10, <1>14
  <2>2. r[i] = c
    BY <1>3, <1>9, <1>11, <2>1
  <2> QED BY <1>5, <1>11, <2>1, <2>2 DEF Elements
<1>16. PICK l \in Caps : k[a] \in l.of /\ l.most <= Cardinality(Passed(g, h, a, l.of))
  <2>1. a \in 1 .. Len(k)
    BY <1>10
  <2>2. \/ \E i \in 1 .. Len(h) : g[i] = a
        \/ \E l \in Caps : k[a] \in l.of /\ l.most <= Cardinality(Passed(g, h, a, l.of))
    BY <1>8, <2>1, Zenon DEF Sifted
  <2> QED BY <1>15, <2>2
<1>17. Cardinality(Passed(g, h, a, l.of)) <= Among(r, l.of)
  <2> DEFINE A == {i \in DOMAIN r : r[i] \in l.of}
             B == Passed(g, h, a, l.of)
  <2>1. IsFiniteSet(A)
    BY <1>4, AmongNat
  <2>2. B \subseteq A
    <3> SUFFICES ASSUME NEW i \in B PROVE i \in A
      OBVIOUS
    <3>1. i \in 1 .. Len(h) /\ g[i] < a /\ h[i] \in l.of
      BY DEF Passed
    <3>2. i \in 1 .. n
      BY <1>3, <1>9, <1>10, <1>14, <3>1
    <3> QED BY <1>11, <3>1, <3>2
  <2> HIDE DEF A, B
  <2>3. Cardinality(B) <= Cardinality(A)
    BY <2>1, <2>2, FS_Subset
  <2> QED BY <2>3, Zenon DEF Among, A, B
<1>18. IsFiniteSet(Passed(g, h, a, l.of))
  <2>1. 1 \in Int /\ Len(h) \in Int
    BY <1>10
  <2>2. IsFiniteSet(1 .. Len(h))
    BY <2>1, FS_Interval, Zenon
  <2> QED BY <2>2, FS_Subset DEF Passed
<1>19. /\ Cardinality(Passed(g, h, a, l.of)) \in Nat
       /\ Among(r, l.of) \in Nat /\ l.most \in Nat
  BY <1>4, <1>18, FS_CardinalityType, AmongNat, CapsAre, Zenon
<1>20. Among(r, l.of) <= l.most
  BY <1>4
<1>21. Among(r, l.of) = l.most
  BY <1>16, <1>17, <1>19, <1>20
<1> QED BY <1>3, <1>16, <1>21 DEF r

LEMMA FirstIs ==
  ASSUME NEW T, NEW t \in Seq(T), NEW n \in Nat
  PROVE  LET u == First(t, n)
         IN  /\ u \in Seq(T) /\ Len(u) <= n /\ Elements(u) \subseteq Elements(t)
             /\ NoRepeats(t) => NoRepeats(u)
<1>1. Len(t) \in Nat
  OBVIOUS
<1>2. CASE Len(t) <= n
  <2>1. First(t, n) = t
    BY <1>2 DEF First
  <2> QED BY <1>2, <2>1
<1>3. CASE ~(Len(t) <= n)
  <2>1. First(t, n) = SubSeq(t, 1, n) /\ n \in 0 .. Len(t)
    BY <1>1, <1>3 DEF First
  <2>2. Len(First(t, n)) = n
    BY <2>1, PrefixIs, Zenon
  <2>3. Len(First(t, n)) <= n
    BY <2>2
  <2> QED BY <2>1, <2>3, PrefixIs, Zenon
<1> QED BY <1>2, <1>3

\* An increasing choice of places is no longer than the list it chooses from.
LEMMA PlacesFewer ==
  ASSUME NEW t, NEW s, Len(t) \in Nat, Len(s) \in Nat, NEW g, Places(g, t, s, Len(s))
  PROVE  Len(t) <= Len(s)
<1> DEFINE A == 1 .. Len(t)
           B == 1 .. Len(s)
<1>1. /\ g \in [A -> B]
      /\ \A i, j \in A : i < j => g[i] < g[j]
  BY Zenon DEF Places
<1>2. ASSUME NEW i \in A, NEW j \in A, g[i] = g[j] PROVE i = j
  <2>1. g[i] \in Nat /\ g[j] \in Nat
    BY <1>1
  <2>2. ~(i < j) /\ ~(j < i)
    BY <1>1, <1>2, <2>1
  <2> QED BY <2>2
<1>3. g \in Injection(A, B)
  <2> HIDE DEF A, B
  <2> QED BY <1>1, <1>2 DEF Injection, IsInjective
<1>4. 1 \in Int /\ Len(t) \in Int /\ Len(s) \in Int
  OBVIOUS
<1>5. /\ IsFiniteSet(A) /\ IsFiniteSet(B)
      /\ Cardinality(A) = IF 1 > Len(t) THEN 0 ELSE Len(t) - 1 + 1
      /\ Cardinality(B) = IF 1 > Len(s) THEN 0 ELSE Len(s) - 1 + 1
  BY <1>4, FS_Interval, Zenon
<1>6. Cardinality(A) <= Cardinality(B)
  <2> HIDE DEF A, B
  <2> QED BY <1>3, <1>5, FS_Injection, Zenon
<1> HIDE DEF A, B
<1> QED BY <1>5, <1>6

\* The citations of a list of matches that repeats none.
LEMMA BuildIs ==
  ASSUME NEW m \in Seq(Corpus), NoRepeats(m)
  PROVE  LET t == Build(m)
         IN  /\ Len(t) <= Len(m)
             /\ \A i \in DOMAIN t : t[i].chunk \in Elements(m) /\ t[i].chunk.dated
             /\ \A i, j \in DOMAIN t : i < j => t[i].index < t[j].index /\ t[i].chunk # t[j].chunk
<1> DEFINE s == [i \in DOMAIN m |-> [chunk |-> m[i], index |-> i]]
           T == [chunk : Corpus, index : Nat]
           S == [chunk : {c \in Corpus : c.dated}, index : Nat]
           t == Build(m)
<1>1. DOMAIN m = 1 .. Len(m) /\ Len(m) \in Nat
  OBVIOUS
<1>2. s \in Seq(T) /\ Len(s) = Len(m) /\ \A i \in 1 .. Len(m) : s[i] = [chunk |-> m[i], index |-> i]
  BY <1>1
<1>3. t = Only(s, S)
  BY Zenon DEF Build
<1> HIDE DEF s, t
<1>4. t \in Seq(T) /\ Elements(t) = Elements(s) \cap S /\ \E g : Places(g, t, s, Len(s))
  <2> HIDE DEF T, S
  <2> QED BY <1>2, <1>3, OnlyIs, Zenon
<1>5. PICK g : Places(g, t, s, Len(s))
  BY <1>4
<1>6. /\ g \in [1 .. Len(t) -> 1 .. Len(s)]
      /\ \A i \in 1 .. Len(t) : t[i] = s[g[i]]
      /\ \A i, j \in 1 .. Len(t) : i < j => g[i] < g[j]
  BY <1>5, Zenon DEF Places
<1>7. DOMAIN t = 1 .. Len(t) /\ Len(t) \in Nat
  BY <1>4
<1>8. Len(t) <= Len(m)
  BY <1>1, <1>2, <1>5, <1>7, PlacesFewer
<1>9. ASSUME NEW i \in DOMAIN t
      PROVE  /\ g[i] \in DOMAIN m
             /\ t[i].chunk = m[g[i]] /\ t[i].index = g[i]
             /\ t[i].chunk.dated
  <2>1. g[i] \in 1 .. Len(m) /\ t[i] = [chunk |-> m[g[i]], index |-> g[i]]
    BY <1>2, <1>6, <1>7
  <2>2. t[i] \in S
    <3>1. t[i] \in Elements(t)
      BY DEF Elements
    <3> QED BY <1>4, <3>1
  <2>3. t[i].chunk.dated
    BY <2>2
  <2> QED BY <1>1, <2>1, <2>3
<1>10. ASSUME NEW i \in DOMAIN t PROVE t[i].chunk \in Elements(m) /\ t[i].chunk.dated
  BY <1>9 DEF Elements
<1>11. ASSUME NEW i \in DOMAIN t, NEW j \in DOMAIN t, i < j
       PROVE  t[i].index < t[j].index /\ t[i].chunk # t[j].chunk
  <2>1. g[i] < g[j] /\ g[i] \in Nat /\ g[j] \in Nat
    BY <1>1, <1>6, <1>7, <1>9, <1>11
  <2>2. m[g[i]] # m[g[j]]
    BY <1>9, <2>1 DEF NoRepeats
  <2> QED BY <1>9, <2>1, <2>2
<1> QED BY <1>8, <1>10, <1>11 DEF t

\* Grounded in the chunks of a context.
Grounded(t, cited) ==
  /\ Len(t) <= MaxCitations
  /\ \A i \in DOMAIN t : t[i].chunk \in cited /\ t[i].chunk.dated
  /\ \A i, j \in DOMAIN t : i < j => t[i].index < t[j].index /\ t[i].chunk # t[j].chunk

LEMMA BuildGrounded ==
  ASSUME NEW m \in Seq(Corpus), NoRepeats(m), NEW cited, Elements(m) \subseteq cited
  PROVE  Grounded(Build(First(m, MaxCitations)), cited)
<1> DEFINE u == First(m, MaxCitations)
           t == Build(u)
<1>1. MaxCitations \in Nat
  BY RetrievalAssumption
<1>2. u \in Seq(Corpus) /\ Len(u) <= MaxCitations /\ Elements(u) \subseteq Elements(m) /\ NoRepeats(u)
  BY <1>1, FirstIs, Zenon
<1> HIDE DEF u
<1>3. /\ Len(t) <= Len(u)
      /\ \A i \in DOMAIN t : t[i].chunk \in Elements(u) /\ t[i].chunk.dated
      /\ \A i, j \in DOMAIN t : i < j => t[i].index < t[j].index /\ t[i].chunk # t[j].chunk
  BY <1>2, BuildIs, Zenon
<1>4. Len(t) \in Nat /\ Len(u) \in Nat
  <2> DEFINE s == [i \in DOMAIN u |-> [chunk |-> u[i], index |-> i]]
             T == [chunk : Corpus, index : Nat]
             S == [chunk : {c \in Corpus : c.dated}, index : Nat]
  <2>1. s \in Seq(T)
    <3>1. DOMAIN u = 1 .. Len(u) /\ Len(u) \in Nat /\ \A i \in 1 .. Len(u) : u[i] \in Corpus
      BY <1>2
    <3>2. s = [i \in 1 .. Len(u) |-> [chunk |-> u[i], index |-> i]]
      BY <3>1
    <3> QED BY <3>1, <3>2
  <2>2. t = Only(s, S)
    BY Zenon DEF Build
  <2> HIDE DEF s, T, S, t
  <2>3. t \in Seq(T)
    BY <2>1, <2>2, OnlyIs, Zenon
  <2> QED BY <1>2, <2>3
<1> HIDE DEF t
<1>5. Len(t) <= MaxCitations
  BY <1>1, <1>2, <1>3, <1>4
<1>6. \A i \in DOMAIN t : t[i].chunk \in cited /\ t[i].chunk.dated
  BY <1>2, <1>3
<1>7. Grounded(t, cited)
  BY <1>3, <1>5, <1>6, Zenon DEF Grounded
<1> QED BY <1>7, Zenon DEF t, u

\* Ids that the model did not make up name different chunks of the context.
LEMMA FromIdsGrounded ==
  ASSUME context \in Seq(Corpus), NEW T, NEW ids \in Seq(T)
  PROVE  Grounded(FromIds(ids), Elements(context))
<1> DEFINE I == {c.id : c \in Elements(context)}
           known == Only(Distinct(ids), I)
           m == [k \in DOMAIN known |-> CHOOSE c \in Elements(context) : c.id = known[k]]
<1>1. Elements(context) \subseteq Corpus
  BY DEF Elements
<1>2. Distinct(ids) \in Seq(T) /\ NoRepeats(Distinct(ids))
  BY DistinctIs, Zenon
<1>3. known \in Seq(T) /\ Elements(known) = Elements(Distinct(ids)) \cap I /\ NoRepeats(known)
  <2> HIDE DEF I
  <2> QED BY <1>2, OnlyIs, Zenon
<1>4. FromIds(ids) = Build(First(m, MaxCitations))
  BY Zenon DEF FromIds
<1> HIDE DEF known
<1>5. DOMAIN known = 1 .. Len(known) /\ Len(known) \in Nat
  BY <1>3
<1>6. ASSUME NEW k \in DOMAIN known
      PROVE  m[k] \in Elements(context) /\ m[k].id = known[k]
  <2>1. known[k] \in I
    <3>1. known[k] \in Elements(known)
      BY DEF Elements
    <3> QED BY <1>3, <3>1
  <2>2. \E c \in Elements(context) : c.id = known[k]
    BY <2>1
  <2> QED BY <2>2
<1>7. DOMAIN m = DOMAIN known /\ m = [k \in 1 .. Len(known) |-> m[k]]
  BY <1>5
<1> HIDE DEF m
<1>8. m \in Seq(Corpus)
  BY <1>1, <1>5, <1>6, <1>7
<1>9. NoRepeats(m)
  <2>1. \A i, j \in DOMAIN known : i # j => known[i] # known[j]
    BY <1>3 DEF NoRepeats
  <2> SUFFICES ASSUME NEW i \in DOMAIN known, NEW j \in DOMAIN known, i # j
               PROVE  m[i] # m[j]
    BY <1>7 DEF NoRepeats
  <2>2. m[i].id # m[j].id
    BY <1>6, <2>1
  <2> QED BY <2>2
<1>10. Elements(m) \subseteq Elements(context)
  <2> DEFINE E == Elements(context)
  <2>1. \A k \in DOMAIN m : m[k] \in E
    BY <1>6, <1>7
  <2> HIDE DEF E
  <2>2. Elements(m) \subseteq E
    BY <2>1 DEF Elements
  <2> QED BY <2>2 DEF E
<1> QED BY <1>4, <1>8, <1>9, <1>10, BuildGrounded, Zenon

\* Markers within the prompt name different places of it.
LEMMA FromMarkersGrounded ==
  ASSUME context \in Seq(Corpus), NoRepeats(context), NEW T, NEW marks \in Seq(T)
  PROVE  Grounded(FromMarkers(marks), Elements(context))
<1> DEFINE I == DOMAIN context
           known == Only(Distinct(marks), I)
           m == [k \in DOMAIN known |-> context[known[k]]]
<1>2. Distinct(marks) \in Seq(T) /\ NoRepeats(Distinct(marks))
  BY DistinctIs, Zenon
<1>3. known \in Seq(T) /\ Elements(known) = Elements(Distinct(marks)) \cap I /\ NoRepeats(known)
  <2> HIDE DEF I
  <2> QED BY <1>2, OnlyIs, Zenon
<1>4. FromMarkers(marks) = Build(First(m, MaxCitations))
  BY Zenon DEF FromMarkers
<1> HIDE DEF known
<1>5. DOMAIN known = 1 .. Len(known) /\ Len(known) \in Nat
  BY <1>3
<1>6. ASSUME NEW k \in DOMAIN known
      PROVE  known[k] \in DOMAIN context /\ m[k] = context[known[k]]
  <2>1. known[k] \in Elements(known)
    BY DEF Elements
  <2> QED BY <1>3, <2>1
<1>7. DOMAIN m = DOMAIN known /\ m = [k \in 1 .. Len(known) |-> m[k]]
  BY <1>5
<1> HIDE DEF m
<1>8. m \in Seq(Corpus)
  BY <1>5, <1>6, <1>7
<1>9. NoRepeats(m)
  <2>1. \A i, j \in DOMAIN known : i # j => known[i] # known[j]
    BY <1>3 DEF NoRepeats
  <2>2. \A i, j \in DOMAIN context : i # j => context[i] # context[j]
    BY DEF NoRepeats
  <2> SUFFICES ASSUME NEW i \in DOMAIN known, NEW j \in DOMAIN known, i # j
               PROVE  m[i] # m[j]
    BY <1>7 DEF NoRepeats
  <2> QED BY <1>6, <2>1, <2>2
<1>10. Elements(m) \subseteq Elements(context)
  <2> DEFINE E == Elements(context)
  <2>1. \A k \in DOMAIN m : m[k] \in E
    BY <1>6, <1>7 DEF Elements
  <2> HIDE DEF E
  <2>2. Elements(m) \subseteq E
    BY <2>1 DEF Elements
  <2> QED BY <2>2 DEF E
<1> QED BY <1>4, <1>8, <1>9, <1>10, BuildGrounded, Zenon

-----------------------------------------------------------------------------
(* The legs of a question and what they have gathered.                      *)

\* What a leg under the tickers brings, and how many legs have run.
Leg(tickers) == Retrieved(question, tickers, LegBudget)
Ran == Len(LegsOf(question)) - Len(legs)

\* The legs left are the last ones.
LegsLeft ==
  /\ legs \in Seq(SUBSET Elements(question.tickers))
  /\ Len(legs) <= Len(LegsOf(question))
  /\ \A i \in 1 .. Len(legs) : legs[i] = LegsOf(question)[Ran + i]
  /\ rstage \in {"prompt", "refused", "answered"} => legs = <<>>

\* The context is what the legs that ran brought, within their slices.
Gathered ==
  /\ \A c \in Elements(context) : \E i \in 1 .. Ran : c \in Elements(Leg(LegsOf(question)[i]))
  /\ \A i \in 1 .. Ran : Elements(Leg(LegsOf(question)[i])) \subseteq Elements(context)
  /\ LegBudget > 0 => Cost(context) <= LegBudget * Ran

RetrievalInv ==
  /\ question \in Questions /\ budget.chunks \in Int
  /\ rstage \in {"ask", "retrieve", "prompt", "refused", "answered"}
  /\ context \in Seq(Corpus) /\ NoRepeats(context)
  /\ rstage = "ask" => context = <<>>
  /\ rstage # "ask" => LegsLeft /\ Gathered
  /\ rstage # "answered" => citations = <<>>
  /\ CitationsGrounded

LEMMA AllocateInt ==
  ASSUME NEW q \in Questions
  PROVE  Allocate(q).chunks \in Int
<1>1. {q.window, q.system, q.answer, q.history, q.fallback} \subseteq Nat
  BY QuestionsAssumption, Zenon
<1>2. Floor \in Int /\ q.fallback \in Int /\ q.window - q.system - q.answer \in Int
  BY <1>1, RetrievalAssumption
<1>3. \A n \in Nat : (IF q.history > 0 THEN q.history ELSE (n * 15) \div 100) \in Int
  BY <1>1
<1> QED BY <1>1, <1>2, <1>3 DEF Allocate, AtLeast

\* One leg per ticker, or one leg for all of them.
LEMMA LegsAre ==
  ASSUME NEW q \in Questions
  PROVE  /\ LegsOf(q) \in Seq(SUBSET Elements(q.tickers)) /\ Len(LegsOf(q)) \in Nat \ {0}
         /\ FanOut(q) => /\ Len(q.tickers) \in Nat \ {0} /\ Len(LegsOf(q)) = Len(q.tickers)
                         /\ \A i \in 1 .. Len(q.tickers) : LegsOf(q)[i] = {q.tickers[i]}
         /\ ~FanOut(q) => Len(LegsOf(q)) = 1 /\ LegsOf(q)[1] = Elements(q.tickers)
<1> DEFINE E == Elements(q.tickers)
           T == SUBSET E
<1>1. q.tickers \in Seq(E)
  BY QuestionsAssumption, Zenon
<1>2. DOMAIN q.tickers = 1 .. Len(q.tickers) /\ Len(q.tickers) \in Nat
      /\ \A i \in 1 .. Len(q.tickers) : q.tickers[i] \in E
  <2> HIDE DEF E
  <2> QED BY <1>1
<1>3. CASE FanOut(q)
  <2>1. LegsOf(q) = [i \in 1 .. Len(q.tickers) |-> {q.tickers[i]}]
    BY <1>2, <1>3 DEF LegsOf
  <2>2. Len(q.tickers) \in Nat \ {0}
    BY <1>2, <1>3 DEF FanOut
  <2>3. \A i \in 1 .. Len(q.tickers) : {q.tickers[i]} \in T
    BY <1>2
  <2> HIDE DEF E, T
  <2>4. LegsOf(q) \in Seq(T) /\ Len(LegsOf(q)) = Len(q.tickers)
    BY <1>2, <2>1, <2>3
  <2>5. \A i \in 1 .. Len(q.tickers) : LegsOf(q)[i] = {q.tickers[i]}
    BY <2>1
  <2> QED BY <1>3, <2>2, <2>4, <2>5, Zenon DEF E, T
<1>4. CASE ~FanOut(q)
  <2>1. LegsOf(q) = <<E>>
    BY <1>4 DEF LegsOf, Elements
  <2>2. E \in T
    OBVIOUS
  <2> HIDE DEF E, T
  <2>3. LegsOf(q) \in Seq(T) /\ Len(LegsOf(q)) = 1 /\ LegsOf(q)[1] = E
    BY <2>1, <2>2
  <2>4. Len(LegsOf(q)) \in Nat \ {0}
    BY <2>3
  <2> QED BY <1>4, <2>3, <2>4, Zenon DEF E, T
<1> QED BY <1>3, <1>4

LEMMA LegBudgetInt ==
  ASSUME question \in Questions, budget.chunks \in Int
  PROVE  LegBudget \in Int
<1>1. CASE FanOut(question)
  <2>1. Len(question.tickers) \in Nat \ {0}
    BY <1>1, LegsAre, Zenon
  <2>2. budget.chunks \div Len(question.tickers) \in Int /\ Floor \in Int
    BY <2>1, RetrievalAssumption
  <2> QED BY <1>1, <2>2 DEF LegBudget, AtLeast
<1> QED BY <1>1 DEF LegBudget

LEMMA TailIs ==
  ASSUME NEW T, NEW s \in Seq(T), s # <<>>
  PROVE  /\ Len(s) \in Nat \ {0} /\ Head(s) = s[1]
         /\ Tail(s) \in Seq(T) /\ Len(Tail(s)) = Len(s) - 1
         /\ \A i \in 1 .. Len(Tail(s)) : Tail(s)[i] = s[i + 1]
  OBVIOUS

LEMMA Products ==
  ASSUME NEW a \in Nat, NEW n \in Nat
  PROVE  a * n \in Nat /\ a * 0 = 0 /\ a * (n + 1) = a * n + a
<1>1. a * n \in Nat
  OBVIOUS
<1>2. a * 0 = 0
  OBVIOUS
<1>3. a * (n + 1) = a * n + a
  OBVIOUS
<1> QED BY <1>1, <1>2, <1>3

LEMMA ProductGrows ==
  ASSUME NEW a \in Nat, NEW n \in Nat, NEW m \in Nat, n <= m
  PROVE  a * n <= a * m
<1> DEFINE k == m - n
<1>1. k \in Nat /\ m = n + k
  OBVIOUS
<1> HIDE DEF k
<1>2. a * (n + k) = a * n + a * k
  BY <1>1
<1>3. a * k \in Nat /\ a * n \in Nat
  BY <1>1, Products, Zenon
<1> QED BY <1>1, <1>2, <1>3

-----------------------------------------------------------------------------
(* The invariant says the properties.                                       *)

LEMMA CostKept ==
  ASSUME RetrievalInv, LegBudget > 0
  PROVE  Cost(context) <= LegBudget * Len(LegsOf(question))
<1>1. question \in Questions /\ LegBudget \in Nat /\ Len(LegsOf(question)) \in Nat
  <2>1. question \in Questions /\ budget.chunks \in Int
    BY DEF RetrievalInv
  <2>2. LegBudget \in Int
    BY <2>1, LegBudgetInt
  <2>3. Len(LegsOf(question)) \in Nat
    BY <2>1, LegsAre
  <2> QED BY <2>1, <2>2, <2>3
<1>2. CASE rstage = "ask"
  <2>1. Cost(context) = 0
    BY <1>2, CostEmpty DEF RetrievalInv
  <2>2. LegBudget * Len(LegsOf(question)) \in Nat
    BY <1>1, Products
  <2> QED BY <2>1, <2>2
<1>3. CASE rstage # "ask"
  <2>1. LegsLeft /\ Gathered
    BY <1>3 DEF RetrievalInv
  <2>2. Len(legs) \in Nat /\ Len(legs) <= Len(LegsOf(question))
    BY <2>1 DEF LegsLeft
  <2>3. Ran \in Nat /\ Ran <= Len(LegsOf(question))
    BY <1>1, <2>2 DEF Ran
  <2>4. Cost(context) <= LegBudget * Ran
    BY <2>1 DEF Gathered
  <2>5. LegBudget * Ran <= LegBudget * Len(LegsOf(question))
    BY <1>1, <2>3, ProductGrows
  <2>6. Cost(context) \in Nat
    BY CostNat DEF RetrievalInv
  <2>7. LegBudget * Ran \in Nat /\ LegBudget * Len(LegsOf(question)) \in Nat
    BY <1>1, <2>3, Products
  <2> QED BY <2>4, <2>5, <2>6, <2>7
<1> QED BY <1>2, <1>3

\* Which leg a chunk of the context came with.
LEMMA Brought ==
  ASSUME RetrievalInv, NEW c \in Elements(context)
  PROVE  /\ c \in Corpus
         /\ \E i \in 1 .. Len(LegsOf(question)) :
              /\ c \in Elements(Leg(LegsOf(question)[i]))
              /\ Elements(Leg(LegsOf(question)[i])) \subseteq Elements(context)
<1>1. c \in Corpus /\ rstage # "ask"
  <2>1. context \in Seq(Corpus) /\ (rstage = "ask" => context = <<>>)
    BY DEF RetrievalInv
  <2>2. c \in Corpus
    BY <2>1 DEF Elements
  <2>3. context # <<>>
    BY DEF Elements
  <2> QED BY <2>1, <2>2, <2>3
<1>2. question \in Questions /\ LegsLeft /\ Gathered
  BY <1>1 DEF RetrievalInv
<1>3. Len(legs) \in Nat /\ Len(LegsOf(question)) \in Nat
  <2>1. Len(legs) \in Nat
    BY <1>2 DEF LegsLeft
  <2>2. Len(LegsOf(question)) \in Nat
    BY <1>2, LegsAre
  <2> QED BY <2>1, <2>2
<1>4. PICK i \in 1 .. Ran : c \in Elements(Leg(LegsOf(question)[i]))
  BY <1>2 DEF Gathered
<1>5. i \in 1 .. Len(LegsOf(question))
  BY <1>3 DEF Ran
<1>6. Elements(Leg(LegsOf(question)[i])) \subseteq Elements(context)
  BY <1>2 DEF Gathered
<1> QED BY <1>1, <1>4, <1>5, <1>6

\* What a leg brings, of the state's question.
LEMMA LegIs ==
  ASSUME RetrievalInv, NEW tickers
  PROVE  /\ Leg(tickers) \in Seq(Corpus) /\ NoRepeats(Leg(tickers))
         /\ \A c \in Elements(Leg(tickers)) : tickers = {} \/ c.ticker \in tickers
         /\ LegBudget > 0 => Cost(Leg(tickers)) <= LegBudget
         /\ \A l \in Caps : Among(Leg(tickers), l.of) <= l.most
<1>1. question \in Questions /\ LegBudget \in Int
  <2>1. question \in Questions /\ budget.chunks \in Int
    BY DEF RetrievalInv
  <2> QED BY <2>1, LegBudgetInt
<1> QED BY <1>1, RetrievedIs, Zenon DEF Leg

LEMMA TickerKept ==
  ASSUME RetrievalInv, NEW c \in Elements(context)
  PROVE  c.ticker \in Asked(question)
<1>1. question \in Questions
  BY DEF RetrievalInv
<1>2. c \in Corpus
  BY Brought
<1>3. PICK i \in 1 .. Len(LegsOf(question)) : c \in Elements(Leg(LegsOf(question)[i]))
  BY Brought
<1> DEFINE L == LegsOf(question)[i]
           E == Elements(question.tickers)
<1>4. L \in SUBSET E
  <2> HIDE DEF E
  <2>1. LegsOf(question) \in Seq(SUBSET E)
    BY <1>1, LegsAre DEF E
  <2> QED BY <2>1
<1>5. L = {} \/ c.ticker \in L
  BY <1>3, LegIs
<1>6. CASE c.ticker \in L
  <2>1. c.ticker \in E
    BY <1>4, <1>6
  <2>2. question.tickers # <<>>
    BY <2>1 DEF Elements
  <2> QED BY <2>1, <2>2 DEF Asked, Elements
<1>7. CASE L = {}
  <2>1. ~FanOut(question)
    <3>1. FanOut(question) => L # {}
      BY <1>1, <1>3, LegsAre
    <3> QED BY <1>7, <3>1
  <2>2. E = {}
    <3>1. Len(LegsOf(question)) = 1 /\ LegsOf(question)[1] = E
      BY <1>1, <2>1, LegsAre
    <3>2. i = 1
      BY <3>1
    <3> QED BY <1>7, <3>1, <3>2
  <2>3. question.tickers = <<>>
    <3>1. question.tickers \in Seq(E)
      BY <1>1, QuestionsAssumption, Zenon
    <3> HIDE DEF E
    <3> QED BY <2>2, <3>1
  <2> QED BY <1>2, <2>3 DEF Asked
<1> QED BY <1>5, <1>6, <1>7

\* A filing's chunks all come with legs under the same tickers, so with one leg.
LEMMA FilingKept ==
  ASSUME RetrievalInv, PerFiling > 0, NEW f
  PROVE  Among(context, InFiling(f)) <= PerFiling
<1>0. PerFiling \in Nat /\ context \in Seq(Corpus) /\ NoRepeats(context) /\ question \in Questions
  BY RetrievalAssumption DEF RetrievalInv
<1>1. CASE Elements(context) \cap InFiling(f) = {}
  <2>1. Among(context, InFiling(f)) = 0
    BY <1>0, <1>1, AmongNone, Zenon
  <2> QED BY <1>0, <2>1
<1>2. CASE Elements(context) \cap InFiling(f) # {}
  <2>1. PICK c \in Elements(context) : c \in InFiling(f)
    BY <1>2
  <2>2. c \in Corpus /\ c.filing = f
    BY <2>1 DEF InFiling
  <2>3. PICK i \in 1 .. Len(LegsOf(question)) : c \in Elements(Leg(LegsOf(question)[i]))
    BY <2>1, Brought
  <2> DEFINE u == Leg(LegsOf(question)[i])
  <2>4. ASSUME NEW d \in Elements(context), d \in InFiling(f) PROVE d \in Elements(u)
    <3>1. d \in Corpus /\ d.ticker = c.ticker
      <4>1. d \in Corpus /\ d.filing = f
        BY <2>4 DEF InFiling
      <4>2. \A x, y \in Corpus : x.filing = y.filing => x.ticker = y.ticker
        BY CorpusAssumption
      <4> QED BY <2>2, <4>1, <4>2
    <3>2. PICK j \in 1 .. Len(LegsOf(question)) : d \in Elements(Leg(LegsOf(question)[j]))
      BY Brought
    <3>3. LegsOf(question)[i] = LegsOf(question)[j]
      <4>1. CASE FanOut(question)
        <5>1. /\ LegsOf(question)[i] = {question.tickers[i]}
              /\ LegsOf(question)[j] = {question.tickers[j]}
          BY <1>0, <2>3, <3>2, <4>1, LegsAre
        <5>2. c.ticker \in LegsOf(question)[i]
          <6>1. LegsOf(question)[i] = {} \/ c.ticker \in LegsOf(question)[i]
            BY <2>3, LegIs
          <6> QED BY <5>1, <6>1
        <5>3. d.ticker \in LegsOf(question)[j]
          <6>1. LegsOf(question)[j] = {} \/ d.ticker \in LegsOf(question)[j]
            BY <3>2, LegIs
          <6> QED BY <5>1, <6>1
        <5> QED BY <3>1, <5>1, <5>2, <5>3
      <4>2. CASE ~FanOut(question)
        <5>1. Len(LegsOf(question)) = 1
          BY <1>0, <4>2, LegsAre
        <5> QED BY <2>3, <3>2, <5>1
      <4> QED BY <4>1, <4>2
    <3> QED BY <3>2, <3>3
  <2>5. u \in Seq(Corpus) /\ \A l \in Caps : Among(u, l.of) <= l.most
    BY LegIs
  <2> HIDE DEF u
  <2>6. Among(context, InFiling(f)) <= Among(u, InFiling(f))
    <3>1. Elements(context) \cap InFiling(f) \subseteq Elements(u)
      BY <2>4
    <3> QED BY <1>0, <2>5, <3>1, AmongFewer
  <2>7. Among(u, InFiling(f)) <= PerFiling
    <3> DEFINE l == [of |-> InFiling(f), most |-> PerFiling]
    <3>1. l \in Caps
      BY <2>2 DEF Caps
    <3>2. Among(u, l.of) <= l.most
      BY <2>5, <3>1
    <3> QED BY <3>2
  <2>8. Among(context, InFiling(f)) \in Nat /\ Among(u, InFiling(f)) \in Nat
    BY <1>0, <2>5, AmongNat, Zenon
  <2> QED BY <1>0, <2>6, <2>7, <2>8
<1> QED BY <1>1, <1>2

LEMMA BestKept ==
  ASSUME RetrievalInv
  PROVE  BestFirst
<1> SUFFICES ASSUME rstage \in {"prompt", "answered"}, ~FanOut(question),
                    NEW c \in Corpus, NEW d \in Corpus,
                    Before(Reranked(question, Fetch(question, LegsOf(question)[1])), c, d),
                    d \in Elements(context), c \notin Elements(context)
             PROVE  \/ PerSection > 0 /\ Among(context, InSection(c.section)) = PerSection
                    \/ PerFiling > 0 /\ Among(context, InFiling(c.filing)) = PerFiling
  BY DEF BestFirst
<1> DEFINE L == LegsOf(question)[1]
           r == Retrieved(question, L, LegBudget)
<1>1. question \in Questions /\ LegBudget \in Int /\ context \in Seq(Corpus) /\ NoRepeats(context)
  <2>1. question \in Questions /\ budget.chunks \in Int /\ context \in Seq(Corpus) /\ NoRepeats(context)
    BY DEF RetrievalInv
  <2> QED BY <2>1, LegBudgetInt
<1>2. Elements(context) = Elements(r)
  <2>1. LegsLeft /\ Gathered /\ legs = <<>>
    BY DEF RetrievalInv, LegsLeft
  <2>2. Len(LegsOf(question)) = 1
    BY <1>1, LegsAre
  <2>3. Ran = 1
    BY <2>1, <2>2 DEF Ran
  <2> DEFINE lg == Leg(L)
  <2>4. /\ \A e \in Elements(context) : \E i \in 1 .. Ran : e \in Elements(Leg(LegsOf(question)[i]))
        /\ \A i \in 1 .. Ran : Elements(Leg(LegsOf(question)[i])) \subseteq Elements(context)
    BY <2>1, Zenon DEF Gathered
  <2>5. Elements(context) = Elements(Leg(L))
    <3>1. \A i \in 1 .. Ran : LegsOf(question)[i] = L
      BY <2>3
    <3>2. 1 \in 1 .. Ran
      BY <2>3
    <3> HIDE DEF L
    <3> QED BY <2>4, <3>1, <3>2
  <2> QED BY <2>5, Zenon DEF Leg
<1>3. r \in Seq(Corpus) /\ NoRepeats(r)
  BY <1>1, RetrievedIs, Zenon
<1>4. PICK l \in Caps : c \in l.of /\ Among(r, l.of) = l.most
  BY <1>1, <1>2, LegBest
<1> HIDE DEF r
<1>5. Among(context, l.of) = Among(r, l.of)
  <2>1. Among(context, l.of) <= Among(r, l.of) /\ Among(r, l.of) <= Among(context, l.of)
    BY <1>1, <1>2, <1>3, AmongFewer
  <2>2. Among(context, l.of) \in Nat /\ Among(r, l.of) \in Nat
    BY <1>1, <1>3, AmongNat, Zenon
  <2> QED BY <2>1, <2>2
<1>6. \/ PerSection > 0 /\ l.of = InSection(c.section) /\ l.most = PerSection
      \/ PerFiling > 0 /\ l.of = InFiling(c.filing) /\ l.most = PerFiling
  BY <1>4, CapsAre, Zenon
<1> QED BY <1>4, <1>5, <1>6

LEMMA InvSound == RetrievalInv => ContextSound
<1> SUFFICES ASSUME RetrievalInv PROVE ContextSound
  OBVIOUS
<1>1. NoRepeats(context)
  BY DEF RetrievalInv
<1>2. \A i \in DOMAIN context : context[i].ticker \in Asked(question)
  BY TickerKept DEF Elements
<1>3. PerFiling > 0 => \A f \in {c.filing : c \in Corpus} : Among(context, InFiling(f)) <= PerFiling
  BY FilingKept
<1>4. LegBudget > 0 => Cost(context) <= LegBudget * Len(LegsOf(question))
  BY CostKept
<1>5. BestFirst
  BY BestKept
<1> QED BY <1>1, <1>2, <1>3, <1>4, <1>5, Zenon DEF ContextSound, ContextKeepsItsLimits

-----------------------------------------------------------------------------
(* The invariant is inductive.                                              *)

LEMMA RetrievalInit == RInit => RetrievalInv
<1> SUFFICES ASSUME RInit PROVE RetrievalInv
  OBVIOUS
<1>1. /\ question \in Questions /\ budget = [history |-> 0, chunks |-> 0]
      /\ context = <<>> /\ citations = <<>> /\ rstage = "ask"
  BY DEF RInit
<1>2. context \in Seq(Corpus) /\ NoRepeats(context)
  BY <1>1 DEF NoRepeats
<1>3. CitationsGrounded
  BY <1>1, RetrievalAssumption DEF CitationsGrounded
<1> QED BY <1>1, <1>2, <1>3 DEF RetrievalInv

LEMMA PlanKeeps ==
  ASSUME RetrievalInv, Plan
  PROVE  RetrievalInv'
<1>1. /\ rstage = "ask" /\ rstage' = "retrieve"
      /\ budget' = Allocate(question) /\ legs' = LegsOf(question)
      /\ question' = question /\ context' = context /\ citations' = citations
  BY DEF Plan
<1>2. /\ question \in Questions /\ context = <<>> /\ citations = <<>>
      /\ context \in Seq(Corpus) /\ NoRepeats(context)
  BY <1>1 DEF RetrievalInv
<1>3. budget'.chunks \in Int
  BY <1>1, <1>2, AllocateInt
<1>4. LegsOf(question)' = LegsOf(question) /\ Len(LegsOf(question)) \in Nat
  <2>1. LegsOf(question)' = LegsOf(question)
    BY <1>1 DEF LegsOf, FanOut
  <2> QED BY <1>2, <2>1, LegsAre
<1>5. Ran' = 0
  BY <1>1, <1>4 DEF Ran
<1>6. LegsLeft'
  <2>1. LegsOf(question) \in Seq(SUBSET Elements(question.tickers))
    BY <1>2, LegsAre
  <2>2. Elements(question.tickers)' = Elements(question.tickers)
    BY <1>1 DEF Elements
  <2> DEFINE s == LegsOf(question)
  <2>3. s \in Seq(SUBSET Elements(question.tickers)) /\ Len(s) \in Nat /\ s' = s /\ legs' = s
    BY <1>1, <1>4, <2>1
  <2> HIDE DEF s
  <2>4. /\ Len(legs') <= Len(s)
        /\ \A i \in 1 .. Len(legs') : legs'[i] = s[0 + i]
    BY <2>3
  <2>5. /\ Len(legs') <= Len(s')
        /\ \A i \in 1 .. Len(legs') : legs'[i] = s'[Ran' + i]
    BY <1>5, <2>3, <2>4
  <2>6. legs' \in Seq(SUBSET Elements(question.tickers)')
    BY <2>2, <2>3
  <2>7. ~(rstage' \in {"prompt", "refused", "answered"})
    BY <1>1
  <2> QED BY <2>5, <2>6, <2>7, Zenon DEF LegsLeft, s
<1>7. Gathered'
  <2>1. context' = <<>> /\ Elements(context') = {}
    BY <1>1, <1>2 DEF Elements
  <2>2. Cost(context') = 0
    BY <2>1, CostEmpty
  <2>3. LegBudget' \in Int
    <3>1. (question \in Questions)' /\ (budget.chunks \in Int)'
      BY <1>1, <1>2, <1>3
    <3>2. ((question \in Questions /\ budget.chunks \in Int) => LegBudget \in Int)'
      BY LegBudgetInt, PTL
    <3> QED BY <3>1, <3>2
  <2>4. LegBudget' > 0 => Cost(context') <= LegBudget' * Ran'
    <3>1. \A a \in Int : a * 0 = 0
      OBVIOUS
    <3>2. LegBudget' * Ran' = 0
      BY <1>5, <2>3, <3>1, Zenon
    <3> QED BY <2>2, <3>2
  <2>5. \A c \in Elements(context') : FALSE
    BY <2>1
  <2>6. 1 .. Ran' = {}
    BY <1>5
  <2>7. Cost(context)' = Cost(context') /\ Elements(context)' = Elements(context')
    BY DEF Cost, Elements
  <2> QED BY <2>4, <2>5, <2>6, <2>7 DEF Gathered
<1>8. CitationsGrounded'
  BY <1>1, <1>2, RetrievalAssumption DEF CitationsGrounded
<1>9. (NoRepeats(context))'
  BY <1>1, <1>2 DEF NoRepeats
<1> QED BY <1>1, <1>2, <1>3, <1>6, <1>7, <1>8, <1>9 DEF RetrievalInv

LEMMA RunLegKeeps ==
  ASSUME RetrievalInv, RunLeg
  PROVE  RetrievalInv'
<1> DEFINE more == Leg(Head(legs))
           S == Corpus \ Elements(context)
           kept == Only(more, S)
<1>1. /\ rstage = "retrieve" /\ legs # <<>>
      /\ context' = context \o kept /\ legs' = Tail(legs)
      /\ question' = question /\ budget' = budget /\ citations' = citations /\ rstage' = rstage
  BY Zenon DEF RunLeg, Merged, Leg
<1>2. /\ question \in Questions /\ budget.chunks \in Int /\ citations = <<>>
      /\ context \in Seq(Corpus) /\ NoRepeats(context) /\ LegsLeft /\ Gathered
  BY <1>1 DEF RetrievalInv
<1>3. LegBudget \in Int
  BY <1>2, LegBudgetInt
<1>4. more \in Seq(Corpus) /\ NoRepeats(more) /\ (LegBudget > 0 => Cost(more) <= LegBudget)
  BY LegIs
<1>5. Elements(more) \subseteq Corpus
  BY <1>4 DEF Elements
<1> HIDE DEF more
<1>6. kept \in Seq(Corpus) /\ Elements(kept) = Elements(more) \cap S /\ NoRepeats(kept)
  <2> HIDE DEF S
  <2> QED BY <1>4, OnlyIs, Zenon
<1>7. /\ context' \in Seq(Corpus) /\ NoRepeats(context')
      /\ Elements(context') = Elements(context) \cup Elements(more)
  <2>1. Elements(context) \cap Elements(kept) = {}
    BY <1>6
  <2> HIDE DEF kept
  <2>2. /\ context \o kept \in Seq(Corpus) /\ NoRepeats(context \o kept)
        /\ Elements(context \o kept) = Elements(context) \cup Elements(kept)
    <3>1. kept \in Seq(Corpus) /\ NoRepeats(kept)
      BY <1>6
    <3> QED BY <1>2, <2>1, <3>1, JoinIs
  <2>3. Elements(context) \cup Elements(kept) = Elements(context) \cup Elements(more)
    BY <1>5, <1>6
  <2> QED BY <1>1, <2>2, <2>3, Zenon
<1>8. LegsOf(question)' = LegsOf(question) /\ LegBudget' = LegBudget
  BY <1>1, Zenon DEF LegsOf, LegBudget, FanOut
<1>9. /\ Len(legs) \in Nat \ {0} /\ Head(legs) = legs[1] /\ Len(legs) <= Len(LegsOf(question))
      /\ legs' \in Seq(SUBSET Elements(question.tickers)) /\ Len(legs') = Len(legs) - 1
      /\ \A i \in 1 .. Len(legs') : legs'[i] = legs[i + 1]
  <2>1. legs \in Seq(SUBSET Elements(question.tickers)) /\ Len(legs) <= Len(LegsOf(question))
    BY <1>2 DEF LegsLeft
  <2> DEFINE T == SUBSET Elements(question.tickers)
  <2>2. legs \in Seq(T) /\ legs # <<>>
    BY <1>1, <2>1
  <2> HIDE DEF T
  <2>3. /\ Len(legs) \in Nat \ {0} /\ Head(legs) = legs[1]
        /\ Tail(legs) \in Seq(T) /\ Len(Tail(legs)) = Len(legs) - 1
        /\ \A i \in 1 .. Len(Tail(legs)) : Tail(legs)[i] = legs[i + 1]
    BY <2>2, TailIs, Zenon
  <2> QED BY <1>1, <2>1, <2>3, Zenon DEF T
<1>10. Len(LegsOf(question)) \in Nat
  BY <1>2, LegsAre
<1>11. Ran \in Nat /\ Ran' = Ran + 1 /\ Ran' <= Len(LegsOf(question))
  <2>1. Ran' = Len(LegsOf(question)) - Len(legs')
    BY <1>8, Zenon DEF Ran
  <2> QED BY <1>9, <1>10, <2>1 DEF Ran
<1>12. legs[1] = LegsOf(question)[Ran + 1]
  BY <1>2, <1>9 DEF LegsLeft
<1>13. LegsLeft'
  <2> DEFINE s == LegsOf(question)
  <2>1. \A i \in 1 .. Len(legs) : legs[i] = s[Ran + i]
    BY <1>2, Zenon DEF LegsLeft
  <2> HIDE DEF s
  <2>2. ASSUME NEW i \in 1 .. Len(legs') PROVE legs'[i] = s[Ran' + i]
    <3>1. i + 1 \in 1 .. Len(legs) /\ i \in Nat /\ Ran + (i + 1) = Ran' + i
      BY <1>9, <1>11
    <3> QED BY <1>9, <2>1, <3>1
  <2>3. Elements(question.tickers)' = Elements(question.tickers)
    BY <1>1 DEF Elements
  <2>4. legs' \in Seq(SUBSET Elements(question.tickers)')
    BY <1>9, <2>3
  <2>5. s' = s
    BY <1>8, Zenon DEF s
  <2>6. Len(legs') <= Len(s)
    BY <1>9, <1>10 DEF s
  <2>7. ~(rstage' \in {"prompt", "refused", "answered"})
    BY <1>1
  <2> QED BY <2>2, <2>4, <2>5, <2>6, <2>7, Zenon DEF LegsLeft, s
<1>14. \A tickers : Leg(tickers)' = Leg(tickers)
  BY <1>1, <1>8, Zenon DEF Leg
<1>15. Gathered'
  <2> DEFINE s == LegsOf(question)
             Of(i) == Elements(Leg(s[i]))
  <2>1. \A i : Of(i)' = Of(i)
    BY <1>1, <1>8, Zenon DEF Leg, Elements
  <2>2. Of(Ran + 1) = Elements(more)
    BY <1>9, <1>12, Zenon DEF more
  <2>3. /\ \A c \in Elements(context) : \E i \in 1 .. Ran : c \in Of(i)
        /\ \A i \in 1 .. Ran : Of(i) \subseteq Elements(context)
        /\ LegBudget > 0 => Cost(context) <= LegBudget * Ran
    BY <1>2, Zenon DEF Gathered
  <2> HIDE DEF Of, s
  <2>4. 1 .. Ran' = (1 .. Ran) \cup {Ran + 1}
    BY <1>11
  <2>5. \A c \in Elements(context') : \E i \in 1 .. Ran' : c \in Of(i)
    BY <1>7, <2>2, <2>3, <2>4
  <2>6. \A i \in 1 .. Ran' : Of(i) \subseteq Elements(context')
    BY <1>7, <2>2, <2>3, <2>4
  <2>7. ASSUME LegBudget > 0 PROVE Cost(context') <= LegBudget * Ran'
    <3>1. Cost(context \o kept) <= Cost(context) + Cost(more)
      BY <1>2, <1>4, CostSieve DEF Only
    <3>2. Cost(context') \in Nat /\ Cost(context) \in Nat /\ Cost(more) \in Nat
      BY <1>2, <1>4, <1>7, CostNat
    <3>3. LegBudget \in Nat
      BY <1>3, <2>7
    <3>4. LegBudget * Ran \in Nat /\ LegBudget * (Ran + 1) = LegBudget * Ran + LegBudget
      BY <1>11, <3>3, Products
    <3> HIDE DEF kept
    <3>5. Cost(context') <= Cost(context) + Cost(more)
      BY <1>1, <3>1
    <3>6. Cost(context) <= LegBudget * Ran /\ Cost(more) <= LegBudget
      BY <1>4, <2>3, <2>7
    <3>7. Cost(context') <= LegBudget * (Ran + 1)
      BY <3>2, <3>3, <3>4, <3>5, <3>6
    <3> QED BY <1>11, <3>7
  <2>8. Cost(context)' = Cost(context') /\ Elements(context)' = Elements(context')
    BY DEF Cost, Elements
  <2>9. /\ \A c \in Elements(context)' : \E i \in 1 .. Ran' : c \in Of(i)'
        /\ \A i \in 1 .. Ran' : Of(i)' \subseteq Elements(context)'
        /\ LegBudget' > 0 => Cost(context)' <= LegBudget' * Ran'
    BY <1>8, <2>1, <2>5, <2>6, <2>7, <2>8
  <2> QED BY <2>9, Zenon DEF Gathered, Of, s
<1>16. CitationsGrounded'
  BY <1>1, <1>2, RetrievalAssumption DEF CitationsGrounded
<1>17. (NoRepeats(context))'
  BY <1>7 DEF NoRepeats
<1> QED BY <1>1, <1>2, <1>7, <1>13, <1>15, <1>16, <1>17 DEF RetrievalInv

\* Once the legs have run nothing about them changes any more.
LEMMA GatheredStays ==
  ASSUME RetrievalInv, rstage # "ask",
         UNCHANGED <<question, budget, legs, context>>,
         rstage' \in {"prompt", "refused", "answered"} => legs = <<>>
  PROVE  LegsLeft' /\ Gathered'
<1>1. LegsLeft /\ Gathered
  BY DEF RetrievalInv
<1>2. LegsOf(question)' = LegsOf(question) /\ LegBudget' = LegBudget /\ Ran' = Ran
  BY Zenon DEF LegsOf, LegBudget, FanOut, Ran
<1>3. Elements(question.tickers)' = Elements(question.tickers) /\ Elements(context)' = Elements(context)
  BY Zenon DEF Elements
<1>4. LegsLeft'
  BY <1>1, <1>2, <1>3, Zenon DEF LegsLeft
<1>5. Cost(context)' = Cost(context)
  BY Zenon DEF Cost
<1> DEFINE Of(i) == Elements(Leg(LegsOf(question)[i]))
<1>6. \A i : Of(i)' = Of(i)
  BY <1>2, Zenon DEF Leg, Elements
<1>7. /\ \A c \in Elements(context) : \E i \in 1 .. Ran : c \in Of(i)
      /\ \A i \in 1 .. Ran : Of(i) \subseteq Elements(context)
      /\ LegBudget > 0 => Cost(context) <= LegBudget * Ran
  BY <1>1, Zenon DEF Gathered
<1> HIDE DEF Of
<1>8. /\ \A c \in Elements(context)' : \E i \in 1 .. Ran' : c \in Of(i)'
      /\ \A i \in 1 .. Ran' : Of(i)' \subseteq Elements(context)'
      /\ LegBudget' > 0 => Cost(context)' <= LegBudget' * Ran'
  BY <1>2, <1>3, <1>5, <1>6, <1>7
<1> QED BY <1>4, <1>8, Zenon DEF Gathered, Of

LEMMA PromptKeeps ==
  ASSUME RetrievalInv, Prompt
  PROVE  RetrievalInv'
<1>1. /\ rstage = "retrieve" /\ legs = <<>> /\ rstage' \in {"prompt", "refused"}
      /\ question' = question /\ budget' = budget /\ legs' = legs
      /\ context' = context /\ citations' = citations
  BY DEF Prompt
<1>2. LegsLeft' /\ Gathered'
  BY <1>1, GatheredStays
<1>3. citations' = <<>>
  BY <1>1 DEF RetrievalInv
<1>4. CitationsGrounded'
  BY <1>3, RetrievalAssumption DEF CitationsGrounded
<1> QED BY <1>1, <1>2, <1>3, <1>4 DEF RetrievalInv, NoRepeats

LEMMA AnswerKeeps ==
  ASSUME RetrievalInv, NEW marks \in Marks, Answer(marks)
  PROVE  RetrievalInv'
<1>1. /\ rstage = "prompt" /\ rstage' = "answered"
      /\ citations' = FromIds(marks) \/ citations' = FromMarkers(marks)
      /\ question' = question /\ budget' = budget /\ legs' = legs /\ context' = context
  BY Zenon DEF Answer
<1>2. context \in Seq(Corpus) /\ NoRepeats(context) /\ LegsLeft
  BY <1>1 DEF RetrievalInv
<1>3. LegsLeft' /\ Gathered'
  <2>1. legs = <<>>
    BY <1>1, <1>2 DEF LegsLeft
  <2> QED BY <1>1, <2>1, GatheredStays
<1>4. marks \in Seq(0 .. 3)
  <2>1. PICK n \in 0 .. 3 : marks \in [1 .. n -> 0 .. 3]
    BY DEF Marks
  <2> QED BY <2>1
<1>5. Grounded(citations', Elements(context))
  BY <1>1, <1>2, <1>4, FromIdsGrounded, FromMarkersGrounded, Zenon
<1>6. Elements(context)' = Elements(context)
  BY <1>1, Zenon DEF Elements
<1>7. CitationsGrounded'
  BY <1>5, <1>6, Zenon DEF CitationsGrounded, Grounded
<1> QED BY <1>1, <1>3, <1>7 DEF RetrievalInv, NoRepeats

\* The inductive invariant of retrieval: the legs left are the last of the question's,
\* the context is what the others brought, once each and within their slices.
THEOREM RetrievalInvariant == RSpec => []RetrievalInv
<1>1. RInit => RetrievalInv
  BY RetrievalInit
<1>2. RetrievalInv /\ [RNext]_rvars => RetrievalInv'
  <2> SUFFICES ASSUME RetrievalInv, [RNext]_rvars PROVE RetrievalInv'
    OBVIOUS
  <2>1. CASE Plan
    BY <2>1, PlanKeeps
  <2>2. CASE RunLeg
    BY <2>2, RunLegKeeps
  <2>3. CASE Prompt
    BY <2>3, PromptKeeps
  <2>4. CASE \E marks \in Marks : Answer(marks)
    BY <2>4, AnswerKeeps
  <2>5. CASE UNCHANGED rvars
    <3>1. /\ question' = question /\ budget' = budget /\ legs' = legs
          /\ context' = context /\ citations' = citations /\ rstage' = rstage
      BY <2>5 DEF rvars
    <3>2. rstage # "ask" => LegsLeft' /\ Gathered'
      <4> SUFFICES ASSUME rstage # "ask" PROVE LegsLeft' /\ Gathered'
        OBVIOUS
      <4>1. rstage' \in {"prompt", "refused", "answered"} => legs = <<>>
        BY <3>1 DEF RetrievalInv, LegsLeft
      <4> QED BY <3>1, <4>1, GatheredStays
    <3>3. CitationsGrounded'
      <4>1. Elements(context)' = Elements(context)
        BY <3>1, Zenon DEF Elements
      <4> QED BY <3>1, <4>1 DEF RetrievalInv, CitationsGrounded
    <3> QED BY <3>1, <3>2, <3>3 DEF RetrievalInv, NoRepeats
  <2> QED BY <2>1, <2>2, <2>3, <2>4, <2>5 DEF RNext
<1> QED BY <1>1, <1>2, PTL DEF RSpec

\* The prompt's chunks are within every cap, filter and slice, and no better chunk was
\* left out but for a cap its own section or filing had filled (search/retrieval.py);
\* whatever the model writes, its citations name chunks of the prompt, each once and
\* under the index that says which (rag/citations.py).
THEOREM AnswerAlwaysGrounded == RSpec => []AnswerGrounded
<1>1. RetrievalInv => AnswerGrounded
  BY InvSound DEF RetrievalInv, AnswerGrounded
<1> QED BY <1>1, RetrievalInvariant, PTL

-----------------------------------------------------------------------------
(* No call under another task's identity.                                  *)

FetchingTypes ==
  /\ mode.is \in {"api", "cli"}
  /\ run \in 1..Runs
  /\ DOMAIN call = Callers
  /\ \A c \in Callers : DOMAIN call[c] = {"item", "step", "as"}

\* A thread works for the run in hand only, and the loop's own call is in its
\* fetch: between two runs nothing is under way.
InHand ==
  /\ \A c \in Callers : call[c].step # "off" =>
       /\ RunOf(c) = run /\ pc \notin {"build", "over", "refused"}
       /\ c = 0 => pc = "inline"

\* A call that has resolved an identity has its own task's.
ResolvedOwn == \A c \in Callers : call[c].step \in {"apply", "call"} => call[c].as = Own(RunOf(c))

\* Whoever is in a call of the API holds the lock, alone, and has set the
\* identity; a command never sets one.
OneSetter ==
  /\ mode.is = "cli" => identity = 0
  /\ mode.is = "api" =>
       \A c \in Callers : call[c].step = "call" =>
         /\ lock = "held" /\ identity = call[c].as
         /\ \A d \in Callers : call[d].step = "call" => d = c

FetchingInv == FetchingTypes /\ InHand /\ ResolvedOwn /\ OneSetter

\* The invariant holds before the first run.
LEMMA FetchingStarts == FetchingInit => FetchingInv
  BY FetchingAssumption
  DEF FetchingInit, FetchingInv, FetchingTypes, InHand, ResolvedOwn, OneSetter, Callers, Quiet

\* A step of the loop that makes no call and collects none, and stays in its run.
LEMMA LoopAside ==
  ASSUME FetchingInv, UNCHANGED <<mode, call, identity, lock, run>>,
         pc \in {"build", "next", "fetch", "ahead", "process", "store"},
         pc' \in {"build", "over", "refused"} => pc = "build"
  PROVE  FetchingInv'
<1> USE DEF FetchingInv, FetchingTypes, InHand, ResolvedOwn, OneSetter, Own, RunOf
<1> QED OBVIOUS

\* The run's part of the call table loses an entry.
LEMMA Collects ==
  ASSUME FetchingInv, UNCHANGED <<mode, identity, lock, run>>,
         pc \in {"join", "inline"}, pc' \in {"close", "ahead", "next"},
         call[Caller].step \in {"html", "error"},
         call' = [call EXCEPT ![Caller] = Quiet]
  PROVE  FetchingInv'
<1> USE DEF FetchingInv, FetchingTypes, InHand, ResolvedOwn, OneSetter, Own, RunOf, Caller, Callers, Quiet
<1>1. Caller \in Callers
  BY FetchingAssumption
<1>2. pc = "inline" => call'[0].step = "off"
  BY <1>1
<1>3. FetchingTypes'
  BY <1>1
<1> QED BY <1>1, <1>2, <1>3

\* A fetch is begun for the run in hand.
LEMMA Begins ==
  ASSUME FetchingInv, UNCHANGED <<mode, identity, lock, run>>,
         NEW c \in Callers, NEW item, StartCall(c, item), RunOf(c) = run,
         pc \in {"fetch", "ahead"}, c = 0 => pc' = "inline",
         pc' \notin {"build", "over", "refused"}
  PROVE  FetchingInv'
<1> USE DEF FetchingInv, FetchingTypes, InHand, ResolvedOwn, OneSetter, Own, RunOf, StartCall
<1>1. FetchingTypes'
  OBVIOUS
<1>2. InHand'
  OBVIOUS
<1>3. ResolvedOwn'
  OBVIOUS
<1>4. OneSetter'
  OBVIOUS
<1> QED BY <1>1, <1>2, <1>3, <1>4

\* Resolve, set, call and return.
LEMMA NetworkKeeps ==
  ASSUME FetchingInv, NEW c \in Callers, Network(c)
  PROVE  FetchingInv'
<1> USE DEF FetchingInv, FetchingTypes, InHand, ResolvedOwn, OneSetter, Own, RunOf
<1>1. CASE Resolve(c)
  BY <1>1 DEF Resolve, fixed, loopVars
<1>2. CASE Apply(c)
  <2>1. FetchingTypes' /\ InHand' /\ ResolvedOwn'
    BY <1>2 DEF Apply, fixed, loopVars
  <2>2. OneSetter'
    BY <1>2 DEF Apply, fixed, loopVars
  <2> QED BY <2>1, <2>2
<1>3. CASE Return(c)
  <2>1. FetchingTypes' /\ InHand' /\ ResolvedOwn'
    BY <1>3 DEF Return, fixed
  <2>2. OneSetter'
    BY <1>3 DEF Return, fixed
  <2> QED BY <2>1, <2>2
<1> QED BY <1>1, <1>2, <1>3 DEF Network

\* Every step of the loop keeps the invariant: it is aside, or collects its call.
LEMMA LoopKeeps ==
  ASSUME FetchingInv, Loop
  PROVE  FetchingInv'
<1>1. CASE Refuse
  BY <1>1, LoopAside DEF Refuse, fixed, netVars
<1>2. CASE BuildList
  BY <1>2, LoopAside DEF BuildList, fixed, netVars
<1>3. CASE Stop \/ SkipDuplicate \/ TakeNext
  BY <1>3, LoopAside DEF Stop, SkipDuplicate, TakeNext, Going, fixed, netVars
<1>4. CASE FetchHere
  <2>1. CASE ahead[run] = Item.id
    <3>1. UNCHANGED <<mode, call, identity, lock, run>> /\ pc = "fetch" /\ pc' = "join"
      BY <1>4, <2>1 DEF FetchHere, fixed
    <3> QED BY <3>1, LoopAside
  <2>2. CASE ahead[run] # Item.id
    <3>1. StartCall(0, Item.id) /\ pc = "fetch" /\ pc' = "inline" /\ UNCHANGED <<mode, identity, lock, run>>
      BY <1>4, <2>2 DEF FetchHere, fixed
    <3>2. 0 \in Callers /\ RunOf(0) = run
      BY FetchingAssumption DEF Callers, RunOf
    <3> QED BY <3>1, <3>2, Begins
  <2> QED BY <2>1, <2>2
<1>5. CASE Collected
  BY <1>5, Collects DEF Collected, fixed
<1>6. CASE StartAfter
  <2>1. CASE UNCHANGED call
    BY <1>6, <2>1, LoopAside DEF StartAfter, fixed
  <2>2. CASE ~UNCHANGED call
    <3>1. PICK item : StartCall(run, item)
      BY <1>6, <2>2 DEF StartAfter
    <3>2. run \in Callers /\ run # 0 /\ RunOf(run) = run
      BY FetchingAssumption DEF Callers, RunOf, FetchingInv, FetchingTypes
    <3>3. pc = "ahead" /\ pc' = "process" /\ UNCHANGED <<mode, identity, lock, run>>
      BY <1>6 DEF StartAfter, fixed
    <3> QED BY <3>1, <3>2, <3>3, Begins
  <2> QED BY <2>1, <2>2
<1>7. CASE FilingFails
  <2>1. UNCHANGED <<mode, identity, lock, run>> /\ pc' = "next"
    BY <1>7 DEF FilingFails, fixed
  <2>2. CASE pc \in {"join", "inline"}
    BY <1>7, <2>1, <2>2, Collects DEF FilingFails
  <2>3. CASE pc \notin {"join", "inline"}
    BY <1>7, <2>1, <2>3, LoopAside DEF FilingFails
  <2> QED BY <2>2, <2>3
<1>8. CASE Process \/ Store
  BY <1>8, LoopAside DEF Process, Store, fixed, netVars
<1>9. CASE Close
  <2> USE DEF FetchingInv, FetchingTypes, InHand, ResolvedOwn, OneSetter, Own, RunOf, Quiet
  <2>1. FetchingTypes'
    BY <1>9 DEF Close, fixed
  <2>2. \A c \in Callers : call'[c].step = "off"
    BY <1>9 DEF Close, fixed, Callers
  <2>3. UNCHANGED <<mode, identity>>
    BY <1>9 DEF Close, fixed
  <2> QED BY <2>1, <2>2, <2>3
<1>10. CASE NextRun
  <2> USE DEF FetchingInv, FetchingTypes, InHand, ResolvedOwn, OneSetter, Own, RunOf
  <2>1. FetchingTypes' /\ UNCHANGED <<mode, identity, call>>
    BY <1>10, FetchingAssumption DEF NextRun, fixed, netVars
  <2>2. \A c \in Callers : call'[c].step = "off"
    BY <1>10, <2>1 DEF NextRun
  <2> QED BY <2>1, <2>2
<1> QED BY <1>1, <1>2, <1>3, <1>4, <1>5, <1>6, <1>7, <1>8, <1>9, <1>10 DEF Loop

\* What does not touch the network, the identity or the loop's step.
LEMMA NetStays ==
  ASSUME FetchingInv, UNCHANGED <<mode, call, identity, lock, run, pc>>
  PROVE  FetchingInv'
  BY DEF FetchingInv, FetchingTypes, InHand, ResolvedOwn, OneSetter, Own, RunOf

\* The invariant holds in every reachable state, whatever the scheduling.
THEOREM FetchingInvariant == FetchingSpec => []FetchingInv
<1>1. FetchingInv /\ [FetchingNext]_fetchingVars => FetchingInv'
  <2> SUFFICES ASSUME FetchingInv, [FetchingNext]_fetchingVars PROVE FetchingInv'
    OBVIOUS
  <2>1. CASE Loop
    BY <2>1, LoopKeeps
  <2>2. CASE Elsewhere \/ Cancel
    BY <2>2, NetStays DEF Elsewhere, Cancel, fixed, netVars, loopVars
  <2>3. CASE \E c \in Callers : Network(c)
    BY <2>3, NetworkKeeps
  <2>4. CASE UNCHANGED fetchingVars
    BY <2>4, NetStays DEF fetchingVars, fixed, netVars, loopVars
  <2> QED BY <2>1, <2>2, <2>3, <2>4 DEF FetchingNext
<1> QED BY <1>1, FetchingStarts, PTL DEF FetchingSpec

\* Every call to EDGAR of a task is made under that task's identity, prefetched
\* or not and whichever task comes next (pipeline/prefetch.py:23).
THEOREM FetchingOwnIdentity == FetchingSpec => []OwnIdentity
<1>1. FetchingInv => OwnIdentity
  BY DEF FetchingInv, FetchingTypes, ResolvedOwn, OneSetter, OwnIdentity, Own
<1> QED BY <1>1, FetchingInvariant, PTL

-----------------------------------------------------------------------------
(* The elements of a finite set in an order.                                *)

\* R orders S.
Orders(R, S) ==
  /\ \A x \in S : <<x, x>> \in R
  /\ \A x, y \in S : <<x, y>> \in R \/ <<y, x>> \in R
  /\ \A x, y \in S : <<x, y>> \in R /\ <<y, x>> \in R => x = y
  /\ \A x, y, z \in S : <<x, y>> \in R /\ <<y, z>> \in R => <<x, z>> \in R
Rank(x, S, R) == Cardinality({y \in S : <<y, x>> \in R})

LEMMA Finite1To ==
  ASSUME NEW n \in Nat
  PROVE  IsFiniteSet(1 .. n) /\ Cardinality(1 .. n) = n
<1>1. 1 \in Int /\ n \in Int
  OBVIOUS
<1>2. IsFiniteSet(1 .. n) /\ Cardinality(1 .. n) = IF 1 > n THEN 0 ELSE n - 1 + 1
  BY <1>1, FS_Interval, Zenon
<1>3. (IF 1 > n THEN 0 ELSE n - 1 + 1) = n
  OBVIOUS
<1> QED BY <1>2, <1>3

\* The ranks are the numbers from 1 to the size of the set, each once.
LEMMA RankIs ==
  ASSUME NEW S, IsFiniteSet(S), NEW R, Orders(R, S)
  PROVE  /\ Cardinality(S) \in Nat
         /\ \A x \in S : Rank(x, S, R) \in 1 .. Cardinality(S)
         /\ \A x, y \in S : <<x, y>> \in R => Rank(x, S, R) <= Rank(y, S, R)
         /\ \A x, y \in S : <<x, y>> \in R /\ x # y => Rank(x, S, R) < Rank(y, S, R)
         /\ \A x, y \in S : Rank(x, S, R) = Rank(y, S, R) => x = y
         /\ \A k \in 1 .. Cardinality(S) : \E x \in S : Rank(x, S, R) = k
<1> DEFINE n == Cardinality(S)
           Up(x) == {y \in S : <<y, x>> \in R}
           r(x) == Rank(x, S, R)
<1>1. n \in Nat
  BY FS_CardinalityType, Zenon
<1>2. ASSUME NEW x \in S PROVE IsFiniteSet(Up(x)) /\ r(x) \in 1 .. n /\ r(x) = Cardinality(Up(x))
  <2>1. Up(x) \in SUBSET S /\ x \in Up(x)
    BY DEF Orders
  <2>2. IsFiniteSet(Up(x)) /\ Cardinality(Up(x)) <= n
    BY <2>1, FS_Subset
  <2>3. Cardinality(Up(x)) \in Nat
    BY <2>2, FS_CardinalityType, Zenon
  <2>4. Up(x) # {}
    BY <2>1
  <2>5. Cardinality(Up(x)) # 0
    BY <2>2, <2>4, FS_EmptySet, Zenon
  <2>6. r(x) = Cardinality(Up(x))
    BY Zenon DEF Rank
  <2> HIDE DEF Up, r, n
  <2> QED BY <1>1, <2>2, <2>3, <2>5, <2>6
<1>3. ASSUME NEW x \in S, NEW y \in S, <<x, y>> \in R, x # y
      PROVE  r(x) < r(y)
  <2>1. Up(x) \in SUBSET Up(y)
    BY <1>3 DEF Orders
  <2>2. y \in Up(y) /\ y \notin Up(x)
    BY <1>3 DEF Orders
  <2>3. IsFiniteSet(Up(y))
    BY <1>2
  <2>4. Cardinality(Up(x)) <= Cardinality(Up(y)) /\ Cardinality(Up(x)) # Cardinality(Up(y))
    <3> HIDE DEF Up
    <3> QED BY <2>1, <2>2, <2>3, FS_Subset
  <2>5. r(x) = Cardinality(Up(x)) /\ r(y) = Cardinality(Up(y)) /\ r(x) \in 1 .. n /\ r(y) \in 1 .. n
    BY <1>2
  <2> HIDE DEF r, Up, n
  <2> QED BY <1>1, <2>4, <2>5
<1>4. ASSUME NEW x \in S, NEW y \in S PROVE <<x, y>> \in R \/ <<y, x>> \in R
  BY DEF Orders
<1> HIDE DEF r
<1>5. ASSUME NEW x \in S, NEW y \in S, r(x) = r(y) PROVE x = y
  <2>1. r(x) \in 1 .. n /\ r(y) \in 1 .. n
    BY <1>2
  <2> HIDE DEF n
  <2>2. ~(r(x) < r(y)) /\ ~(r(y) < r(x))
    BY <1>1, <1>5, <2>1
  <2> QED BY <1>3, <1>4, <2>2
<1>6. ASSUME NEW x \in S, NEW y \in S, <<x, y>> \in R PROVE r(x) <= r(y)
  <2>1. r(x) \in 1 .. n /\ r(y) \in 1 .. n
    BY <1>2
  <2> HIDE DEF n
  <2> QED BY <1>1, <1>3, <1>6, <2>1
<1>7. ASSUME NEW k \in 1 .. n PROVE \E x \in S : r(x) = k
  <2> DEFINE f == [x \in S |-> r(x)]
             T == 1 .. n
  <2>1. IsFiniteSet(T) /\ Cardinality(T) = n
    BY <1>1, Finite1To
  <2>2. f \in [S -> T]
    BY <1>2
  <2>3. f \in Injection(S, T)
    <3>1. \A x, y \in S : f[x] = f[y] => x = y
      BY <1>5
    <3> HIDE DEF f, T
    <3> QED BY <2>2, <3>1 DEF Injection, IsInjective
  <2>4. f \in Surjection(S, T)
    <3> HIDE DEF f, T
    <3> QED BY <2>1, <2>3, FS_Injection, Zenon
  <2>5. \E x \in S : f[x] = k
    <3> HIDE DEF f
    <3> QED BY <2>4 DEF Surjection
  <2> QED BY <2>5
<1> QED BY <1>1, <1>2, <1>3, <1>5, <1>6, <1>7 DEF r

\* Ordered lists the elements, each once, as the order says.
LEMMA OrderedIs ==
  ASSUME NEW S, IsFiniteSet(S), NEW R, Orders(R, S)
  PROVE  /\ Cardinality(S) \in Nat /\ Ordered(S, R) \in [1 .. Cardinality(S) -> S]
         /\ \A x \in S : \E k \in 1 .. Cardinality(S) : Ordered(S, R)[k] = x
         /\ \A k, l \in 1 .. Cardinality(S) : k < l =>
              /\ <<Ordered(S, R)[k], Ordered(S, R)[l]>> \in R
              /\ Ordered(S, R)[k] # Ordered(S, R)[l]
<1> DEFINE n == Cardinality(S)
           s == Ordered(S, R)
           r(x) == Rank(x, S, R)
<1>1. /\ n \in Nat
      /\ \A x \in S : r(x) \in 1 .. n
      /\ \A x, y \in S : <<x, y>> \in R => r(x) <= r(y)
      /\ \A x, y \in S : r(x) = r(y) => x = y
      /\ \A k \in 1 .. n : \E x \in S : r(x) = k
  BY RankIs, Zenon
<1>2. s = [k \in 1 .. n |-> CHOOSE x \in S : r(x) = k]
  BY Zenon DEF Ordered, Rank
<1> HIDE DEF r, s, n
<1>3. ASSUME NEW k \in 1 .. n PROVE s[k] \in S /\ r(s[k]) = k
  BY <1>1, <1>2
<1>4. s \in [1 .. n -> S]
  BY <1>2, <1>3
<1>5. ASSUME NEW x \in S PROVE \E k \in 1 .. n : s[k] = x
  BY <1>1, <1>3
<1>6. ASSUME NEW k \in 1 .. n, NEW l \in 1 .. n, k < l PROVE <<s[k], s[l]>> \in R /\ s[k] # s[l]
  <2>1. s[k] \in S /\ s[l] \in S /\ r(s[k]) = k /\ r(s[l]) = l
    BY <1>3
  <2>2. ~(r(s[l]) <= r(s[k]))
    BY <1>1, <1>6, <2>1
  <2>3. <<s[l], s[k]>> \notin R
    BY <1>1, <2>1, <2>2
  <2>4. <<s[k], s[l]>> \in R
    BY <2>1, <2>3 DEF Orders
  <2> QED BY <1>1, <1>6, <2>1, <2>4
<1> QED BY <1>1, <1>4, <1>5, <1>6 DEF n, s

\* A bijection between finite sets, given by what it does.
LEMMA SameSize ==
  ASSUME NEW S, NEW T, IsFiniteSet(T), NEW f,
         \A x \in S : f[x] \in T,
         \A x, y \in S : f[x] = f[y] => x = y
  PROVE  /\ IsFiniteSet(S) /\ Cardinality(S) \in Nat /\ Cardinality(T) \in Nat
         /\ Cardinality(S) <= Cardinality(T)
         /\ (\A y \in T : \E x \in S : f[x] = y) => Cardinality(S) = Cardinality(T)
<1> DEFINE g == [x \in S |-> f[x]]
<1>1. g \in [S -> T] /\ \A x \in S : g[x] = f[x]
  OBVIOUS
<1> HIDE DEF g
<1>2. g \in Injection(S, T)
  BY <1>1 DEF Injection, IsInjective
<1>3. /\ IsFiniteSet(S) /\ Cardinality(S) <= Cardinality(T)
      /\ Cardinality(S) = Cardinality(T) <=> g \in Surjection(S, T)
  BY <1>2, FS_Injection, Zenon
<1>4. (\A y \in T : \E x \in S : f[x] = y) => g \in Surjection(S, T)
  BY <1>1 DEF Surjection
<1>5. Cardinality(S) \in Nat /\ Cardinality(T) \in Nat
  BY <1>3, FS_CardinalityType, Zenon
<1> QED BY <1>3, <1>4, <1>5

-----------------------------------------------------------------------------
(* EDGAR's filings and what the listings bring of them.                     *)

LEMMA EdgarIs ==
  ASSUME edgar \in Catalogue
  PROVE  /\ Len(edgar) \in Nat /\ DOMAIN edgar = 1 .. Len(edgar)
         /\ \A j \in 1 .. Len(edgar) : /\ edgar[j].id # "none" /\ edgar[j].date \in Nat
                                       /\ edgar[j].amended \in BOOLEAN
         /\ \A i, j \in 1 .. Len(edgar) : i < j => /\ edgar[i].id # edgar[j].id
                                                   /\ edgar[i].date >= edgar[j].date
<1> DEFINE T == [id : STRING \ {"none"}, form : STRING, amended : BOOLEAN, date : Nat]
<1>1. edgar \in Seq(T)
  BY CatalogueAssumption, Zenon
<1>2. \A i, j \in 1 .. Len(edgar) : i < j => edgar[i].id # edgar[j].id /\ edgar[i].date >= edgar[j].date
  BY CatalogueAssumption, Zenon
<1>3. /\ Len(edgar) \in Nat /\ DOMAIN edgar = 1 .. Len(edgar)
      /\ \A j \in 1 .. Len(edgar) : edgar[j] \in T
  <2> HIDE DEF T
  <2> QED BY <1>1
<1>4. \A j \in 1 .. Len(edgar) : edgar[j].id # "none" /\ edgar[j].date \in Nat /\ edgar[j].amended \in BOOLEAN
  BY <1>3
<1> QED BY <1>2, <1>3, <1>4

\* The first n of the originals of a form: all of them if there are no more than n,
\* and one that is left out comes behind n others.
LEMMA AvailableIs ==
  ASSUME edgar \in Catalogue, NEW form, NEW n \in Nat
  PROVE  /\ Kept(form) \subseteq 1 .. Len(edgar) /\ IsFiniteSet(Kept(form))
         /\ ListAvailable(form, n) \subseteq Kept(form) /\ IsFiniteSet(ListAvailable(form, n))
         /\ Cardinality(ListAvailable(form, n)) \in Nat
         /\ Cardinality(ListAvailable(form, n)) <= n
         /\ \A i \in Kept(form) \ ListAvailable(form, n) :
              /\ Cardinality(ListAvailable(form, n)) = n
              /\ \A j \in ListAvailable(form, n) : j < i
<1> DEFINE K == Kept(form)
           A == ListAvailable(form, n)
           R == {e \in K \X K : e[1] <= e[2]}
           r(x) == Rank(x, K, R)
           f == [x \in A |-> r(x)]
           T == 1 .. n
<1>1. Len(edgar) \in Nat
  BY EdgarIs
<1>2. K \subseteq 1 .. Len(edgar)
  BY DEF Kept, Listed
<1>3. IsFiniteSet(K)
  <2>1. IsFiniteSet(1 .. Len(edgar))
    BY <1>1, Finite1To
  <2> HIDE DEF K
  <2> QED BY <1>2, <2>1, FS_Subset
<1> HIDE DEF K
<1>4. \A x, y \in K : <<x, y>> \in R <=> x <= y
  OBVIOUS
<1>5. Orders(R, K)
  <2>1. \A x \in K : x \in Nat
    BY <1>1, <1>2
  <2> HIDE DEF R
  <2> QED BY <1>4, <2>1 DEF Orders
<1>6. /\ Cardinality(K) \in Nat
      /\ \A x \in K : r(x) \in 1 .. Cardinality(K)
      /\ \A x, y \in K : <<x, y>> \in R => r(x) <= r(y)
      /\ \A x, y \in K : r(x) = r(y) => x = y
      /\ \A k \in 1 .. Cardinality(K) : \E x \in K : r(x) = k
  <2> HIDE DEF R
  <2> QED BY <1>3, <1>5, RankIs, Zenon
<1>7. A = {x \in K : r(x) <= n}
  <2>1. \A x \in K : {k \in K : k <= x} = {k \in K : <<k, x>> \in R}
    BY <1>4
  <2>2. \A x \in K : Cardinality({k \in K : k <= x}) = r(x)
    BY <2>1, Zenon DEF Rank
  <2> HIDE DEF r, R
  <2> QED BY <2>2 DEF ListAvailable, K
<1> HIDE DEF A, r, R
<1>8. \A x \in A : f[x] \in T /\ f[x] = r(x)
  BY <1>6, <1>7
<1>9. \A x, y \in A : f[x] = f[y] => x = y
  BY <1>6, <1>7, <1>8
<1>10. IsFiniteSet(T) /\ Cardinality(T) = n
  BY Finite1To
<1> HIDE DEF f
<1>11. /\ IsFiniteSet(A) /\ Cardinality(A) \in Nat /\ Cardinality(A) <= n
       /\ (\A y \in T : \E x \in A : f[x] = y) => Cardinality(A) = n
  <2> HIDE DEF T
  <2>1. \A x \in A : f[x] \in T
    BY <1>8
  <2>2. /\ IsFiniteSet(A) /\ Cardinality(A) \in Nat /\ Cardinality(A) <= Cardinality(T)
        /\ (\A y \in T : \E x \in A : f[x] = y) => Cardinality(A) = Cardinality(T)
    BY <1>9, <1>10, <2>1, SameSize, Zenon
  <2> QED BY <1>10, <2>2, Zenon
<1>12. ASSUME NEW i \in K, i \notin A
       PROVE  Cardinality(A) = n /\ \A j \in A : j < i
  <2>1. r(i) \in 1 .. Cardinality(K) /\ ~(r(i) <= n)
    BY <1>6, <1>7, <1>12
  <2>2. n <= Cardinality(K)
    BY <1>6, <2>1
  <2>3. ASSUME NEW y \in T PROVE \E x \in A : f[x] = y
    <3>1. y \in 1 .. Cardinality(K) /\ y <= n
      BY <1>6, <2>2
    <3>2. PICK x \in K : r(x) = y
      BY <1>6, <3>1
    <3> QED BY <1>7, <1>8, <3>1, <3>2
  <2>4. ASSUME NEW j \in A PROVE j < i
    <3>1. j \in K /\ r(j) <= n /\ r(j) \in Nat
      BY <1>6, <1>7
    <3>2. ~(r(i) <= r(j))
      BY <2>1, <3>1, <1>6
    <3>3. ~(i <= j)
      BY <1>4, <1>6, <3>1, <3>2
    <3> QED BY <1>1, <1>2, <3>1, <3>3
  <2> QED BY <1>11, <2>3, <2>4
<1>13. A \subseteq K
  BY <1>7
<1> QED BY <1>2, <1>3, <1>11, <1>12, <1>13, Zenon DEF K, A

LEMMA FormsAre ==
  /\ Len(Forms) \in Nat \ {0}
  /\ \A i, j \in 1 .. Len(Forms) : Forms[i] = Forms[j] => i = j
<1>1. Forms \in Seq(STRING) /\ Forms # <<>>
  BY FetchingAssumption
<1>2. Len(Forms) \in Nat \ {0}
  BY <1>1
<1> QED BY <1>2, FetchingAssumption

\* What is found are originals, each under its own form's listing.
LEMMA FoundIs ==
  ASSUME edgar \in Catalogue, NEW failed, NEW n \in Nat
  PROVE  /\ Found(failed, n) \subseteq 1 .. Len(edgar) /\ IsFiniteSet(Found(failed, n))
         /\ \A j \in Found(failed, n) :
              /\ FormOf(j) \in (1 .. Len(Forms)) \ failed /\ Forms[FormOf(j)] = edgar[j].form
              /\ j \in ListAvailable(edgar[j].form, n) /\ ~edgar[j].amended
         /\ \A i \in (1 .. Len(Forms)) \ failed : ListAvailable(Forms[i], n) \subseteq Found(failed, n)
<1> DEFINE F == Found(failed, n)
<1>1. ASSUME NEW i \in (1 .. Len(Forms)) \ failed, NEW j \in ListAvailable(Forms[i], n)
      PROVE  /\ j \in 1 .. Len(edgar) /\ edgar[j].form = Forms[i] /\ ~edgar[j].amended
             /\ FormOf(j) = i
  <2>1. j \in Kept(Forms[i])
    BY AvailableIs
  <2>2. j \in 1 .. Len(edgar) /\ edgar[j].form = Forms[i] /\ ~edgar[j].amended
    BY <2>1 DEF Kept, Listed, Skipped
  <2>3. FormOf(j) = i
    BY <2>2, FormsAre DEF FormOf
  <2> QED BY <2>2, <2>3
<1>2. F \subseteq 1 .. Len(edgar)
  BY <1>1 DEF Found
<1>3. IsFiniteSet(F)
  <2>1. IsFiniteSet(1 .. Len(edgar))
    BY EdgarIs, Finite1To
  <2> HIDE DEF F
  <2> QED BY <1>2, <2>1, FS_Subset
<1>4. ASSUME NEW j \in F
      PROVE  /\ FormOf(j) \in (1 .. Len(Forms)) \ failed /\ Forms[FormOf(j)] = edgar[j].form
             /\ j \in ListAvailable(edgar[j].form, n) /\ ~edgar[j].amended
  <2>1. PICK i \in (1 .. Len(Forms)) \ failed : j \in ListAvailable(Forms[i], n)
    BY DEF Found
  <2>2. FormOf(j) = i /\ edgar[j].form = Forms[i] /\ ~edgar[j].amended
    BY <1>1, <2>1
  <2> QED BY <2>1, <2>2
<1>5. \A i \in (1 .. Len(Forms)) \ failed : ListAvailable(Forms[i], n) \subseteq F
  BY DEF Found
<1> QED BY <1>2, <1>3, <1>4, <1>5

\* Both orders of a work list are orders.
LEMMA OrdersAre ==
  ASSUME edgar \in Catalogue, NEW failed, NEW n \in Nat
  PROVE  LET F == Found(failed, n)
         IN  /\ Orders({e \in F \X F : Earlier(e[1], e[2])}, F)
             /\ Orders({e \in F \X F : Newer(e[1], e[2])}, F)
<1> DEFINE F == Found(failed, n)
           P == {e \in F \X F : Earlier(e[1], e[2])}
           Q == {e \in F \X F : Newer(e[1], e[2])}
<1>1. \A j \in F : j \in Nat /\ FormOf(j) \in Nat /\ edgar[j].date \in Nat
  <2>1. Len(edgar) \in Nat /\ Len(Forms) \in Nat
    BY EdgarIs, FormsAre
  <2>2. \A j \in F : j \in 1 .. Len(edgar) /\ FormOf(j) \in 1 .. Len(Forms)
    BY FoundIs
  <2> QED BY <2>1, <2>2, EdgarIs
<1> HIDE DEF F
<1>2. \A x, y \in F : <<x, y>> \in P <=> Earlier(x, y)
  OBVIOUS
<1>3. \A x, y \in F : <<x, y>> \in Q <=> Newer(x, y)
  OBVIOUS
<1>4. /\ \A x \in F : Earlier(x, x)
      /\ \A x, y \in F : Earlier(x, y) \/ Earlier(y, x)
      /\ \A x, y \in F : Earlier(x, y) /\ Earlier(y, x) => x = y
      /\ \A x, y, z \in F : Earlier(x, y) /\ Earlier(y, z) => Earlier(x, z)
  BY <1>1 DEF Earlier
<1>5. /\ \A x \in F : Newer(x, x)
      /\ \A x, y \in F : Newer(x, y) \/ Newer(y, x)
      /\ \A x, y \in F : Newer(x, y) /\ Newer(y, x) => x = y
      /\ \A x, y, z \in F : Newer(x, y) /\ Newer(y, z) => Newer(x, z)
  BY <1>1, <1>4 DEF Newer
<1> HIDE DEF P, Q
<1>6. Orders(P, F)
  BY <1>2, <1>4 DEF Orders
<1>7. Orders(Q, F)
  BY <1>3, <1>5 DEF Orders
<1> QED BY <1>6, <1>7, Zenon DEF P, Q, F

\* w takes the first m of the places in F, in the order of a list.
Lists(w, F) ==
  /\ w \in [1 .. Cardinality(F) -> F]
  /\ \A x \in F : \E k \in 1 .. Cardinality(F) : w[k] = x
  /\ \A k, l \in 1 .. Cardinality(F) : k < l => w[k] # w[l]

LEMMA PerFormIs ==
  ASSUME edgar \in Catalogue, NEW failed, NEW n \in Nat
  PROVE  LET F == Found(failed, n)
         IN  \E w : /\ Lists(w, F)
                    /\ PerForm(failed, n) = [k \in 1 .. Cardinality(F) |-> edgar[w[k]]]
<1> DEFINE F == Found(failed, n)
           P == {e \in F \X F : Earlier(e[1], e[2])}
           w == Ordered(F, P)
<1>1. IsFiniteSet(F) /\ Orders(P, F)
  BY FoundIs, OrdersAre, Zenon
<1>2. PerForm(failed, n) = [k \in 1 .. Cardinality(F) |-> edgar[w[k]]]
  BY Zenon DEF PerForm
<1>3. /\ w \in [1 .. Cardinality(F) -> F]
      /\ \A x \in F : \E k \in 1 .. Cardinality(F) : w[k] = x
      /\ \A k, l \in 1 .. Cardinality(F) : k < l => <<w[k], w[l]>> \in P /\ w[k] # w[l]
  <2> HIDE DEF P, F
  <2> QED BY <1>1, OrderedIs
<1>4. Lists(w, F)
  BY <1>3, Zenon DEF Lists
<1> QED BY <1>2, <1>4

LEMMA AcrossFormsIs ==
  ASSUME edgar \in Catalogue, NEW failed, NEW n \in Nat
  PROVE  LET F == Found(failed, n)
         IN  \E w : /\ Lists(w, F)
                    /\ \A k, l \in 1 .. Cardinality(F) : k < l => edgar[w[k]].date >= edgar[w[l]].date
                    /\ AcrossForms(failed, n) = [k \in 1 .. Min({n, Cardinality(F)}) |-> edgar[w[k]]]
<1> DEFINE F == Found(failed, n)
           Q == {e \in F \X F : Newer(e[1], e[2])}
           w == Ordered(F, Q)
<1>1. IsFiniteSet(F) /\ Orders(Q, F)
  BY FoundIs, OrdersAre, Zenon
<1>2. AcrossForms(failed, n) = [k \in 1 .. Min({n, Cardinality(F)}) |-> edgar[w[k]]]
  BY Zenon DEF AcrossForms
<1>3. /\ w \in [1 .. Cardinality(F) -> F]
      /\ \A x \in F : \E k \in 1 .. Cardinality(F) : w[k] = x
      /\ \A k, l \in 1 .. Cardinality(F) : k < l => <<w[k], w[l]>> \in Q /\ w[k] # w[l]
  <2> HIDE DEF Q, F
  <2> QED BY <1>1, OrderedIs
<1>4. Lists(w, F)
  BY <1>3, Zenon DEF Lists
<1>5. \A x, y \in F : <<x, y>> \in Q => edgar[x].date >= edgar[y].date
  <2>1. \A j \in F : edgar[j].date \in Nat
    BY FoundIs, EdgarIs
  <2> HIDE DEF F
  <2> QED BY <2>1 DEF Newer
<1> HIDE DEF w, Q, F
<1>6. \A k, l \in 1 .. Cardinality(F) : k < l => edgar[w[k]].date >= edgar[w[l]].date
  BY <1>3, <1>5
<1> QED BY <1>2, <1>4, <1>6, Zenon DEF F

-----------------------------------------------------------------------------
(* A work list has the newest originals.                                    *)

LEMMA MinIs ==
  ASSUME NEW a \in Nat, NEW b \in Nat
  PROVE  Min({a, b}) = IF a <= b THEN a ELSE b
<1> DEFINE c == IF a <= b THEN a ELSE b
<1>1. c \in {a, b} /\ \A y \in {a, b} : c <= y
  OBVIOUS
<1>2. \A x \in {a, b} : (\A y \in {a, b} : x <= y) => x = c
  OBVIOUS
<1> HIDE DEF c
<1>3. Min({a, b}) = c
  BY <1>1, <1>2 DEF Min
<1> QED BY <1>3 DEF c

\* The work list takes the filings at the first m of the places w lists.
Takes(w, m) == m \in Nat /\ work = [k \in 1 .. m |-> edgar[w[k]]]

LEMMA TakesIs ==
  ASSUME NEW w, NEW m, Takes(w, m)
  PROVE  /\ m \in Nat /\ Len(work) = m /\ DOMAIN work = 1 .. m
         /\ \A k \in 1 .. m : work[k] = edgar[w[k]]
  BY DEF Takes

\* Listed form by form, a form's filings are the newest originals of the form.
LEMMA NewestOfForm ==
  ASSUME edgar \in Catalogue, count \in Nat, NEW failed, NEW w,
         Lists(w, Found(failed, count)), Takes(w, Cardinality(Found(failed, count))),
         NEW i \in (1 .. Len(Forms)) \ failed
  PROVE  NewestOf({Forms[i]})
<1> DEFINE F == Found(failed, count)
           m == Cardinality(F)
           K == Kept(Forms[i])
           A == ListAvailable(Forms[i], count)
           left == {j \in 1 .. Len(edgar) : ~edgar[j].amended /\ edgar[j].form \in {Forms[i]}}
           got == {p \in 1 .. Len(work) : work[p].form \in {Forms[i]}}
<1>1. /\ m \in Nat /\ Len(work) = m /\ DOMAIN work = 1 .. m
      /\ \A k \in 1 .. m : work[k] = edgar[w[k]]
  BY TakesIs
<1>2. /\ F \subseteq 1 .. Len(edgar) /\ A \subseteq F
      /\ \A j \in F : j \in ListAvailable(edgar[j].form, count) /\ ~edgar[j].amended
  BY FoundIs
<1>3. /\ K \subseteq 1 .. Len(edgar) /\ IsFiniteSet(K) /\ A \subseteq K /\ IsFiniteSet(A)
      /\ Cardinality(A) \in Nat /\ Cardinality(A) <= count
      /\ \A j \in K \ A : Cardinality(A) = count /\ \A k \in A : k < j
  BY AvailableIs
<1>4. left = K
  BY DEF Kept, Listed, Skipped
<1>5. \A j \in A : edgar[j].form = Forms[i]
  BY <1>3 DEF Kept, Listed
<1>6. /\ w \in [1 .. m -> F]
      /\ \A x \in F : \E k \in 1 .. m : w[k] = x
      /\ \A k, l \in 1 .. m : k < l => w[k] # w[l]
  BY Zenon DEF Lists
<1> HIDE DEF F, m, K, A
<1>7. \A p \in got : p \in 1 .. m /\ w[p] \in A
  <2> SUFFICES ASSUME NEW p \in got PROVE p \in 1 .. m /\ w[p] \in A
    OBVIOUS
  <2>1. p \in 1 .. m /\ work[p].form = Forms[i]
    BY <1>1
  <2>2. w[p] \in F /\ edgar[w[p]].form = Forms[i]
    BY <1>1, <1>6, <2>1
  <2> QED BY <1>2, <2>1, <2>2 DEF A
<1>8. \A j \in A : \E p \in got : w[p] = j
  <2> SUFFICES ASSUME NEW j \in A PROVE \E p \in got : w[p] = j
    OBVIOUS
  <2>1. PICK p \in 1 .. m : w[p] = j
    BY <1>2, <1>6
  <2>2. work[p].form = Forms[i]
    BY <1>1, <1>5, <2>1
  <2> QED BY <1>1, <2>1, <2>2
<1> HIDE DEF got
<1>9. Cardinality(got) = Cardinality(A)
  <2>1. \A p, q \in got : w[p] = w[q] => p = q
    BY <1>1, <1>6, <1>7
  <2>2. \A p \in got : w[p] \in A
    BY <1>7
  <2> QED BY <1>3, <1>8, <2>1, <2>2, SameSize
<1>10. Cardinality(got) = Min({count, Cardinality(left)})
  <2>1. Cardinality(K) \in Nat /\ Cardinality(A) <= Cardinality(K)
    BY <1>3, FS_CardinalityType, FS_Subset
  <2>2. CASE A = K
    <3>1. Cardinality(K) <= count
      BY <1>3, <2>2
    <3>2. Min({count, Cardinality(K)}) = Cardinality(K)
      BY <2>1, <3>1, MinIs
    <3> QED BY <1>4, <1>9, <2>2, <3>2
  <2>3. CASE A # K
    <3>1. Cardinality(A) = count
      BY <1>3, <2>3
    <3>2. Min({count, Cardinality(K)}) = count
      BY <2>1, <3>1, MinIs
    <3> QED BY <1>4, <1>9, <3>1, <3>2
  <2> QED BY <2>2, <2>3
<1>11. \A p \in got : ~work[p].amended
  BY <1>1, <1>2, <1>6, <1>7
<1>12. ASSUME NEW j \in left
       PROVE  edgar[j] \in ToSet(work) \/ \A p \in got : work[p].date >= edgar[j].date
  <2>1. j \in K
    BY <1>4
  <2>2. CASE j \in A
    <3>1. PICK p \in got : w[p] = j
      BY <1>8, <2>2
    <3>2. p \in 1 .. m /\ work[p] = edgar[j]
      BY <1>1, <1>7, <3>1
    <3> QED BY <1>1, <3>2 DEF ToSet
  <2>3. CASE j \notin A
    <3> SUFFICES ASSUME NEW p \in got PROVE work[p].date >= edgar[j].date
      OBVIOUS
    <3>1. p \in 1 .. m /\ w[p] \in A
      BY <1>7
    <3>2. w[p] < j /\ w[p] \in 1 .. Len(edgar) /\ j \in 1 .. Len(edgar)
      BY <1>3, <2>1, <2>3, <3>1
    <3>3. edgar[w[p]].date >= edgar[j].date
      BY <3>2, EdgarIs
    <3> QED BY <1>1, <3>1, <3>3
  <2> QED BY <2>2, <2>3
<1> QED BY <1>10, <1>11, <1>12, Zenon DEF NewestOf, left, got

\* Cut by date, the filings are the newest originals of all the forms listed.
LEMMA NewestOfAll ==
  ASSUME edgar \in Catalogue, count \in Nat, NEW failed, NEW w,
         Lists(w, Found(failed, count)),
         Takes(w, Min({count, Cardinality(Found(failed, count))})),
         \A k, l \in 1 .. Cardinality(Found(failed, count)) :
           k < l => edgar[w[k]].date >= edgar[w[l]].date,
         NEW forms, forms = {Forms[i] : i \in (1 .. Len(Forms)) \ failed}
  PROVE  NewestOf(forms)
<1> DEFINE F == Found(failed, count)
           n == Cardinality(F)
           m == Min({count, n})
           left == {j \in 1 .. Len(edgar) : ~edgar[j].amended /\ edgar[j].form \in forms}
           got == {p \in 1 .. Len(work) : work[p].form \in forms}
<1>1. /\ F \subseteq 1 .. Len(edgar) /\ IsFiniteSet(F)
      /\ \A j \in F :
           /\ FormOf(j) \in (1 .. Len(Forms)) \ failed /\ Forms[FormOf(j)] = edgar[j].form
           /\ j \in ListAvailable(edgar[j].form, count) /\ ~edgar[j].amended
      /\ \A i \in (1 .. Len(Forms)) \ failed : ListAvailable(Forms[i], count) \subseteq F
  BY FoundIs
<1>2. n \in Nat /\ m = IF count <= n THEN count ELSE n
  <2>1. n \in Nat
    BY <1>1, FS_CardinalityType, Zenon
  <2> QED BY <2>1, MinIs
<1>3. /\ m \in Nat /\ Len(work) = m /\ DOMAIN work = 1 .. m
      /\ \A k \in 1 .. m : work[k] = edgar[w[k]]
  BY TakesIs
<1>4. /\ w \in [1 .. n -> F]
      /\ \A x \in F : \E k \in 1 .. n : w[k] = x
      /\ \A k, l \in 1 .. n : k < l => w[k] # w[l] /\ edgar[w[k]].date >= edgar[w[l]].date
  BY Zenon DEF Lists
<1>5. Len(edgar) \in Nat /\ \A j \in 1 .. Len(edgar) : edgar[j].date \in Nat
  BY EdgarIs
<1> HIDE DEF F, n, m
<1>6. 1 .. m \subseteq 1 .. n
  BY <1>2
<1>7. \A j \in F : j \in left
  BY <1>1
<1>8. got = 1 .. m
  <2>1. ASSUME NEW p \in 1 .. m PROVE work[p].form \in forms
    <3>1. p \in 1 .. n
      BY <1>6
    <3>2. w[p] \in F /\ work[p] = edgar[w[p]]
      BY <1>3, <1>4, <3>1
    <3>3. /\ FormOf(w[p]) \in (1 .. Len(Forms)) \ failed
          /\ Forms[FormOf(w[p])] = work[p].form
      BY <1>1, <3>2
    <3> QED BY <3>3
  <2> QED BY <1>3, <2>1
<1>9. IsFiniteSet(left) /\ Cardinality(left) \in Nat
  <2>1. IsFiniteSet(1 .. Len(edgar))
    BY <1>5, Finite1To
  <2>2. IsFiniteSet(left)
    BY <2>1, FS_Subset
  <2> QED BY <2>2, FS_CardinalityType, Zenon
\* One that is left out of its form's listing comes behind count others of it.
<1>10. ASSUME NEW j \in left, j \notin F
       PROVE  /\ count <= n
              /\ \E A \in SUBSET F : /\ IsFiniteSet(A) /\ Cardinality(A) = count
                                     /\ \A k \in A : edgar[k].date >= edgar[j].date
  <2>1. PICK i \in (1 .. Len(Forms)) \ failed : edgar[j].form = Forms[i]
    OBVIOUS
  <2> DEFINE A == ListAvailable(Forms[i], count)
             K == Kept(Forms[i])
  <2>2. j \in K
    BY <2>1 DEF Kept, Listed, Skipped
  <2>3. A \in SUBSET F
    BY <1>1
  <2>4. /\ K \subseteq 1 .. Len(edgar) /\ A \subseteq K /\ IsFiniteSet(A)
        /\ \A x \in K \ A : Cardinality(A) = count /\ \A k \in A : k < x
    BY AvailableIs
  <2>5. j \in K \ A
    BY <1>10, <2>2, <2>3
  <2> HIDE DEF A, K
  <2>6. Cardinality(A) = count /\ \A k \in A : k < j
    BY <2>4, <2>5
  <2>7. ASSUME NEW k \in A PROVE edgar[k].date >= edgar[j].date
    <3>1. k \in 1 .. Len(edgar) /\ j \in 1 .. Len(edgar) /\ k < j
      BY <2>4, <2>5, <2>6
    <3> QED BY <3>1, EdgarIs
  <2>8. Cardinality(A) <= n
    BY <1>1, <2>3, FS_Subset DEF n
  <2> QED BY <2>3, <2>4, <2>6, <2>7, <2>8
<1>11. Cardinality(got) = Min({count, Cardinality(left)})
  <2>1. Cardinality(got) = m
    BY <1>3, <1>8, Finite1To
  <2>2. n <= Cardinality(left)
    <3>1. F \in SUBSET left
      BY <1>7
    <3> HIDE DEF left
    <3> QED BY <1>9, <3>1, FS_Subset DEF n
  <2>3. CASE count <= n
    <3>1. Min({count, Cardinality(left)}) = count
      BY <1>2, <1>9, <2>2, <2>3, MinIs
    <3> QED BY <1>2, <2>1, <2>3, <3>1
  <2>4. CASE ~(count <= n)
    <3>1. left = F
      BY <1>7, <1>10, <2>4
    <3>2. Cardinality(left) = n
      BY <3>1 DEF n
    <3>3. Min({count, n}) = m
      BY DEF m
    <3> QED BY <2>1, <3>2, <3>3
  <2> QED BY <2>3, <2>4
<1>12. \A p \in got : ~work[p].amended
  BY <1>1, <1>3, <1>4, <1>6, <1>8
\* At a place behind the work list, or nowhere in it.
<1>13. ASSUME NEW j \in left, NEW p \in got
       PROVE  edgar[j] \in ToSet(work) \/ work[p].date >= edgar[j].date
  <2>1. p \in 1 .. m /\ p \in 1 .. n /\ work[p] = edgar[w[p]] /\ w[p] \in F
    BY <1>3, <1>4, <1>6, <1>8
  <2>2. edgar[j].date \in Nat /\ edgar[w[p]].date \in Nat
    BY <1>1, <1>5, <2>1
  <2>3. CASE j \in F
    <3>1. PICK k \in 1 .. n : w[k] = j
      BY <1>4, <2>3
    <3>2. CASE k \in 1 .. m
      <4>1. work[k] = edgar[j]
        BY <1>3, <3>1, <3>2
      <4> QED BY <1>3, <3>2, <4>1 DEF ToSet
    <3>3. CASE k \notin 1 .. m
      <4>1. p < k
        BY <1>2, <2>1, <3>3
      <4> QED BY <1>4, <2>1, <3>1, <4>1
    <3> QED BY <3>2, <3>3
  <2>4. CASE j \notin F
    <3>1. count <= n
      BY <1>10, <2>4
    <3>2. PICK A \in SUBSET F : /\ IsFiniteSet(A) /\ Cardinality(A) = count
                                /\ \A k \in A : edgar[k].date >= edgar[j].date
      BY <1>10, <2>4
    <3>3. m = count
      BY <1>2, <3>1
    <3> SUFFICES ASSUME ~(work[p].date >= edgar[j].date) PROVE FALSE
      OBVIOUS
    <3>4. edgar[w[p]].date < edgar[j].date
      BY <2>1, <2>2
    <3> DEFINE P == {k \in 1 .. n : w[k] \in A}
               T == 1 .. p - 1
    <3>5. \A k \in P : k \in T
      <4> SUFFICES ASSUME NEW k \in 1 .. n, w[k] \in A PROVE k < p
        BY <2>1, <1>2
      <4>1. edgar[w[k]].date >= edgar[j].date /\ edgar[w[k]].date \in Nat
        BY <1>1, <1>5, <3>2
      <4>2. edgar[w[k]].date > edgar[w[p]].date
        <5> DEFINE x == edgar[w[k]].date
                   y == edgar[j].date
                   z == edgar[w[p]].date
        <5>1. x \in Nat /\ y \in Nat /\ z \in Nat /\ x >= y /\ z < y
          BY <2>2, <3>4, <4>1
        <5> HIDE DEF x, y, z
        <5>2. x > z
          BY <5>1
        <5> QED BY <5>2 DEF x, z
      <4>3. ~(p < k)
        <5>1. ASSUME p < k PROVE edgar[w[p]].date >= edgar[w[k]].date
          BY <1>4, <2>1, <5>1
        <5>2. ~(edgar[w[p]].date >= edgar[w[k]].date)
          <6> DEFINE x == edgar[w[k]].date
                     z == edgar[w[p]].date
          <6>1. x \in Nat /\ z \in Nat /\ x > z
            BY <2>2, <4>1, <4>2
          <6> HIDE DEF x, z
          <6>2. ~(z >= x)
            BY <6>1
          <6> QED BY <6>2 DEF x, z
        <5> QED BY <5>1, <5>2, Zenon
      <4>4. p # k
        <5> DEFINE x == edgar[w[k]].date
        <5>1. x \in Nat
          BY <4>1
        <5> HIDE DEF x
        <5>2. ~(x > x)
          BY <5>1
        <5> QED BY <4>2, <5>2 DEF x
      <4> QED BY <1>2, <2>1, <4>3, <4>4
    <3>6. IsFiniteSet(T) /\ Cardinality(T) = p - 1
      <4>1. p - 1 \in Nat
        BY <1>2, <2>1
      <4> QED BY <4>1, Finite1To
    <3>7. IsFiniteSet(P) /\ Cardinality(P) <= p - 1 /\ Cardinality(P) \in Nat
      <4>1. P \in SUBSET T
        BY <3>5
      <4> HIDE DEF P, T
      <4>2. IsFiniteSet(P) /\ Cardinality(P) <= p - 1
        BY <3>6, <4>1, FS_Subset
      <4> QED BY <4>2, FS_CardinalityType, Zenon
    <3>8. Cardinality(P) = Cardinality(A)
      <4>1. \A k \in P : w[k] \in A
        OBVIOUS
      <4>2. \A k, l \in P : w[k] = w[l] => k = l
        BY <1>2, <1>4
      <4>3. \A x \in A : \E k \in P : w[k] = x
        BY <1>4
      <4> HIDE DEF P
      <4> QED BY <3>2, <4>1, <4>2, <4>3, SameSize
    <3> QED BY <1>2, <2>1, <3>2, <3>3, <3>7, <3>8
  <2> QED BY <2>3, <2>4
<1>14. \A j \in left : edgar[j] \in ToSet(work) \/ \A p \in got : work[p].date >= edgar[j].date
  BY <1>13
<1> QED BY <1>11, <1>12, <1>14, Zenon DEF NewestOf, left, got

-----------------------------------------------------------------------------
(* The work list of a run.                                                  *)

\* The filings of a list are different, and none is called none.
NoneTwice ==
  /\ Len(work) \in Nat
  /\ \A p \in 1 .. Len(work) : work[p].id # "none"
  /\ \A p, q \in 1 .. Len(work) : work[p].id = work[q].id => p = q

LEMMA AskedIs ==
  ASSUME run \in Nat
  PROVE  /\ AskedForms \subseteq 1 .. Len(Forms)
         /\ mode.across => AskedForms = 1 .. Len(Forms)
<1>1. 1 + (run % Len(Forms)) \in 1 .. Len(Forms)
  BY FormsAre
<1> QED BY <1>1 DEF AskedForms

\* Different places hold different filings.
LEMMA TakesOnce ==
  ASSUME edgar \in Catalogue, NEW F \in SUBSET (1 .. Len(edgar)), NEW n \in Nat, NEW m \in Nat,
         m <= n, n = Cardinality(F), NEW w, Lists(w, F), Takes(w, m)
  PROVE  NoneTwice
<1>1. /\ Len(work) = m
      /\ \A k \in 1 .. m : work[k] = edgar[w[k]]
  BY TakesIs
<1>2. /\ w \in [1 .. n -> F]
      /\ \A k, l \in 1 .. n : k < l => w[k] # w[l]
  BY Zenon DEF Lists
<1>3. /\ Len(edgar) \in Nat
      /\ \A j \in 1 .. Len(edgar) : edgar[j].id # "none"
      /\ \A i, j \in 1 .. Len(edgar) : i < j => edgar[i].id # edgar[j].id
  BY EdgarIs
<1>4. ASSUME NEW p \in 1 .. m PROVE p \in 1 .. n /\ w[p] \in 1 .. Len(edgar)
  <2>1. p \in 1 .. n
    OBVIOUS
  <2>2. w[p] \in F
    BY <1>2, <2>1
  <2> QED BY <2>1, <2>2
<1>5. ASSUME NEW p \in 1 .. m, NEW q \in 1 .. m, p # q PROVE work[p].id # work[q].id
  <2>1. w[p] # w[q]
    BY <1>2, <1>4, <1>5
  <2>2. w[p] < w[q] \/ w[q] < w[p]
    BY <1>3, <1>4, <2>1
  <2> QED BY <1>1, <1>3, <1>4, <2>2
<1>6. \A p \in 1 .. m : work[p].id # "none"
  BY <1>1, <1>3, <1>4
<1> QED BY <1>1, <1>5, <1>6 DEF NoneTwice

\* What the newest of the listed forms are worth to a run.
Newest ==
  LET listed == {Forms[k] : k \in AskedForms \ lost}
  IN IF mode.across THEN NewestOf(listed) ELSE \A form \in listed : NewestOf({form})

\* The list a run builds has the newest originals of the forms it could list.
LEMMA BuiltIs ==
  ASSUME edgar \in Catalogue, count \in Nat, run \in Nat, lost \subseteq AskedForms,
         work = WorkList(lost \cup ((1 .. Len(Forms)) \ AskedForms))
  PROVE  NoneTwice /\ Newest
<1> DEFINE failed == lost \cup ((1 .. Len(Forms)) \ AskedForms)
           F == Found(failed, count)
           n == Cardinality(F)
<1>1. /\ AskedForms \subseteq 1 .. Len(Forms)
      /\ mode.across => AskedForms = 1 .. Len(Forms)
  BY AskedIs
<1>2. (1 .. Len(Forms)) \ failed = AskedForms \ lost
  BY <1>1
<1>3. F \in SUBSET (1 .. Len(edgar)) /\ IsFiniteSet(F)
  BY FoundIs
<1>4. n \in Nat
  BY <1>3, FS_CardinalityType, Zenon
<1>5. work = WorkList(failed)
  OBVIOUS
<1> HIDE DEF failed
<1>6. CASE mode.across
  <2> DEFINE m == Min({count, n})
  <2>1. m \in Nat /\ m <= n
    <3>1. m = IF count <= n THEN count ELSE n
      BY <1>4, MinIs
    <3> HIDE DEF m, n
    <3> QED BY <1>4, <3>1
  <2>2. PICK w : /\ Lists(w, F)
                 /\ \A k, l \in 1 .. n : k < l => edgar[w[k]].date >= edgar[w[l]].date
                 /\ AcrossForms(failed, count) = [k \in 1 .. m |-> edgar[w[k]]]
    BY AcrossFormsIs, ZenonT(40)
  <2>3. work = [k \in 1 .. m |-> edgar[w[k]]]
    BY <1>5, <1>6, <2>2, Zenon DEF WorkList
  <2>4. Takes(w, m)
    BY <2>1, <2>3, Zenon DEF Takes
  <2>5. NoneTwice
    <3> HIDE DEF F, m
    <3> QED BY <1>3, <1>4, <2>1, <2>2, <2>4, TakesOnce
  <2>6. NewestOf({Forms[i] : i \in (1 .. Len(Forms)) \ failed})
    BY <2>2, <2>4, NewestOfAll, Zenon
  <2> QED BY <1>2, <1>6, <2>5, <2>6, Zenon DEF Newest
<1>7. CASE ~mode.across
  <2>1. PICK w : /\ Lists(w, F)
                 /\ PerForm(failed, count) = [k \in 1 .. n |-> edgar[w[k]]]
    BY PerFormIs, ZenonT(40)
  <2>2. work = [k \in 1 .. n |-> edgar[w[k]]]
    BY <1>5, <1>7, <2>1, Zenon DEF WorkList
  <2>3. Takes(w, n)
    BY <1>4, <2>2, Zenon DEF Takes
  <2>4. NoneTwice
    <3> HIDE DEF F
    <3>1. n <= n
      BY <1>4
    <3> QED BY <1>3, <1>4, <2>1, <2>3, <3>1, TakesOnce
  <2>5. ASSUME NEW i \in (1 .. Len(Forms)) \ failed PROVE NewestOf({Forms[i]})
    BY <2>1, <2>3, NewestOfForm, Zenon
  <2>6. \A form \in {Forms[k] : k \in AskedForms \ lost} : NewestOf({form})
    BY <1>2, <2>5
  <2> QED BY <1>7, <2>4, <2>6, Zenon DEF Newest
<1> QED BY <1>6, <1>7

-----------------------------------------------------------------------------
(* A run works through its list.                                            *)

\* The places of the filings that were no duplicates when the run began.
FreshAt == {p \in 1 .. Len(work) : Unknown(p)}

\* The places behind all that the run has fetched.
Reached ==
  {b \in 1 .. Len(work) + 1 : \A i \in 1 .. Len(fetched) :
     \E p \in FreshAt : p < b /\ work[p].id = fetched[i]}

Asking(c) == call[c].step \in {"resolve", "apply", "call"}

ListTypes ==
  /\ mode.across \in BOOLEAN /\ edgar \in Catalogue /\ count \in Nat
  /\ pos \in 1 .. Len(work) + 1
  /\ tally \in [ok : Nat, skipped : Nat, failed : Nat]
  /\ fetched \in Seq({work[p].id : p \in 1 .. Len(work)})
  /\ DOMAIN ahead = 1 .. Runs

\* The list of a run and what came of it so far.
ListBuilt ==
  /\ NoneTwice
  /\ pc \notin {"build", "refused"} => lost \subseteq AskedForms /\ Newest
  /\ tally.ok + tally.skipped + tally.failed = pos - 1
  /\ pc \in {"fetch", "join", "inline", "ahead", "process", "store"} => pos \in FreshAt
  /\ pc = "build" => fetched = <<>>

\* Nothing is prefetched: the run has fetched nothing behind its place.
NoneAhead ==
  /\ call[run].step = "off" /\ pc # "join"
  /\ pc \in {"next", "fetch"} => pos \in Reached
  /\ pc \in {"inline", "ahead", "process", "store"} => pos + 1 \in Reached
  /\ pc = "inline" /\ Asking(0) => call[0].item = work[pos].id /\ pos \in Reached

\* The filing at place a is prefetched: the next new one of the list.
OneAhead(a) ==
  /\ ahead[run] = work[a].id /\ a + 1 \in Reached
  /\ Asking(run) => call[run].item = work[a].id /\ a \in Reached
  /\ pc \in {"next", "fetch", "join"} => pos <= a /\ \A j \in FreshAt : ~(pos <= j /\ j < a)
  /\ pc \in {"process", "store"} => pos < a /\ \A j \in FreshAt : ~(pos < j /\ j < a)

Prefetched ==
  /\ \A r \in 1 .. Runs : r # run => ahead[r] = "none"
  /\ ahead[run] = "none" => NoneAhead
  /\ ahead[run] # "none" =>
       /\ pc \notin {"build", "inline", "ahead", "over", "refused"}
       /\ \E a \in FreshAt : OneAhead(a)

ListInv == ListTypes /\ ListBuilt /\ Prefetched /\ FetchedOnceInOrder

\* Below a place the fetches are below every place behind it.
LEMMA ReachedIs ==
  ASSUME NoneTwice
  PROVE  /\ Len(work) \in Nat /\ FreshAt \subseteq 1 .. Len(work)
         /\ Reached \subseteq 1 .. Len(work) + 1
         /\ \A b \in Reached : \A c \in 1 .. Len(work) + 1 : b <= c => c \in Reached
         /\ fetched = <<>> => Reached = 1 .. Len(work) + 1
<1>1. Len(work) \in Nat /\ FreshAt \subseteq 1 .. Len(work) /\ Reached \subseteq 1 .. Len(work) + 1
  BY DEF NoneTwice, FreshAt, Reached
<1>2. ASSUME NEW b \in Reached, NEW c \in 1 .. Len(work) + 1, b <= c PROVE c \in Reached
  <2>1. ASSUME NEW i \in 1 .. Len(fetched)
        PROVE  \E p \in FreshAt : p < c /\ work[p].id = fetched[i]
    <3>1. PICK p \in FreshAt : p < b /\ work[p].id = fetched[i]
      BY DEF Reached
    <3>2. p < c
      BY <1>1, <1>2, <3>1
    <3> QED BY <3>1, <3>2
  <2> QED BY <2>1 DEF Reached
<1>3. fetched = <<>> => Reached = 1 .. Len(work) + 1
  <2> SUFFICES ASSUME fetched = <<>> PROVE Reached = 1 .. Len(work) + 1
    OBVIOUS
  <2>1. Len(fetched) = 0
    OBVIOUS
  <2>2. 1 .. Len(fetched) = {}
    BY <2>1
  <2> QED BY <2>2, Zenon DEF Reached
<1> QED BY <1>1, <1>2, <1>3

LEMMA SameList ==
  ASSUME UNCHANGED <<work, existing, fetched>>
  PROVE  /\ FreshAt' = FreshAt /\ Reached' = Reached
         /\ NoneTwice' <=> NoneTwice
         /\ FetchedOnceInOrder' <=> FetchedOnceInOrder
<1>1. \A p : Unknown(p)' <=> Unknown(p)
  BY DEF Unknown
<1>2. FreshAt' = FreshAt
  BY <1>1 DEF FreshAt
<1>3. Reached' = Reached
  BY <1>2 DEF Reached
<1>4. NoneTwice' <=> NoneTwice
  BY DEF NoneTwice
<1>5. FetchedOnceInOrder' <=> FetchedOnceInOrder
  BY DEF FetchedOnceInOrder
<1> QED BY <1>2, <1>3, <1>4, <1>5

LEMMA SameNewest ==
  ASSUME UNCHANGED <<mode, edgar, count, run, lost, work>>
  PROVE  (lost \subseteq AskedForms /\ Newest)' <=> lost \subseteq AskedForms /\ Newest
<1>1. AskedForms' = AskedForms
  BY DEF AskedForms
<1>2. \A forms : NewestOf(forms)' <=> NewestOf(forms)
  BY Zenon DEF NewestOf
<1>3. Newest' <=> Newest
  BY <1>1, <1>2, Zenon DEF Newest
<1> QED BY <1>1, <1>3

\* A new filing is fetched in its turn.
LEMMA FetchedNext ==
  ASSUME ListInv, NEW a \in FreshAt, a \in Reached,
         UNCHANGED <<work, existing>>, fetched' = Append(fetched, work[a].id)
  PROVE  /\ FetchedOnceInOrder' /\ FreshAt' = FreshAt /\ a + 1 \in Reached'
         /\ fetched' \in Seq({work[p].id : p \in 1 .. Len(work)})
<1> DEFINE T == {work[p].id : p \in 1 .. Len(work)}
           n == Len(fetched)
<1>1. /\ Len(work) \in Nat /\ FreshAt \subseteq 1 .. Len(work)
  BY ReachedIs DEF ListInv, ListBuilt
<1>2. fetched \in Seq(T) /\ work[a].id \in T
  BY <1>1 DEF ListInv, ListTypes
<1>3. /\ fetched' \in Seq(T) /\ Len(fetched') = n + 1 /\ n \in Nat
      /\ \A i \in 1 .. n : fetched'[i] = fetched[i]
      /\ fetched'[n + 1] = work[a].id
  <2> HIDE DEF T
  <2> QED BY <1>2
<1>4. FreshAt' = FreshAt /\ FreshAt = {p \in 1 .. Len(work) : Unknown(p)}
  <2>1. \A p : Unknown(p)' <=> Unknown(p)
    BY DEF Unknown
  <2> QED BY <2>1 DEF FreshAt
<1>5. \A i \in 1 .. n : \E p \in FreshAt : p < a /\ work[p].id = fetched[i]
  BY DEF Reached
<1> HIDE DEF n, T
<1>6. ASSUME NEW i \in 1 .. n + 1
      PROVE  \E p \in FreshAt : p < a + 1 /\ work[p].id = fetched'[i]
  <2>1. CASE i = n + 1
    BY <1>1, <1>3, <2>1
  <2>2. CASE i # n + 1
    <3>1. i \in 1 .. n
      BY <1>3, <2>2
    <3>2. PICK p \in FreshAt : p < a /\ work[p].id = fetched[i]
      BY <1>5, <3>1
    <3>3. p < a + 1
      BY <1>1, <3>2
    <3> QED BY <1>3, <3>1, <3>2, <3>3
  <2> QED BY <2>1, <2>2
<1>7. a + 1 \in Reached'
  <2>1. a + 1 \in 1 .. Len(work') + 1
    BY <1>1
  <2>2. \A i \in 1 .. Len(fetched') : \E p \in FreshAt' : p < a + 1 /\ work'[p].id = fetched'[i]
    BY <1>3, <1>4, <1>6
  <2> QED BY <2>1, <2>2 DEF Reached
<1>8. \A p \in FreshAt : p \in 1 .. Len(work) /\ work[p].id \notin existing
  BY DEF FreshAt, Unknown
<1>9. ASSUME NEW i \in 1 .. n + 1, NEW j \in 1 .. i - 1
      PROVE  \E p, q \in 1 .. Len(work) :
               p < q /\ work[p].id = fetched'[j] /\ work[q].id = fetched'[i]
  <2>1. j \in 1 .. n
    BY <1>3
  <2>2. CASE i = n + 1
    <3>1. PICK p \in FreshAt : p < a /\ work[p].id = fetched[j]
      BY <1>5, <2>1
    <3> QED BY <1>3, <1>8, <2>1, <2>2, <3>1
  <2>3. CASE i # n + 1
    <3>1. i \in 1 .. n
      BY <1>3, <2>3
    <3>2. \E p, q \in 1 .. Len(work) : p < q /\ work[p].id = fetched[j] /\ work[q].id = fetched[i]
      BY <3>1 DEF ListInv, FetchedOnceInOrder, n
    <3> QED BY <1>3, <2>1, <3>1, <3>2
  <2> QED BY <2>2, <2>3
<1>10. ASSUME NEW i \in 1 .. n + 1
       PROVE  fetched'[i] \notin existing /\ \E p \in 1 .. Len(work) : work[p].id = fetched'[i]
  BY <1>6, <1>8
<1>11. FetchedOnceInOrder'
  <2> SUFFICES ASSUME NEW i \in 1 .. Len(fetched')
               PROVE  /\ fetched'[i] \notin existing'
                      /\ \E p \in 1 .. Len(work') : work'[p].id = fetched'[i]
                      /\ \A j \in 1 .. (i - 1) : \E p, q \in 1 .. Len(work') :
                           p < q /\ work'[p].id = fetched'[j] /\ work'[q].id = fetched'[i]
    BY Zenon DEF FetchedOnceInOrder
  <2>1. i \in 1 .. n + 1
    BY <1>3
  <2> QED BY <1>9, <1>10, <2>1, Zenon
<1> QED BY <1>3, <1>4, <1>7, <1>11 DEF T

\* A step within a run that fetches nothing.
LEMMA SameRun ==
  ASSUME ListInv, UNCHANGED <<mode, edgar, count, run, work, lost, existing, fetched>>,
         DOMAIN ahead' = 1 .. Runs,
         pc' \in {"build", "refused"} \/ pc \notin {"build", "refused"},
         pc' = "build" => pc = "build",
         pc' \in {"fetch", "join", "inline", "ahead", "process", "store"} => pos' \in FreshAt,
         \/ UNCHANGED <<pos, tally>>
         \/ pos' = pos + 1 /\ pos <= Len(work) /\ \E k \in {"ok", "skipped", "failed"} : Tally(k)
  PROVE  /\ ListTypes' /\ ListBuilt' /\ FetchedOnceInOrder'
         /\ FreshAt' = FreshAt /\ Reached' = Reached
<1>1. /\ FreshAt' = FreshAt /\ Reached' = Reached /\ NoneTwice' /\ FetchedOnceInOrder'
      /\ Len(work) \in Nat
  BY SameList DEF ListInv, ListBuilt, NoneTwice
<1>2. pc' \notin {"build", "refused"} => (lost \subseteq AskedForms /\ Newest)'
  BY SameNewest DEF ListInv, ListBuilt
<1>3. /\ pos \in 1 .. Len(work) + 1
      /\ tally \in [ok : Nat, skipped : Nat, failed : Nat]
      /\ tally.ok + tally.skipped + tally.failed = pos - 1
  BY DEF ListInv, ListTypes, ListBuilt
<1>4. /\ pos' \in 1 .. Len(work) + 1
      /\ tally' \in [ok : Nat, skipped : Nat, failed : Nat]
      /\ tally'.ok + tally'.skipped + tally'.failed = pos' - 1
  <2>1. CASE UNCHANGED <<pos, tally>>
    BY <1>3, <2>1
  <2>2. ASSUME pos' = pos + 1, pos <= Len(work), NEW k \in {"ok", "skipped", "failed"}, Tally(k)
        PROVE  /\ pos' \in 1 .. Len(work) + 1
               /\ tally' \in [ok : Nat, skipped : Nat, failed : Nat]
               /\ tally'.ok + tally'.skipped + tally'.failed = pos' - 1
    <3>1. tally' = [tally EXCEPT ![k] = tally[k] + 1]
      BY <2>2 DEF Tally
    <3> DEFINE x == tally.ok
               y == tally.skipped
               z == tally.failed
    <3>2. x \in Nat /\ y \in Nat /\ z \in Nat /\ x + y + z = pos - 1
      BY <1>3
    <3>3. /\ tally' \in [ok : Nat, skipped : Nat, failed : Nat]
          /\ \/ tally'.ok = x + 1 /\ tally'.skipped = y /\ tally'.failed = z
             \/ tally'.ok = x /\ tally'.skipped = y + 1 /\ tally'.failed = z
             \/ tally'.ok = x /\ tally'.skipped = y /\ tally'.failed = z + 1
      <4>1. CASE k = "ok"
        BY <1>3, <3>1, <4>1
      <4>2. CASE k = "skipped"
        BY <1>3, <3>1, <4>2
      <4>3. CASE k = "failed"
        BY <1>3, <3>1, <4>3
      <4> QED BY <4>1, <4>2, <4>3
    <3>4. pos' \in 1 .. Len(work) + 1
      BY <1>1, <1>3, <2>2
    <3> HIDE DEF x, y, z
    <3>5. tally'.ok + tally'.skipped + tally'.failed = pos' - 1
      <4>1. pos \in Nat
        BY <1>1, <1>3
      <4>2. (x + 1) + y + z = pos /\ x + (y + 1) + z = pos /\ x + y + (z + 1) = pos
        BY <3>2, <4>1
      <4>3. tally'.ok + tally'.skipped + tally'.failed = pos
        BY <3>3, <4>2, Zenon
      <4> QED BY <2>2, <4>1, <4>3
    <3> QED BY <3>3, <3>4, <3>5
  <2> QED BY <2>1, <2>2
<1>5. ListTypes'
  <2>1. mode.across \in BOOLEAN /\ edgar \in Catalogue /\ count \in Nat
        /\ fetched \in Seq({work[p].id : p \in 1 .. Len(work)})
    BY DEF ListInv, ListTypes
  <2> QED BY <1>4, <2>1 DEF ListTypes
<1>6. ListBuilt'
  <2>1. pc' = "build" => fetched' = <<>>
    BY DEF ListInv, ListBuilt
  <2> QED BY <1>1, <1>2, <1>4, <2>1 DEF ListBuilt
<1> QED BY <1>1, <1>5, <1>6

LEMMA ListStarts == FetchingInit => ListInv
<1> SUFFICES ASSUME FetchingInit PROVE ListInv
  OBVIOUS
<1>1. /\ mode.across \in BOOLEAN /\ edgar \in Catalogue /\ count \in Nat
      /\ work = <<>> /\ fetched = <<>> /\ pos = 1 /\ pc = "build" /\ run = 1
      /\ tally = [ok |-> 0, skipped |-> 0, failed |-> 0]
      /\ ahead = [r \in 1 .. Runs |-> "none"] /\ call = [c \in Callers |-> Quiet]
  BY DEF FetchingInit, Zero
<1>2. Len(work) = 0 /\ 1 .. Len(work) = {} /\ Len(fetched) = 0 /\ 1 .. Len(fetched) = {}
  BY <1>1
<1>3. ListTypes
  BY <1>1, <1>2 DEF ListTypes
<1>4. ListBuilt
  BY <1>1, <1>2 DEF ListBuilt, NoneTwice
<1>5. Prefetched
  BY <1>1, FetchingAssumption DEF Prefetched, NoneAhead, Callers, Quiet
<1>6. FetchedOnceInOrder
  BY <1>1, <1>2, Zenon DEF FetchedOnceInOrder
<1> QED BY <1>3, <1>4, <1>5, <1>6 DEF ListInv

\* What the step of a run starts from.
LEMMA RunIs ==
  ASSUME FetchingInv, ListInv
  PROVE  /\ Len(work) \in Nat /\ FreshAt \subseteq 1 .. Len(work)
         /\ Reached \subseteq 1 .. Len(work) + 1
         /\ \A b \in Reached : \A c \in 1 .. Len(work) + 1 : b <= c => c \in Reached
         /\ pos \in 1 .. Len(work) + 1 /\ DOMAIN ahead = 1 .. Runs
         /\ run \in 1 .. Runs /\ Runs \in Nat /\ 0 \in Callers /\ run \in Callers /\ run # 0
         /\ DOMAIN call = Callers
         /\ \A c \in Callers : DOMAIN call[c] = {"item", "step", "as"}
         /\ \A p \in 1 .. Len(work) : work[p].id # "none"
         /\ \A p, q \in 1 .. Len(work) : work[p].id = work[q].id => p = q
         /\ \A p : p \in FreshAt <=> p \in 1 .. Len(work) /\ Unknown(p)
<1>1. /\ Len(work) \in Nat /\ FreshAt \subseteq 1 .. Len(work)
      /\ Reached \subseteq 1 .. Len(work) + 1
      /\ \A b \in Reached : \A c \in 1 .. Len(work) + 1 : b <= c => c \in Reached
  BY ReachedIs, Zenon DEF ListInv, ListBuilt
<1>2. /\ \A p \in 1 .. Len(work) : work[p].id # "none"
      /\ \A p, q \in 1 .. Len(work) : work[p].id = work[q].id => p = q
  BY Zenon DEF ListInv, ListBuilt, NoneTwice
<1>3. pos \in 1 .. Len(work) + 1 /\ DOMAIN ahead = 1 .. Runs
  BY Zenon DEF ListInv, ListTypes
<1>4. /\ run \in 1 .. Runs /\ Runs \in Nat /\ 0 \in Callers /\ run \in Callers /\ run # 0
      /\ DOMAIN call = Callers
      /\ \A c \in Callers : DOMAIN call[c] = {"item", "step", "as"}
  BY FetchingAssumption DEF FetchingInv, FetchingTypes, Callers
<1> QED BY <1>1, <1>2, <1>3, <1>4, Zenon DEF FreshAt

\* Where the next filing is prefetched, the run gets to it before any other new one.
LEMMA AheadIsHere ==
  ASSUME FetchingInv, ListInv, pc \in {"fetch", "join"}, ahead[run] # "none"
  PROVE  ahead[run] = work[pos].id /\ pos + 1 \in Reached
<1>1. PICK a \in FreshAt : OneAhead(a)
  BY DEF ListInv, Prefetched
<1>2. pos \in FreshAt /\ pos <= a /\ ~(pos <= pos /\ pos < a)
  BY <1>1 DEF OneAhead, ListInv, ListBuilt
<1>3. a = pos
  BY <1>2, RunIs
<1> QED BY <1>1, <1>3 DEF OneAhead

\* Steps of the loop that leave its fetches alone.
LEMMA AsideLists ==
  ASSUME FetchingInv, ListInv,
         Refuse \/ Stop \/ SkipDuplicate \/ TakeNext \/ Process
  PROVE  ListInv'
<1> USE RunIs
<1>1. /\ UNCHANGED <<mode, edgar, count, run, work, lost, existing, fetched, call, ahead>>
      /\ pc \in {"build", "next", "process"}
      /\ pc = "build" => pc' = "refused" /\ UNCHANGED <<pos, tally>>
      /\ pc = "next" =>
           \/ pc' = "close" /\ UNCHANGED <<pos, tally>>
           \/ pc' = "next" /\ pos <= Len(work) /\ ~Unknown(pos) /\ pos' = pos + 1 /\ Tally("skipped")
           \/ pc' = "fetch" /\ pos <= Len(work) /\ Unknown(pos) /\ UNCHANGED <<pos, tally>>
      /\ pc = "process" => pc' \in {"close", "store"} /\ UNCHANGED <<pos, tally>>
  BY DEF Refuse, Stop, SkipDuplicate, TakeNext, Process, Going, fixed, netVars
<1>2. /\ ListTypes' /\ ListBuilt' /\ FetchedOnceInOrder'
      /\ FreshAt' = FreshAt /\ Reached' = Reached
  <2>1. DOMAIN ahead' = 1 .. Runs
    BY <1>1
  <2>2. pc' \in {"build", "refused"} \/ pc \notin {"build", "refused"}
    BY <1>1
  <2>3. pc' = "build" => pc = "build"
    BY <1>1
  <2>4. pc' \in {"fetch", "join", "inline", "ahead", "process", "store"} => pos' \in FreshAt
    <3>1. pc = "process" => pos \in FreshAt
      BY DEF ListInv, ListBuilt
    <3> QED BY <1>1, <3>1
  <2>5. \/ UNCHANGED <<pos, tally>>
        \/ pos' = pos + 1 /\ pos <= Len(work) /\ \E k \in {"ok", "skipped", "failed"} : Tally(k)
    BY <1>1
  <2> QED BY <1>1, <2>1, <2>2, <2>3, <2>4, <2>5, SameRun
<1>3. CASE ahead[run] = "none"
  <2>1. NoneAhead
    BY <1>3 DEF ListInv, Prefetched
  <2>2. NoneAhead'
    <3>1. pc = "next" /\ pc' = "next" => pos + 1 \in Reached
      BY <1>1, <2>1 DEF NoneAhead
    <3> QED BY <1>1, <1>2, <2>1, <3>1 DEF NoneAhead
  <2>3. Prefetched'
    BY <1>1, <1>3, <2>2 DEF ListInv, Prefetched
  <2> QED BY <1>2, <2>3 DEF ListInv
<1>4. CASE ahead[run] # "none"
  <2>1. PICK a \in FreshAt : OneAhead(a)
    BY <1>4 DEF ListInv, Prefetched
  <2>2. pc \notin {"build", "inline", "ahead", "over", "refused"}
    BY <1>4 DEF ListInv, Prefetched
  <2>3. a \in Nat /\ pos \in Nat
    OBVIOUS
  <2>4. pc = "next" /\ pc' = "next" => pos + 1 <= a /\ \A j \in FreshAt : ~(pos + 1 <= j /\ j < a)
    <3> SUFFICES ASSUME pc = "next", pc' = "next"
                 PROVE  pos + 1 <= a /\ \A j \in FreshAt : ~(pos + 1 <= j /\ j < a)
      OBVIOUS
    <3>1. pos \notin FreshAt
      BY <1>1
    <3>2. pos <= a /\ \A j \in FreshAt : ~(pos <= j /\ j < a)
      BY <2>1 DEF OneAhead
    <3>3. a # pos
      BY <3>1
    <3>4. \A j \in FreshAt : j \in Nat
      OBVIOUS
    <3> QED BY <2>3, <3>2, <3>3, <3>4
  <2>5. OneAhead(a)'
    BY <1>1, <1>2, <2>1, <2>2, <2>4 DEF OneAhead, Asking
  <2>6. Prefetched'
    BY <1>1, <1>2, <1>4, <2>2, <2>5 DEF ListInv, Prefetched
  <2> QED BY <1>2, <2>6 DEF ListInv
<1> QED BY <1>3, <1>4

\* fetch: the prefetched filing is the one in hand, or none is prefetched.
LEMMA FetchHereLists ==
  ASSUME FetchingInv, ListInv, FetchHere
  PROVE  ListInv'
<1> USE RunIs
<1>1. /\ UNCHANGED <<mode, edgar, count, run, work, lost, existing, fetched, ahead, pos, tally>>
      /\ pc = "fetch" /\ pos \in FreshAt
  BY DEF FetchHere, fixed, ListInv, ListBuilt
<1>2. pc' = "join" \/ pc' = "inline"
  BY DEF FetchHere
<1>3. /\ ListTypes' /\ ListBuilt' /\ FetchedOnceInOrder'
      /\ FreshAt' = FreshAt /\ Reached' = Reached
  <2>1. DOMAIN ahead' = 1 .. Runs
    BY <1>1
  <2> QED BY <1>1, <1>2, <2>1, SameRun
<1>4. CASE ahead[run] # "none"
  <2>1. PICK a \in FreshAt : OneAhead(a)
    BY <1>4 DEF ListInv, Prefetched
  <2>2. ahead[run] = work[pos].id
    BY <1>1, <1>4, AheadIsHere
  <2>3. pc' = "join" /\ UNCHANGED call
    BY <2>2 DEF FetchHere, Item
  <2>4. OneAhead(a)'
    BY <1>1, <1>3, <2>1, <2>3 DEF OneAhead, Asking
  <2>5. Prefetched'
    BY <1>1, <1>3, <1>4, <2>3, <2>4 DEF ListInv, Prefetched
  <2> QED BY <1>3, <2>5 DEF ListInv
<1>5. CASE ahead[run] = "none"
  <2>1. NoneAhead
    BY <1>5 DEF ListInv, Prefetched
  <2>2. pc' = "inline" /\ call' = [call EXCEPT ![0] = [item |-> work[pos].id, step |-> "resolve", as |-> 0]]
    BY <1>1, <1>5 DEF FetchHere, Item, StartCall
  <2>3. call'[run] = call[run] /\ call'[0].item = work[pos].id
    BY <2>2
  <2>4. pos + 1 \in Reached
    <3>1. pos \in Reached
      BY <1>1, <2>1 DEF NoneAhead
    <3> QED BY <1>1, <3>1
  <2>5. NoneAhead'
    BY <1>1, <1>3, <2>1, <2>2, <2>3, <2>4 DEF NoneAhead
  <2>6. Prefetched'
    BY <1>1, <1>5, <2>2, <2>5 DEF ListInv, Prefetched
  <2> QED BY <1>3, <2>6 DEF ListInv
<1> QED BY <1>4, <1>5

\* The call of a fetch that has ended leaves none ahead and the filing in hand fetched.
LEMMA CollectIs ==
  ASSUME FetchingInv, ListInv, pc \in {"join", "inline"},
         call' = [call EXCEPT ![Caller] = Quiet],
         ahead' = [ahead EXCEPT ![run] = IF pc = "join" THEN "none" ELSE @]
  PROVE  /\ DOMAIN ahead' = 1 .. Runs
         /\ \A r \in 1 .. Runs : ahead'[r] = "none"
         /\ call'[run].step = "off"
         /\ pos + 1 \in Reached
<1> USE RunIs
<1>1. DOMAIN ahead' = 1 .. Runs
  OBVIOUS
<1>2. \A r \in 1 .. Runs : r # run => ahead[r] = "none"
  BY DEF ListInv, Prefetched
<1>3. CASE pc = "join"
  <2>1. ahead[run] # "none"
    BY <1>3 DEF ListInv, Prefetched, NoneAhead
  <2>2. pos + 1 \in Reached
    BY <1>3, <2>1, AheadIsHere
  <2>3. call' = [call EXCEPT ![run] = Quiet] /\ ahead' = [ahead EXCEPT ![run] = "none"]
    BY <1>3 DEF Caller
  <2>4. \A r \in 1 .. Runs : ahead'[r] = "none"
    BY <1>2, <2>3
  <2>5. call'[run].step = "off"
    BY <2>3 DEF Quiet
  <2> QED BY <1>1, <2>2, <2>4, <2>5
<1>4. CASE pc = "inline"
  <2>1. ahead[run] = "none" /\ NoneAhead
    BY <1>4 DEF ListInv, Prefetched
  <2>2. call' = [call EXCEPT ![0] = Quiet] /\ ahead' = [ahead EXCEPT ![run] = ahead[run]]
    BY <1>4 DEF Caller
  <2>3. \A r \in 1 .. Runs : ahead'[r] = "none"
    BY <1>2, <2>1, <2>2
  <2>4. call'[run].step = "off" /\ pos + 1 \in Reached
    BY <1>4, <2>1, <2>2 DEF NoneAhead
  <2> QED BY <1>1, <2>3, <2>4
<1> QED BY <1>3, <1>4

LEMMA CollectedLists ==
  ASSUME FetchingInv, ListInv, Collected
  PROVE  ListInv'
<1>1. /\ UNCHANGED <<mode, edgar, count, run, work, lost, existing, fetched, pos, tally>>
      /\ pc \in {"join", "inline"} /\ pos \in FreshAt /\ pc' \in {"ahead", "close"}
  BY DEF Collected, fixed, ListInv, ListBuilt
<1>2. /\ DOMAIN ahead' = 1 .. Runs
      /\ \A r \in 1 .. Runs : ahead'[r] = "none"
      /\ call'[run].step = "off"
      /\ pos + 1 \in Reached
  BY CollectIs DEF Collected
<1>3. /\ ListTypes' /\ ListBuilt' /\ FetchedOnceInOrder'
      /\ FreshAt' = FreshAt /\ Reached' = Reached
  BY <1>1, <1>2, SameRun
<1>4. NoneAhead'
  BY <1>1, <1>2, <1>3 DEF NoneAhead
<1>5. Prefetched'
  BY <1>1, <1>2, <1>4, RunIs DEF Prefetched
<1> QED BY <1>3, <1>5 DEF ListInv

\* start_after: the one ahead is the next new filing of the list.
LEMMA StartAfterLists ==
  ASSUME FetchingInv, ListInv, StartAfter
  PROVE  ListInv'
<1> USE RunIs
<1>1. /\ UNCHANGED <<mode, edgar, count, run, work, lost, existing, fetched, pos, tally>>
      /\ pc = "ahead" /\ pos \in FreshAt /\ pc' = "process"
  BY DEF StartAfter, fixed, ListInv, ListBuilt
<1>2. ahead[run] = "none" /\ NoneAhead
  BY <1>1 DEF ListInv, Prefetched
<1>3. pos + 1 \in Reached
  BY <1>1, <1>2 DEF NoneAhead
<1>4. DOMAIN ahead' = 1 .. Runs
  BY DEF StartAfter
<1>5. /\ ListTypes' /\ ListBuilt' /\ FetchedOnceInOrder'
      /\ FreshAt' = FreshAt /\ Reached' = Reached
  BY <1>1, <1>4, SameRun
<1>6. CASE UNCHANGED <<ahead, call>>
  <2>1. NoneAhead'
    BY <1>1, <1>2, <1>3, <1>5, <1>6 DEF NoneAhead
  <2>2. Prefetched'
    BY <1>1, <1>2, <1>6, <2>1 DEF ListInv, Prefetched
  <2> QED BY <1>5, <2>2 DEF ListInv
<1>7. CASE ~UNCHANGED <<ahead, call>>
  <2> DEFINE m == Min(After(pos))
  <2>1. /\ After(pos) # {} /\ ahead' = [ahead EXCEPT ![run] = work[m].id]
        /\ call' = [call EXCEPT ![run] = [item |-> work[m].id, step |-> "resolve", as |-> 0]]
    BY <1>7 DEF StartAfter, StartCall
  <2>2. m \in After(pos) /\ \A j \in After(pos) : m <= j
    <3>1. After(pos) \in SUBSET Nat
      BY DEF After
    <3>2. \E j \in After(pos) : \A k \in After(pos) : j <= k
      BY <2>1, <3>1, LeastExists, Zenon
    <3> QED BY <3>2, Zenon DEF Min
  <2> HIDE DEF m
  <2>3. After(pos) = {j \in FreshAt : pos < j}
    BY DEF After
  <2>4. PICK a \in FreshAt : a = m /\ pos < a /\ \A j \in FreshAt : ~(pos < j /\ j < a)
    BY <2>2, <2>3
  <2>5. a \in Reached /\ a + 1 \in Reached
    <3>1. a \in 1 .. Len(work) + 1 /\ pos + 1 <= a
      BY <2>4
    <3>2. a + 1 \in 1 .. Len(work) + 1 /\ pos + 1 <= a + 1
      BY <2>4
    <3> QED BY <1>3, <3>1, <3>2
  <2>6. ahead'[run] = work[a].id /\ ahead'[run] # "none" /\ \A r \in 1 .. Runs : r # run => ahead'[r] = "none"
    BY <2>1, <2>4 DEF ListInv, Prefetched
  <2>7. call'[run].item = work[a].id
    BY <2>1, <2>4
  <2>8. OneAhead(a)'
    BY <1>1, <1>5, <2>4, <2>5, <2>6, <2>7 DEF OneAhead
  <2>9. Prefetched'
    BY <1>1, <1>5, <2>4, <2>6, <2>8 DEF Prefetched
  <2> QED BY <1>5, <2>9 DEF ListInv
<1> QED BY <1>6, <1>7

\* The filing in hand fails or is stored, and the run goes on to the next.
LEMMA EndedLists ==
  ASSUME FetchingInv, ListInv, FilingFails \/ Store
  PROVE  ListInv'
<1> USE RunIs
<1>1. /\ UNCHANGED <<mode, edgar, count, run, work, lost, existing, fetched>>
      /\ pc' = "next" /\ pos' = pos + 1
      /\ \/ /\ pc \in {"join", "inline"} /\ call' = [call EXCEPT ![Caller] = Quiet]
            /\ ahead' = [ahead EXCEPT ![run] = IF pc = "join" THEN "none" ELSE @]
         \/ pc \in {"process", "store"} /\ UNCHANGED <<call, ahead>>
  BY DEF FilingFails, Store, fixed, netVars
<1>2. \E k \in {"ok", "skipped", "failed"} : Tally(k)
  <2>1. FilingFails => Tally("failed")
    BY DEF FilingFails
  <2>2. Store => Tally("ok") \/ Tally("skipped") \/ Tally("failed")
    BY Zenon DEF Store
  <2> QED BY <2>1, <2>2, Zenon
<1>3. pos \in FreshAt /\ pos <= Len(work)
  BY <1>1 DEF ListInv, ListBuilt
<1>4. DOMAIN ahead' = 1 .. Runs
  BY <1>1
<1>5. /\ ListTypes' /\ ListBuilt' /\ FetchedOnceInOrder'
      /\ FreshAt' = FreshAt /\ Reached' = Reached
  <2>1. pc' \in {"build", "refused"} \/ pc \notin {"build", "refused"}
    BY <1>1
  <2>2. \/ UNCHANGED <<pos, tally>>
        \/ pos' = pos + 1 /\ pos <= Len(work) /\ \E k \in {"ok", "skipped", "failed"} : Tally(k)
    BY <1>1, <1>2, <1>3
  <2>3. pc' \notin {"build", "fetch", "join", "inline", "ahead", "process", "store"}
    BY <1>1
  <2> QED BY <1>1, <1>4, <2>1, <2>2, <2>3, SameRun
<1>6. CASE pc \in {"join", "inline"}
  <2>1. /\ \A r \in 1 .. Runs : ahead'[r] = "none"
        /\ call'[run].step = "off" /\ pos + 1 \in Reached
    BY <1>1, <1>6, CollectIs
  <2>2. NoneAhead'
    BY <1>1, <1>5, <2>1 DEF NoneAhead
  <2>3. Prefetched'
    BY <1>1, <2>1, <2>2 DEF Prefetched
  <2> QED BY <1>5, <2>3 DEF ListInv
<1>7. CASE pc \in {"process", "store"}
  <2>1. UNCHANGED <<call, ahead>>
    BY <1>1, <1>7
  <2>2. CASE ahead[run] = "none"
    <3>1. NoneAhead
      BY <2>2 DEF ListInv, Prefetched
    <3>2. NoneAhead'
      BY <1>1, <1>5, <1>7, <2>1, <3>1 DEF NoneAhead
    <3>3. Prefetched'
      BY <1>1, <2>1, <2>2, <3>2 DEF ListInv, Prefetched
    <3> QED BY <1>5, <3>3 DEF ListInv
  <2>3. CASE ahead[run] # "none"
    <3>1. PICK a \in FreshAt : OneAhead(a)
      BY <2>3 DEF ListInv, Prefetched
    <3>2. pos < a /\ \A j \in FreshAt : ~(pos < j /\ j < a)
      BY <1>7, <3>1 DEF OneAhead
    <3>3. pos + 1 <= a /\ \A j \in FreshAt : ~(pos + 1 <= j /\ j < a)
      <4>1. a \in Nat /\ pos \in Nat /\ \A j \in FreshAt : j \in Nat
        OBVIOUS
      <4> QED BY <3>2, <4>1
    <3>4. OneAhead(a)'
      BY <1>1, <1>5, <2>1, <3>1, <3>3 DEF OneAhead, Asking
    <3>5. Prefetched'
      BY <1>1, <1>5, <2>1, <2>3, <3>4 DEF ListInv, Prefetched
    <3> QED BY <1>5, <3>5 DEF ListInv
  <2> QED BY <2>2, <2>3
<1> QED BY <1>1, <1>6, <1>7

\* close: no thread outlives its run.
LEMMA CloseLists ==
  ASSUME FetchingInv, ListInv, Close
  PROVE  ListInv'
<1> USE RunIs
<1>1. /\ UNCHANGED <<mode, edgar, count, run, work, lost, existing, fetched, pos, tally>>
      /\ pc = "close" /\ pc' = "over"
      /\ call' = [call EXCEPT ![run] = Quiet] /\ ahead' = [ahead EXCEPT ![run] = "none"]
  BY DEF Close, fixed
<1>2. /\ DOMAIN ahead' = 1 .. Runs /\ call'[run].step = "off"
      /\ \A r \in 1 .. Runs : ahead'[r] = "none"
  BY <1>1 DEF ListInv, Prefetched, Quiet
<1>3. /\ ListTypes' /\ ListBuilt' /\ FetchedOnceInOrder'
  BY <1>1, <1>2, SameRun
<1>4. NoneAhead'
  BY <1>1, <1>2 DEF NoneAhead
<1>5. Prefetched'
  BY <1>1, <1>2, <1>4 DEF Prefetched
<1> QED BY <1>3, <1>5 DEF ListInv

\* Resolve, set and call: what is asked for stays.
LEMMA AskingLists ==
  ASSUME FetchingInv, ListInv, NEW c \in Callers, Resolve(c) \/ Apply(c)
  PROVE  ListInv'
<1> USE RunIs
<1>1. /\ UNCHANGED <<mode, edgar, count, run, work, lost, existing, fetched, pos, tally, ahead, pc>>
      /\ Asking(c)
  BY DEF Resolve, Apply, fixed, loopVars, Asking
<1>2. \A d \in Callers : /\ call'[d].item = call[d].item
                         /\ Asking(d)' <=> Asking(d)
                         /\ d # c => call'[d] = call[d]
  <2>1. \/ call' = [call EXCEPT ![c].step = "apply",
                                ![c].as = IF RunOf(c) = run /\ pc # "over" THEN Own(run) ELSE 0]
        \/ call' = [call EXCEPT ![c].step = "call"]
    BY DEF Resolve, Apply
  <2>2. call'[c].step \in {"apply", "call"} /\ call'[c].item = call[c].item
    BY <2>1
  <2>3. \A d \in Callers : d # c => call'[d] = call[d]
    BY <2>1
  <2> QED BY <1>1, <2>2, <2>3 DEF Asking
<1>3. /\ ListTypes' /\ ListBuilt' /\ FetchedOnceInOrder'
      /\ FreshAt' = FreshAt /\ Reached' = Reached
  <2>1. pc' \in {"fetch", "join", "inline", "ahead", "process", "store"} => pos' \in FreshAt
    BY <1>1 DEF ListInv, ListBuilt
  <2>2. DOMAIN ahead' = 1 .. Runs
    BY <1>1
  <2> QED BY <1>1, <2>1, <2>2, SameRun
<1>4. CASE ahead[run] = "none"
  <2>1. NoneAhead
    BY <1>4 DEF ListInv, Prefetched
  <2>2. c # run
    BY <1>1, <2>1 DEF NoneAhead, Asking
  <2>3. call'[run] = call[run] /\ call'[0].item = call[0].item /\ (Asking(0)' <=> Asking(0))
    BY <1>2, <2>2
  <2>4. NoneAhead'
    BY <1>1, <1>3, <2>1, <2>3 DEF NoneAhead
  <2>5. Prefetched'
    BY <1>1, <1>4, <2>4 DEF ListInv, Prefetched
  <2> QED BY <1>3, <2>5 DEF ListInv
<1>5. CASE ahead[run] # "none"
  <2>1. PICK a \in FreshAt : OneAhead(a)
    BY <1>5 DEF ListInv, Prefetched
  <2>2. call'[run].item = call[run].item /\ (Asking(run)' <=> Asking(run))
    BY <1>1, <1>2 DEF Asking
  <2>3. OneAhead(a)'
    BY <1>1, <1>3, <2>1, <2>2 DEF OneAhead
  <2>4. Prefetched'
    BY <1>1, <1>3, <1>5, <2>3 DEF ListInv, Prefetched
  <2> QED BY <1>3, <2>4 DEF ListInv
<1> QED BY <1>4, <1>5

\* The call of the filing at place a returns, and it is the next one fetched.
LEMMA ReturnLists ==
  ASSUME FetchingInv, ListInv, NEW c \in Callers, Return(c)
  PROVE  ListInv'
<1> USE RunIs
<1>1. /\ UNCHANGED <<mode, edgar, count, run, work, lost, existing, pos, tally, ahead, pc>>
      /\ call[c].step = "call" /\ Asking(c)
      /\ fetched' = IF RunOf(c) = run THEN Append(fetched, call[c].item) ELSE fetched
  BY DEF Return, fixed, Asking
<1>2. /\ RunOf(c) = run /\ pc \notin {"build", "over", "refused"}
      /\ c = 0 => pc = "inline"
  BY <1>1 DEF FetchingInv, InHand
<1>3. c = 0 \/ c = run
  BY <1>2 DEF RunOf
<1>4. fetched' = Append(fetched, call[c].item)
  BY <1>1, <1>2
<1>5. \A d \in Callers : (d # c => call'[d] = call[d]) /\ (d = c => call'[d].step \in {"html", "error"})
  <2>1. PICK outcome \in {"html", "error"} : call' = [call EXCEPT ![c].step = outcome]
    BY DEF Return
  <2> QED BY <2>1
<1>6. ASSUME NEW a \in FreshAt, a \in Reached, call[c].item = work[a].id
      PROVE  /\ ListTypes' /\ ListBuilt' /\ FetchedOnceInOrder'
             /\ FreshAt' = FreshAt /\ a + 1 \in Reached'
  <2>1. /\ FetchedOnceInOrder' /\ FreshAt' = FreshAt /\ a + 1 \in Reached'
        /\ fetched' \in Seq({work[p].id : p \in 1 .. Len(work)})
    BY <1>1, <1>4, <1>6, FetchedNext
  <2>2. ListTypes'
    BY <1>1, <2>1 DEF ListInv, ListTypes
  <2>3. NoneTwice'
    BY <1>1 DEF ListInv, ListBuilt, NoneTwice
  <2>4. pc' \notin {"build", "refused"} => (lost \subseteq AskedForms /\ Newest)'
    BY <1>1, SameNewest DEF ListInv, ListBuilt
  <2>5. ListBuilt'
    BY <1>1, <1>2, <2>1, <2>3, <2>4 DEF ListInv, ListBuilt
  <2> QED BY <2>1, <2>2, <2>5
<1>7. CASE c = run
  <2>1. ahead[run] # "none"
    BY <1>1, <1>7 DEF ListInv, Prefetched, NoneAhead
  <2>2. PICK a \in FreshAt : OneAhead(a)
    BY <2>1 DEF ListInv, Prefetched
  <2>3. call[c].item = work[a].id /\ a \in Reached
    BY <1>1, <1>7, <2>2 DEF OneAhead
  <2>4. /\ ListTypes' /\ ListBuilt' /\ FetchedOnceInOrder'
        /\ FreshAt' = FreshAt /\ a + 1 \in Reached'
    BY <1>6, <2>3
  <2>5. ~Asking(run)'
    BY <1>1, <1>5, <1>7 DEF Asking
  <2>6. OneAhead(a)'
    BY <1>1, <2>2, <2>4, <2>5 DEF OneAhead
  <2>7. Prefetched'
    BY <1>1, <2>1, <2>4, <2>6 DEF ListInv, Prefetched
  <2> QED BY <2>4, <2>7 DEF ListInv
<1>8. CASE c = 0
  <2>1. pc = "inline" /\ pos \in FreshAt
    BY <1>2, <1>8 DEF ListInv, ListBuilt
  <2>2. ahead[run] = "none" /\ NoneAhead
    BY <2>1 DEF ListInv, Prefetched
  <2>3. call[c].item = work[pos].id /\ pos \in Reached
    BY <1>1, <1>8, <2>1, <2>2 DEF NoneAhead
  <2>4. /\ ListTypes' /\ ListBuilt' /\ FetchedOnceInOrder'
        /\ FreshAt' = FreshAt /\ pos + 1 \in Reached'
    BY <1>6, <2>1, <2>3
  <2>5. call'[run] = call[run] /\ ~Asking(0)'
    BY <1>5, <1>8 DEF Asking
  <2>6. NoneAhead'
    BY <1>1, <2>1, <2>2, <2>4, <2>5 DEF NoneAhead
  <2>7. Prefetched'
    BY <1>1, <2>2, <2>6 DEF ListInv, Prefetched
  <2> QED BY <2>4, <2>7 DEF ListInv
<1> QED BY <1>3, <1>7, <1>8

\* Another process, a cancel, or nothing: the run's own state stays.
LEMMA RunStays ==
  ASSUME FetchingInv, ListInv,
         UNCHANGED <<mode, edgar, count, run, work, lost, existing, fetched, pos, tally, ahead, call, pc>>
  PROVE  ListInv'
<1>1. /\ ListTypes' /\ ListBuilt' /\ FetchedOnceInOrder'
      /\ FreshAt' = FreshAt /\ Reached' = Reached
  <2>1. pc' \in {"fetch", "join", "inline", "ahead", "process", "store"} => pos' \in FreshAt
    BY DEF ListInv, ListBuilt
  <2>2. DOMAIN ahead' = 1 .. Runs
    BY RunIs
  <2> QED BY <2>1, <2>2, SameRun
<1>2. \A a : OneAhead(a)' <=> OneAhead(a)
  BY <1>1, Zenon DEF OneAhead, Asking
<1>3. NoneAhead' <=> NoneAhead
  BY <1>1, Zenon DEF NoneAhead, Asking
<1>4. Prefetched'
  BY <1>1, <1>2, <1>3, Zenon DEF ListInv, Prefetched
<1> QED BY <1>1, <1>4 DEF ListInv

\* The next run starts with nothing listed, fetched or ahead.
LEMMA NextRunLists ==
  ASSUME FetchingInv, ListInv, NextRun
  PROVE  ListInv'
<1> USE RunIs
<1>1. /\ UNCHANGED <<mode, edgar, count, call, ahead>>
      /\ pc = "over" /\ pc' = "build" /\ run' = run + 1 /\ run < Runs
      /\ work' = <<>> /\ pos' = 1 /\ fetched' = <<>>
      /\ tally' = [ok |-> 0, skipped |-> 0, failed |-> 0]
  BY DEF NextRun, fixed, netVars, Zero
<1>2. Len(work') = 0 /\ Len(fetched') = 0 /\ 1 .. Len(fetched') = {} /\ 1 .. Len(work') = {}
  BY <1>1
<1>3. ListTypes'
  <2>1. mode.across \in BOOLEAN /\ edgar \in Catalogue /\ count \in Nat
    BY DEF ListInv, ListTypes
  <2> QED BY <1>1, <1>2, <2>1 DEF ListTypes
<1>4. ListBuilt'
  BY <1>1, <1>2 DEF ListBuilt, NoneTwice
<1>5. run' \in Callers /\ run' \in 1 .. Runs
  BY <1>1 DEF Callers
<1>6. call'[run'].step = "off"
  BY <1>1, <1>5 DEF FetchingInv, InHand
<1>7. \A r \in 1 .. Runs : ahead'[r] = "none"
  BY <1>1 DEF ListInv, Prefetched
<1>8. Prefetched'
  BY <1>1, <1>5, <1>6, <1>7 DEF Prefetched, NoneAhead
<1>9. FetchedOnceInOrder'
  BY <1>2, Zenon DEF FetchedOnceInOrder
<1> QED BY <1>3, <1>4, <1>8, <1>9 DEF ListInv

\* The work list by the listings that failed.
ListOf == [failed \in SUBSET (1 .. Len(Forms)) |-> WorkList(failed)]
BuiltNow ==
  /\ edgar \in Catalogue /\ count \in Nat /\ run \in Nat /\ lost \subseteq AskedForms
  /\ work = ListOf[lost \cup ((1 .. Len(Forms)) \ AskedForms)]

\* Nothing of the listing changes but with EDGAR, the count and the mode.
LEMMA SameListing ==
  ASSUME UNCHANGED <<mode, edgar, count>>
  PROVE  ListOf' = ListOf
<1>1. \A form : Listed(form)' = Listed(form)
  BY DEF Listed
<1>2. \A form : Kept(form)' = Kept(form)
  BY <1>1 DEF Kept, Skipped
<1>3. \A form, n : ListAvailable(form, n)' = ListAvailable(form, n)
  BY <1>2, Zenon DEF ListAvailable
<1>4. \A failed, n : Found(failed, n)' = Found(failed, n)
  BY <1>3, Zenon DEF Found
<1>5. \A j : FormOf(j)' = FormOf(j)
  BY Zenon DEF FormOf
<1>6. \A i, j : Earlier(i, j)' <=> Earlier(i, j)
  BY <1>5, Zenon DEF Earlier
<1>7. \A i, j : Newer(i, j)' <=> Newer(i, j)
  BY <1>6, Zenon DEF Newer
<1>8. \A failed, n : PerForm(failed, n)' = PerForm(failed, n)
  BY <1>4, <1>6, Zenon DEF PerForm
<1>9. \A failed, n : AcrossForms(failed, n)' = AcrossForms(failed, n)
  BY <1>4, <1>7, Zenon DEF AcrossForms
<1>10. \A failed : WorkList(failed)' = WorkList(failed)
  BY <1>8, <1>9, Zenon DEF WorkList
<1> QED BY <1>10, Zenon DEF ListOf

LEMMA BuiltNext == BuiltNow' => (NoneTwice /\ Newest)'
<1>1. BuiltNow => NoneTwice /\ Newest
  <2> SUFFICES ASSUME BuiltNow PROVE NoneTwice /\ Newest
    OBVIOUS
  <2>1. AskedForms \subseteq 1 .. Len(Forms)
    BY AskedIs DEF BuiltNow
  <2>2. lost \cup ((1 .. Len(Forms)) \ AskedForms) \in SUBSET (1 .. Len(Forms))
    BY <2>1 DEF BuiltNow
  <2>3. work = WorkList(lost \cup ((1 .. Len(Forms)) \ AskedForms))
    BY <2>2, Zenon DEF BuiltNow, ListOf
  <2> QED BY <2>3, BuiltIs DEF BuiltNow
<1> QED BY <1>1, PTL

\* The listings, those that fail among them, and the list made of them.
LEMMA BuildLists ==
  ASSUME FetchingInv, ListInv, BuildList
  PROVE  ListInv'
<1> USE RunIs
<1>1. /\ UNCHANGED <<mode, edgar, count, run, call, ahead>>
      /\ pc = "build" /\ pc' = "next" /\ pos' = 1 /\ fetched' = <<>>
      /\ tally' = [ok |-> 0, skipped |-> 0, failed |-> 0]
      /\ lost' \subseteq AskedForms
      /\ work' = WorkList(lost' \cup ((1 .. Len(Forms)) \ AskedForms))
  BY Zenon DEF BuildList, fixed, netVars, Zero
<1>2. edgar \in Catalogue /\ count \in Nat /\ mode.across \in BOOLEAN /\ run \in Nat
  BY DEF ListInv, ListTypes
<1>3. AskedForms' = AskedForms /\ AskedForms \subseteq 1 .. Len(Forms)
  BY <1>1, <1>2, AskedIs DEF AskedForms
<1>4. NoneTwice' /\ Newest'
  <2> DEFINE failed == lost' \cup ((1 .. Len(Forms)) \ AskedForms)
  <2>1. failed \in SUBSET (1 .. Len(Forms))
    BY <1>1, <1>3
  <2>2. ListOf[failed] = WorkList(failed)
    BY <2>1, Zenon DEF ListOf
  <2>3. work' = ListOf'[lost' \cup ((1 .. Len(Forms)) \ AskedForms')]
    BY <1>1, <1>3, <2>2, SameListing, Zenon
  <2>4. BuiltNow'
    BY <1>1, <1>2, <1>3, <2>3 DEF BuiltNow
  <2> QED BY <2>4, BuiltNext
<1>5. Len(work') \in Nat /\ Len(fetched') = 0 /\ 1 .. Len(fetched') = {}
  BY <1>1, <1>4 DEF NoneTwice
<1>6. ListTypes'
  <2>1. DOMAIN ahead' = 1 .. Runs
    BY <1>1
  <2>2. pos' \in 1 .. Len(work') + 1
    BY <1>1, <1>5
  <2> QED BY <1>1, <1>2, <2>1, <2>2 DEF ListTypes
<1>7. ListBuilt'
  BY <1>1, <1>3, <1>4 DEF ListBuilt
<1>8. pos' \in Reached'
  BY <1>1, <1>5 DEF Reached
<1>9. ahead[run] = "none" /\ NoneAhead
  BY <1>1 DEF ListInv, Prefetched
<1>10. NoneAhead'
  BY <1>1, <1>8, <1>9 DEF NoneAhead
<1>11. Prefetched'
  BY <1>1, <1>9, <1>10 DEF ListInv, Prefetched
<1>12. FetchedOnceInOrder'
  BY <1>5, Zenon DEF FetchedOnceInOrder
<1> QED BY <1>6, <1>7, <1>11, <1>12 DEF ListInv

\* The invariant of a run's list holds in every reachable state.
THEOREM ListInvariant == FetchingSpec => []ListInv
<1>1. FetchingInv /\ ListInv /\ [FetchingNext]_fetchingVars => ListInv'
  <2> SUFFICES ASSUME FetchingInv, ListInv, [FetchingNext]_fetchingVars PROVE ListInv'
    OBVIOUS
  <2>1. CASE Loop
    BY <2>1, AsideLists, BuildLists, FetchHereLists, CollectedLists, StartAfterLists, EndedLists,
       CloseLists, NextRunLists DEF Loop
  <2>2. CASE Elsewhere \/ Cancel \/ UNCHANGED fetchingVars
    BY <2>2, RunStays DEF Elsewhere, Cancel, fetchingVars, fixed, netVars, loopVars
  <2>3. CASE \E c \in Callers : Network(c)
    BY <2>3, AskingLists, ReturnLists DEF Network
  <2> QED BY <2>1, <2>2, <2>3 DEF FetchingNext
<1> QED BY <1>1, ListStarts, FetchingInvariant, PTL DEF FetchingSpec

\* Asked for the newest filings, an ingest works on as many originals as there are
\* of them and leaves out none that is newer (pipeline/fetch.py:524, :607); it
\* fetches each new one once and in order, prefetched or not
\* (pipeline/prefetch.py:110), and accounts for every one.
THEOREM ListAlwaysWorkedThrough == FetchingSpec => []ListWorkedThrough
<1>1. ListInv => ListWorkedThrough
  <2> SUFFICES ASSUME ListInv PROVE ListWorkedThrough
    OBVIOUS
  <2>1. WorksOnNewest
    BY Zenon DEF ListInv, ListBuilt, Newest, WorksOnNewest
  <2>2. AllAccounted
    <3> SUFFICES ASSUME pos > Len(work) PROVE tally.ok + tally.skipped + tally.failed = Len(work)
      BY DEF AllAccounted
    <3>1. pos \in 1 .. Len(work) + 1 /\ Len(work) \in Nat
      BY DEF ListInv, ListTypes, ListBuilt, NoneTwice
    <3>2. pos = Len(work) + 1
      BY <3>1
    <3> QED BY <3>1, <3>2 DEF ListInv, ListBuilt
  <2> QED BY <2>1, <2>2 DEF ListInv, ListWorkedThrough
<1> QED BY <1>1, ListInvariant, PTL
=============================================================================
