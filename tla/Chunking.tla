------------------------------ MODULE Chunking ------------------------------
(***************************************************************************)
(* From the tree of a parsed filing to its chunks: FilingParser's walk     *)
(* (pipeline/parse.py) and TextChunker's cut at sentence boundaries with   *)
(* overlap (pipeline/chunk.py).  A text is the sequence of the token       *)
(* counts of its sentences, so a chunk is an interval of sentences of one  *)
(* segment: the tail carried over from the chunk before is always a suffix *)
(* of that chunk.                                                          *)
(***************************************************************************)
EXTENDS Integers, Sequences

CONSTANTS Limit,      \* token_limit
          Tolerance,  \* tolerance
          Overlap,    \* overlap_tokens
          Docs        \* documents: [roots |-> Seq(node), node |-> [id -> record]]

ASSUME ChunkingAssumption ==
  /\ Limit \in Nat \ {0} /\ Tolerance \in Nat
  /\ Overlap \in 0 .. Limit - 1       \* the constructor's "forward progress" check

\* The ids of the nodes directly above n.
ParentsIn(d, n) == {m \in DOMAIN d.node : \E i \in DOMAIN d.node[m].kids : d.node[m].kids[i] = n}

\* doc2dict nests dictionaries: a root is nobody's child, a child one node's.
ASSUME DocsAssumption ==
  \A d \in Docs :
    /\ d.roots \in Seq(DOMAIN d.node)
    /\ \A n \in DOMAIN d.node :
         /\ d.node[n].parts \in Seq([kind : {"text", "textsmall", "table"}, sizes : Seq(Nat)])
         /\ d.node[n].kids \in Seq(DOMAIN d.node)
    /\ \A i \in DOMAIN d.roots : ParentsIn(d, d.roots[i]) = {}
    /\ \A n, k, l \in DOMAIN d.node : k \in ParentsIn(d, n) /\ l \in ParentsIn(d, n) => k = l

VARIABLES doc, stack,   \* the walk: nodes to visit, each with the path above it
          segments,     \* what the walk has extracted, in order
          seg, from, at,\* the cut: segment, start of the open chunk, next sentence
          chunks, cstage

cvars == <<doc, stack, segments, seg, from, at, chunks, cstage>>

Nodes(ids, path) == [i \in DOMAIN ids |-> [node |-> ids[i], path |-> path]]

CInit ==
  /\ doc \in Docs
  /\ stack = Nodes(doc.roots, <<>>)
  /\ segments = <<>> /\ chunks = <<>>
  /\ seg = 1 /\ from = 1 /\ at = 1
  /\ cstage = "parse"

-----------------------------------------------------------------------------
(* FilingParser._extract_segments, with the recursion as a stack.           *)

\* A title that is not blank lengthens the path; text, small text and table of
\* the node come before its contents.
Visit ==
  /\ cstage = "parse" /\ stack # <<>>
  /\ LET n == doc.node[Head(stack).node]
         path == IF n.title THEN Append(Head(stack).path, Head(stack).node)
                            ELSE Head(stack).path
     IN /\ segments' = segments \o [i \in DOMAIN n.parts |->
              [node |-> Head(stack).node, path |-> path,
               kind |-> n.parts[i].kind, sizes |-> n.parts[i].sizes]]
        /\ stack' = Nodes(n.kids, path) \o Tail(stack)
  /\ UNCHANGED <<doc, seg, from, at, chunks, cstage>>

\* No segment at all is a ParseError.
EndParse ==
  /\ cstage = "parse" /\ stack = <<>>
  /\ cstage' = IF segments = <<>> THEN "failed" ELSE "cut"
  /\ UNCHANGED <<doc, stack, segments, seg, from, at, chunks>>

-----------------------------------------------------------------------------
(* TextChunker.                                                             *)

\* The tokens of the sentences i to j.
Tokens(sizes, i, j) ==
  LET upTo[k \in i - 1 .. j] == IF k = i - 1 THEN 0 ELSE upTo[k - 1] + sizes[k]
  IN  upTo[j]

Sizes == segments[seg].sizes
Open == Tokens(Sizes, from, at - 1)          \* current_tokens

\* Mutant: without a tail the next chunk starts behind the sentence that cut it.
TailLost == IF Sizes[at - 1] >= Limit THEN at + 1 ELSE at - 1

\* _tail_for_overlap of the chunk from .. at - 1: where the next chunk starts.
TailFrom ==
  LET last == at - 1
      fits == {j \in from .. last : Tokens(Sizes, j, last) <= Overlap}
  IN IF Overlap = 0 \/ Sizes[last] >= Limit THEN at
     ELSE IF fits = {} THEN last
     ELSE CHOOSE j \in fits : \A k \in fits : j <= k

ShouldFinalise ==
  /\ from < at
  /\ \/ Open + Sizes[at] > Limit + Tolerance
     \/ Open >= Limit - Tolerance /\ Open + Sizes[at] > Limit

Emit(i, j) == chunks' = Append(chunks, [seg |-> seg, from |-> i, to |-> j,
                                        tokens |-> Tokens(Sizes, i, j)])
NextSegment == seg' = seg + 1 /\ from' = 1 /\ at' = 1

Cutting == cstage = "cut" /\ seg <= Len(segments)
Whole == \/ segments[seg].kind = "table"
         \/ Tokens(Sizes, 1, Len(Sizes)) <= Limit

\* A table, and a text that fits, is one chunk.
WholeSegment ==
  /\ Cutting /\ Whole
  /\ Emit(1, Len(Sizes)) /\ NextSegment
  /\ UNCHANGED <<doc, stack, segments, cstage>>

AddSentence ==
  /\ Cutting /\ ~Whole /\ at <= Len(Sizes) /\ ~ShouldFinalise
  /\ at' = at + 1
  /\ UNCHANGED <<doc, stack, segments, seg, from, chunks, cstage>>

\* The open chunk is finished before the sentence, which joins the carried tail.
Finalise ==
  /\ Cutting /\ ~Whole /\ at <= Len(Sizes) /\ ShouldFinalise
  /\ Emit(from, at - 1)
  /\ from' = TailFrom /\ at' = at + 1
  /\ UNCHANGED <<doc, stack, segments, seg, cstage>>

Flush ==
  /\ Cutting /\ ~Whole /\ at > Len(Sizes)
  /\ Emit(from, Len(Sizes)) /\ NextSegment
  /\ UNCHANGED <<doc, stack, segments, cstage>>

EndCut ==
  /\ cstage = "cut" /\ seg > Len(segments)
  /\ cstage' = "done"
  /\ UNCHANGED <<doc, stack, segments, seg, from, at, chunks>>

CNext == Visit \/ EndParse \/ WholeSegment \/ AddSentence \/ Finalise \/ Flush \/ EndCut

CSpec == CInit /\ [][CNext]_cvars

-----------------------------------------------------------------------------
\* Nothing is lost between the parser and the embedder: within a segment the
\* chunks start at the first sentence and end at the last, each begins no later
\* than just after the one before ends, and each brings at least one sentence
\* its predecessor did not have, so overlap never stalls the cut.
SentencesKept ==
  /\ \A k \in DOMAIN chunks : LET c == chunks[k] IN
       /\ c.from = 1 \/ /\ k > 1 /\ chunks[k-1].seg = c.seg
                        /\ c.from <= chunks[k-1].to + 1
       /\ k > 1 /\ chunks[k-1].seg = c.seg => c.to > chunks[k-1].to
       /\ k < Len(chunks) /\ chunks[k+1].seg # c.seg => c.to = Len(segments[c.seg].sizes)
  /\ cstage = "done" =>
       /\ \A s \in DOMAIN segments : \E k \in DOMAIN chunks :
            chunks[k].seg = s /\ chunks[k].to = Len(segments[s].sizes)
       /\ \A k, l \in DOMAIN chunks : k < l => chunks[k].seg <= chunks[l].seg

New(k) == IF k > 1 /\ chunks[k-1].seg = chunks[k].seg THEN chunks[k-1].to + 1
                                                      ELSE chunks[k].from

\* The node and every node it is inside of: the smallest set that has n and,
\* with a node, the node above it.
Above(n) ==
  {m \in DOMAIN doc.node :
     \A S \in SUBSET DOMAIN doc.node :
       n \in S /\ (\A k \in S : ParentsIn(doc, k) \subseteq S) => m \in S}

\* A chunk goes past the band only by what it must: a table, a lone sentence, or
\* one sentence behind a carried tail; and it stops short of the band only when
\* the next sentence would have taken it past the upper edge.
CutsInBand ==
  \A k \in DOMAIN chunks :
    LET c == chunks[k] IN segments[c.seg].kind # "table" =>
      /\ c.tokens > Limit + Tolerance => New(k) = c.to
      /\ k < Len(chunks) /\ chunks[k+1].seg = c.seg /\ c.tokens < Limit - Tolerance
           => c.tokens + segments[c.seg].sizes[c.to + 1] > Limit + Tolerance

\* A segment carries the titles above it and no others: leaving a part of the
\* tree takes its title off the path again.
PathsAreAncestry ==
  \A s \in DOMAIN segments :
    {segments[s].path[i] : i \in DOMAIN segments[s].path} = {m \in Above(segments[s].node) : doc.node[m].title}

\* The chunks of a filing: nothing lost, no chunk outside the band without need,
\* and each under the titles it stands under.
ChunksFaithful == SentencesKept /\ CutsInBand /\ PathsAreAncestry
=============================================================================
