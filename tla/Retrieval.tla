----------------------------- MODULE Retrieval -----------------------------
(***************************************************************************)
(* What a question's answer is made from: the budget of its prompt         *)
(* (rag/context.py), the retrieval legs with their rank, diversity caps    *)
(* and packing (search/retrieval.py, RAGOrchestrator._retrieve_for_plan),  *)
(* and the citations taken from the model's text (rag/citations.py).  A    *)
(* chunk is a record without its text; its similarity is its place in the  *)
(* question's ranking.                                                     *)
(***************************************************************************)
EXTENDS Integers, Sequences, FiniteSets

CONSTANTS Corpus,        \* the chunks: [id, ticker, filing, section, tokens, dated]
          TopK,          \* search.top_k
          OverFetch,     \* rerank_over_fetch_factor
          PerSection, PerFiling,  \* the diversity caps, 0 for none
          Floor,         \* the 256 tokens every slice of chunks is given
          MaxCitations,  \* _MAX_CITATIONS
          Questions      \* bound: the questions asked

ASSUME RetrievalAssumption ==
  /\ TopK \in Nat \ {0} /\ OverFetch \in Nat \ {0} /\ Floor \in Nat \ {0}
  /\ PerSection \in Nat /\ PerFiling \in Nat /\ MaxCitations \in Nat \ {0}

\* A filing is one company's.
ASSUME CorpusAssumption ==
  /\ \A c \in Corpus : c.tokens \in Nat
  /\ \A c, d \in Corpus : c.filing = d.filing => c.ticker = d.ticker

NoRepeats(s) == \A i, j \in DOMAIN s : i # j => s[i] # s[j]
Elements(s) == {s[i] : i \in DOMAIN s}

\* The vector search and the reranker name a chunk once; the numbers are counts.
ASSUME QuestionsAssumption ==
  \A q \in Questions :
    /\ q.ranking \in Seq(Corpus) /\ NoRepeats(q.ranking)
    /\ q.reranking \in Seq(Corpus) /\ NoRepeats(q.reranking)
    /\ q.tickers \in Seq(Elements(q.tickers))
    /\ {q.window, q.system, q.answer, q.history, q.fallback} \subseteq Nat

VARIABLES question,   \* plan, ranking and model window of this question
          budget,     \* BudgetAllocation
          legs,       \* retrieval legs still to run
          context,    \* the retrieved chunks, in the order of the prompt
          citations,  \* [chunk, index], in the order of the answer
          rstage      \* ask, retrieve, prompt, refused, answered

rvars == <<question, budget, legs, context, citations, rstage>>

RInit ==
  /\ question \in Questions
  /\ budget = [history |-> 0, chunks |-> 0]
  /\ legs = <<>> /\ context = <<>> /\ citations = <<>>
  /\ rstage = "ask"

-----------------------------------------------------------------------------
AtLeast(a, b) == IF a < b THEN b ELSE a

\* ContextBudget.allocate.  A window of 0 is unknown: the configured slice is used
\* as it is.  Otherwise chunks get what is left, and if nothing is left history is
\* dropped and chunks get the floor all the same.
Allocate(q) ==
  LET share(n) == IF q.history > 0 THEN q.history ELSE (n * 15) \div 100
      left == q.window - q.system - q.answer - share(q.window)
  IN IF q.window = 0
     THEN [history |-> share(q.fallback), chunks |-> q.fallback]
     ELSE IF left <= 0
     THEN [history |-> 0, chunks |-> AtLeast(q.window - q.system - q.answer, Floor)]
     ELSE [history |-> share(q.window), chunks |-> left]

FanOut(q) == q.mode = "comparative" /\ Len(q.tickers) > 1

\* The budget of one leg, and the tickers each leg filters by.
LegBudget == IF FanOut(question)
             THEN AtLeast(budget.chunks \div Len(question.tickers), Floor)
             ELSE budget.chunks
LegsOf(q) == IF FanOut(q) THEN [i \in DOMAIN q.tickers |-> {q.tickers[i]}]
             ELSE <<{q.tickers[i] : i \in DOMAIN q.tickers}>>

-----------------------------------------------------------------------------
Among(s, S) == Cardinality({i \in DOMAIN s : s[i] \in S})    \* how many of s are in S

\* The elements of s in their order, without those that come when a limit is used
\* up: of the elements of l.of, at most l.most.
Sieve(s, limits) ==
  LET open(kept, x) == \A l \in limits : x \in l.of => Among(kept, l.of) < l.most
      kept[i \in 0 .. Len(s)] ==
        IF i = 0 THEN <<>>
        ELSE IF open(kept[i - 1], s[i]) THEN Append(kept[i - 1], s[i]) ELSE kept[i - 1]
  IN kept[Len(s)]

Only(s, S) == Sieve(s, {[of |-> Elements(s) \ S, most |-> 0]})
Distinct(s) == Sieve(s, {[of |-> {x}, most |-> 1] : x \in Elements(s)})

-----------------------------------------------------------------------------
(* RetrievalService.retrieve, step by step.                                 *)

\* The vector search: the best matches under the ticker filter, more of them when
\* a reranker is bound.
Fetch(q, tickers) ==
  LET match == Only(q.ranking, {c \in Corpus : tickers = {} \/ c.ticker \in tickers})
      n == IF q.rerank THEN TopK * OverFetch ELSE TopK
  IN IF Len(match) <= n THEN match ELSE SubSeq(match, 1, n)

\* The reranker's order; chunks it omits keep their order behind the others.
Reranked(q, hits) ==
  IF ~q.rerank THEN hits
  ELSE Only(q.reranking, Elements(hits)) \o Only(hits, Corpus \ Elements(q.reranking))

InFiling(f) == {d \in Corpus : d.filing = f}
InSection(x) == {d \in Corpus : d.section = x}
Caps == {[of |-> InSection(c.section), most |-> PerSection] : c \in IF PerSection > 0 THEN Corpus ELSE {}}
        \cup {[of |-> InFiling(c.filing), most |-> PerFiling] : c \in IF PerFiling > 0 THEN Corpus ELSE {}}

\* _apply_diversity_caps: greedy in rank order.
Capped(hits) == Sieve(hits, Caps)

Cost(hits) ==
  LET upTo[n \in 0 .. Len(hits)] == IF n = 0 THEN 0 ELSE upTo[n - 1] + hits[n].tokens
  IN  upTo[Len(hits)]

\* _pack_to_budget stops at the first chunk that does not fit.
Packed(hits, limit) ==
  LET fit == {n \in 0 .. Len(hits) : \A m \in 1 .. n : Cost(SubSeq(hits, 1, m)) <= limit}
      n == CHOOSE n \in fit : \A m \in fit : m <= n
  IN IF limit <= 0 THEN hits ELSE SubSeq(hits, 1, n)

Retrieved(q, tickers, limit) ==
  LET hits == Packed(Capped(Reranked(q, Fetch(q, tickers))), limit)
  IN IF Len(hits) <= TopK THEN hits ELSE SubSeq(hits, 1, TopK)

\* The orchestrator keeps the first of equal chunks when it merges the legs.
Merged(hits, more) == hits \o Only(more, Corpus \ Elements(hits))

-----------------------------------------------------------------------------
Plan ==
  /\ rstage = "ask"
  /\ budget' = Allocate(question)
  /\ legs' = LegsOf(question)
  /\ rstage' = "retrieve"
  /\ UNCHANGED <<question, context, citations>>

RunLeg ==
  /\ rstage = "retrieve" /\ legs # <<>>
  /\ context' = Merged(context, Retrieved(question, Head(legs), LegBudget))
  /\ legs' = Tail(legs)
  /\ UNCHANGED <<question, budget, citations, rstage>>

\* Without a chunk the refusal needs no model.
Prompt ==
  /\ rstage = "retrieve" /\ legs = <<>>
  /\ rstage' = IF context = <<>> THEN "refused" ELSE "prompt"
  /\ UNCHANGED <<question, budget, legs, context, citations>>

First(s, n) == IF Len(s) <= n THEN s ELSE SubSeq(s, 1, n)

\* _build_citations: the index is the place in the list of matches; a chunk that
\* cannot be cited is left out and its index with it.
Build(matched) ==
  Only([i \in DOMAIN matched |-> [chunk |-> matched[i], index |-> i]],
       [chunk : {c \in Corpus : c.dated}, index : Nat])

\* extract_from_json_envelope: unknown ids are dropped.
FromIds(ids) ==
  LET known == Only(Distinct(ids), {c.id : c \in Elements(context)})
  IN Build(First([k \in DOMAIN known |->
                    CHOOSE c \in Elements(context) : c.id = known[k]], MaxCitations))

\* Mutant: a marker is cited as often as it is mentioned.
FromAllMarkers(marks) ==
  LET known == Only(marks, DOMAIN context)
  IN Build(First([k \in DOMAIN known |-> context[known[k]]], MaxCitations))

\* extract_from_inline_markers: [N] is the Nth chunk of the prompt.
FromMarkers(marks) ==
  LET known == Only(Distinct(marks), DOMAIN context)
  IN Build(First([k \in DOMAIN known |-> context[known[k]]], MaxCitations))

\* The model's text: an envelope with ids when the model is asked for one and
\* complies, inline markers otherwise.
Answer(marks) ==
  /\ rstage = "prompt"
  /\ \/ question.structured /\ citations' = FromIds(marks)
     \/ citations' = FromMarkers(marks)
  /\ rstage' = "answered"
  /\ UNCHANGED <<question, budget, legs, context>>

Marks == UNION {[1 .. n -> 0 .. 3] : n \in 0 .. 3}    \* bound: what a model says

RNext == Plan \/ RunLeg \/ Prompt \/ \E marks \in Marks : Answer(marks)

RSpec == RInit /\ [][RNext]_rvars

-----------------------------------------------------------------------------
Asked(q) == IF q.tickers = <<>> THEN {c.ticker : c \in Corpus}
            ELSE {q.tickers[i] : i \in DOMAIN q.tickers}

\* The prompt's chunks: each once, each of a ticker that was asked for, no more of
\* a filing than the cap, and no more tokens than every leg's slice allows.
ContextKeepsItsLimits ==
  /\ NoRepeats(context)
  /\ \A i \in DOMAIN context : context[i].ticker \in Asked(question)
  /\ PerFiling > 0 => \A f \in {c.filing : c \in Corpus} :
       Among(context, InFiling(f)) <= PerFiling
  /\ LegBudget > 0 => Cost(context) <= LegBudget * Len(LegsOf(question))

Before(s, a, b) == \E i, j \in DOMAIN s : i < j /\ s[i] = a /\ s[j] = b

\* Every citation is grounded: a chunk of this prompt, cited once, under an index
\* that grows along the list; a model cannot cite what was not retrieved.
CitationsGrounded ==
  /\ Len(citations) <= MaxCitations
  /\ \A i \in DOMAIN citations : citations[i].chunk \in Elements(context) /\ citations[i].chunk.dated
  /\ \A i, j \in DOMAIN citations : i < j =>
       citations[i].index < citations[j].index /\ citations[i].chunk # citations[j].chunk

\* No fetched chunk gives way to one that ranks below it in the same leg except to
\* a cap its own section or filing has filled.
BestFirst ==
  rstage \in {"prompt", "answered"} /\ ~FanOut(question) =>
    \A c, d \in Corpus :
      /\ Before(Reranked(question, Fetch(question, LegsOf(question)[1])), c, d)
      /\ d \in Elements(context) /\ c \notin Elements(context)
      => \/ PerSection > 0 /\ Among(context, InSection(c.section)) = PerSection
         \/ PerFiling > 0 /\ Among(context, InFiling(c.filing)) = PerFiling

\* The prompt's chunks are within every limit, and no better one was left out
\* but for a limit.
ContextSound == ContextKeepsItsLimits /\ BestFirst

(* An answer is grounded: its citations name chunks of the prompt, each    *)
(* once and under growing indexes, and the prompt's chunks are the best    *)
(* retrieved within every cap, filter and slice (rag/citations.py,         *)
(* search/retrieval.py).                                                   *)
AnswerGrounded == ContextSound /\ CitationsGrounded
=============================================================================
