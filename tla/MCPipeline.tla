---------------------------- MODULE MCPipeline -----------------------------
(***************************************************************************)
(* The three data paths, EDGAR's list to the filings fetched, a document   *)
(* to its chunks and a question to its citations, each on every input of a *)
(* small set, and the embedder that chunks and questions pass through,     *)
(* side by side: a behaviour takes one of them and the others stand still. *)
(***************************************************************************)
EXTENDS Chunking, Embedder, Retrieval, Fetching

CONSTANTS MaxSentences, MaxSize

VARIABLE part

Text(sizes) == [kind |-> "text", sizes |-> sizes]
Leaf(title, parts) == [title |-> title, parts |-> parts, kids |-> <<>>]

\* One section of up to MaxSentences sentences of every size, and a small tree.
FlatDocs ==
  {[roots |-> <<1>>, node |-> <<Leaf(TRUE, <<Text(s)>>)>>] :
     s \in UNION {[1 .. n -> 1 .. MaxSize] : n \in 1 .. MaxSentences}}
TreeDocs ==
  {[roots |-> <<1, 4>>,
    node |-> <<[title |-> t, parts |-> <<Text(<<1, 2>>)>>, kids |-> <<2, 3>>],
               Leaf(TRUE, <<Text(<<2, 3, 3>>), [kind |-> "table", sizes |-> <<9>>]>>),
               Leaf(FALSE, p), Leaf(TRUE, <<>>)>>] :
     t \in BOOLEAN, p \in {<<>>, <<Text(<<4, 4>>)>>}}
  \cup {[roots |-> <<1>>, node |-> <<Leaf(TRUE, <<>>)>>]}
DocsDef == FlatDocs \cup TreeDocs

C(i, ti, f, s, n, d) == [id |-> i, ticker |-> ti, filing |-> f, section |-> s,
                         tokens |-> n, dated |-> d]
CorpusDef == {C(1, "A", "f", "x", 2, TRUE), C(2, "A", "f", "y", 3, TRUE),
              C(3, "A", "g", "x", 2, FALSE), C(4, "B", "h", "x", 4, TRUE)}

Rankings == {s \in [1 .. 4 -> CorpusDef] : \A i, j \in 1 .. 4 : i # j => s[i] # s[j]}
Rerankings == {<<>>, <<C(4, "B", "h", "x", 4, TRUE), C(1, "A", "f", "x", 2, TRUE)>>}
QuestionsDef ==
  [mode : {"concise", "comparative"}, tickers : {<<>>, <<"A">>, <<"A", "B">>, <<"A", "A">>},
   window : {0, 10, 20}, system : {2}, answer : {5}, history : {0, 1}, fallback : {5},
   ranking : Rankings, rerank : {FALSE}, reranking : {<<>>}, structured : BOOLEAN]
  \cup
  [mode : {"concise"}, tickers : {<<>>, <<"A">>}, window : {20}, system : {2},
   answer : {5}, history : {0}, fallback : {5}, ranking : Rankings, rerank : {TRUE},
   reranking : Rerankings, structured : {FALSE}]

\* Two runs over what EDGAR may list of one ticker: up to three filings of two
\* forms, one of them perhaps an amendment, newest first.
Filing(i, form, am, d) == [id |-> i, form |-> form, amended |-> am, date |-> d]
MCForms == <<"10-K", "10-Q">>
MCCatalogue ==
  {<<Filing("a", "10-K", am1, 3), Filing("b", f, am2, d), Filing("c", "10-Q", FALSE, 1)>> :
     f \in {"10-K", "10-Q"}, am1 \in BOOLEAN, am2 \in BOOLEAN, d \in {1, 3}}

ChunkingIdle ==
  /\ doc = [roots |-> <<>>, node |-> <<>>] /\ stack = <<>> /\ segments = <<>>
  /\ chunks = <<>> /\ seg = 1 /\ from = 1 /\ at = 1 /\ cstage = "idle"
RetrievalIdle ==
  /\ question = [tickers |-> <<>>, mode |-> "none"]
  /\ budget = [history |-> 0, chunks |-> 0]
  /\ legs = <<>> /\ context = <<>> /\ citations = <<>> /\ rstage = "idle"
FetchingIdle ==
  /\ mode = [is |-> "api", across |-> TRUE] /\ edgar = <<>> /\ count = 1
  /\ rows = {} /\ identity = 0 /\ lock = "free"
  /\ run = 1 /\ pc = "over" /\ cancel = FALSE /\ html = "none"
  /\ work = <<>> /\ lost = {} /\ existing = {} /\ pos = 1 /\ cached = 0
  /\ call = [c \in Callers |-> Quiet] /\ ahead = [r \in 1..Runs |-> "none"]
  /\ fetched = <<>> /\ tally = Zero

PipelineInit ==
  /\ part \in {"chunking", "retrieval", "fetching", "embedder"}
  /\ EmbedderInit /\ (part # "embedder" => warm)
  /\ \/ part = "chunking" /\ CInit /\ RetrievalIdle /\ FetchingIdle
     \/ part = "retrieval" /\ RInit /\ ChunkingIdle /\ FetchingIdle
     \/ part = "fetching" /\ FetchingInit /\ ChunkingIdle /\ RetrievalIdle
     \/ part = "embedder" /\ ChunkingIdle /\ RetrievalIdle /\ FetchingIdle
PipelineNext ==
  /\ UNCHANGED part
  /\ \/ part = "chunking" /\ CNext /\ UNCHANGED <<rvars, fetchingVars, embedderVars>>
     \/ part = "retrieval" /\ RNext /\ UNCHANGED <<cvars, fetchingVars, embedderVars>>
     \/ part = "fetching" /\ FetchingNext /\ UNCHANGED <<cvars, rvars, embedderVars>>
     \/ part = "embedder" /\ EmbedderNext /\ UNCHANGED <<cvars, rvars, fetchingVars>>

\* As FetchingSpec: the loop goes on and a call to EDGAR ends. The threads that
\* embed are scheduled, a load and an encode end, and the task endpoints whose
\* sweeps try the unload go on being polled.
PipelineVars == <<part, cvars, rvars, fetchingVars, embedderVars>>
OfFetching == part = "fetching" /\ UNCHANGED <<part, cvars, rvars, embedderVars>>
OfEmbedder == part = "embedder" /\ UNCHANGED <<part, cvars, rvars, fetchingVars>>
PipelineSpec ==
  /\ PipelineInit /\ [][PipelineNext]_PipelineVars
  /\ WF_PipelineVars(Loop /\ OfFetching)
  /\ \A c \in Callers : WF_PipelineVars(Network(c) /\ OfFetching)
  /\ WF_PipelineVars(OfEmbedder /\ MaybeUnload)
  /\ \A e \in Encoders : WF_PipelineVars(OfEmbedder /\ EncoderStep(e))
=============================================================================
