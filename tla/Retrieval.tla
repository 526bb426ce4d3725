------------------------------ MODULE Retrieval ------------------------------
(***************************************************************************)
(* A query of a knowledge base: MilvusKB.aquery in knowledge/              *)
(* implementations/milvus.py with the graph search of knowledge/graphs and *)
(* the rerankers of models/rerank.py.                                      *)
(*                                                                         *)
(* Similarity, page rank and the reranking model are choices: any order of *)
(* any of the chunks they may find.  A chunk stands for its file.  What a  *)
(* query does between two awaits is one action.  Calls of Milvus run in    *)
(* threads, for which a semaphore has Slots places; a cancelled query      *)
(* leaves its thread running.                                              *)
(***************************************************************************)
EXTENDS Naturals, Sequences, FiniteSets

CONSTANTS Workers, \* queries under way
          Files,   \* files, of one chunk each
          Orphans, \* vectors whose file is gone
          TopK,    \* final_top_k
          Recall,  \* recall_top_k
          Weights, \* graph_weight
          Slots    \* MILVUS_QUERY_OFFLOAD_LIMIT

VARIABLES
  rows,    \* file: the files and chunks in PostgreSQL
  procs,   \* per query: its step, options, hits, the graph's, and the files
           \*   there when it began
  outside, \* vectors, graph: what Milvus and Neo4j hold; threads: calls of
           \*   Milvus that run, whether their query waits or not; free: the
           \*   places of the semaphore
  ghost    \* fair: every fusion kept the order both searches agree on

vars == <<rows, procs, outside, ghost>>

Idle == [at |-> "idle", graph |-> FALSE, weight |-> 0, rerank |-> "no",
         hits |-> <<>>, there |-> {}]

\* The rankings of at most n of the chunks S: each an order of some of them.
Rankings(S, n) ==
  UNION {{s \in [1..k -> S] : \A i, j \in 1..k : s[i] = s[j] => i = j} : k \in 0..n}
InSeq(s) == {s[i] : i \in DOMAIN s}
RankIn(s, c) == CHOOSE i \in DOMAIN s : s[i] = c
Cut(s, n) == SubSeq(s, 1, IF Len(s) < n THEN Len(s) ELSE n)

Init ==
  /\ rows = [file |-> Files]
  /\ procs = [w \in Workers |-> Idle]
  /\ outside = [vectors |-> Files \cup Orphans, graph |-> Files \cup Orphans,
                threads |-> 0, free |-> Slots]
  /\ ghost = [fair |-> TRUE]

At(w, at) == procs[w].at = at
Goes(w, p) == procs' = [procs EXCEPT ![w] = p]

\* The query's options, over the ones saved with the knowledge base.  Without
\* graph and reranker no more is recalled than is answered.
Query(w) ==
  /\ At(w, "idle")
  /\ \E g \in BOOLEAN, r \in {"no", "model", "unset"}, x \in Weights \cup {0} :
       (g <=> x \in Weights) /\ Goes(w, [Idle EXCEPT !.at = "slot", !.graph = g, !.rerank = r, !.weight = x,
                            !.there = rows.file])
  /\ UNCHANGED <<rows, outside, ghost>>
Recalled(w) == IF procs[w].graph \/ procs[w].rerank # "no" THEN Recall ELSE TopK

(* --- _run_milvus_query_io: a place, a thread, its end --- *)

StartThread(w) ==
  /\ At(w, "slot") /\ outside.free > 0
  /\ outside' = [outside EXCEPT !.free = @ - 1, !.threads = @ + 1]
  /\ Goes(w, [procs[w] EXCEPT !.at = "search"])
  /\ UNCHANGED <<rows, ghost>>

ThreadEnds == [outside EXCEPT !.free = @ + 1, !.threads = @ - 1]

\* shield: the thread runs on and keeps its place.
AfterCancel == outside

Cancel(w) ==
  /\ At(w, "search") /\ outside' = AfterCancel
  /\ Goes(w, Idle) /\ UNCHANGED <<rows, ghost>>

\* A thread that nobody waits for any more ends.
ThreadLeft ==
  /\ outside.threads > Cardinality({w \in Workers : At(w, "search")})
  /\ outside' = ThreadEnds
  /\ UNCHANGED <<rows, procs, ghost>>

\* The vector, keyword or hybrid search answers: hits in their order, those
\* under the threshold or outside the file filter left out.
Searched(w) ==
  /\ At(w, "search") /\ outside' = ThreadEnds
  /\ \E s \in Rankings(outside.vectors, Recalled(w)) :
       Goes(w, [procs[w] EXCEPT !.hits = s,
                 !.at = IF procs[w].graph THEN "graph" ELSE "hydrate"])
  /\ UNCHANGED <<rows, ghost>>
SearchFails(w) ==
  /\ At(w, "search") /\ outside' = ThreadEnds
  /\ Goes(w, Idle) /\ UNCHANGED <<rows, ghost>>

(* --- the graph: seeds, page rank, chunks that PostgreSQL has --- *)

\* rank_chunks_by_ppr over the subgraph of the seeds: some of its chunks.
PageRanked == Rankings(outside.graph, Recall)

\* list_by_chunk_ids: in the order of the ranks, those that are there.
ListByIds(s) == SelectSeq(s, LAMBDA c : c \in rows.file)

\* Reciprocal ranks, over the common denominator of the ranks there are.
Unit == 61 * 62 * 63 * 64
Share(s, c) == IF c \in InSeq(s) THEN Unit \div (60 + RankIn(s, c)) ELSE 0
Fusion(s, g, x, c) == Share(s, c) + x * Share(g, c)

\* Sorted by the sum, and where it is equal in the order of their arrival.
Fused(s, g, x) ==
  LET all == s \o SelectSeq(g, LAMBDA c : c \notin InSeq(s))
      before(c, d) == \/ Fusion(s, g, x, c) > Fusion(s, g, x, d)
                      \/ /\ Fusion(s, g, x, c) = Fusion(s, g, x, d)
                         /\ RankIn(all, c) < RankIn(all, d)
  IN CHOOSE t \in [DOMAIN all -> InSeq(all)] :
       \A i, j \in DOMAIN all : i < j => before(t[i], t[j])

\* What both rankings put before another, the fused one does.
Agrees(s, g, f) ==
  \A c, d \in InSeq(s) \cap InSeq(g) :
    RankIn(s, c) < RankIn(s, d) /\ RankIn(g, c) < RankIn(g, d) => RankIn(f, c) < RankIn(f, d)

\* Entities near the query and those of the hits are the seeds; a search that
\* fails or finds nothing leaves the hits alone.
GraphSearch(w) ==
  /\ At(w, "graph")
  /\ \E s \in PageRanked :
       LET g == ListByIds(s)
           f == IF g = <<>> THEN procs[w].hits ELSE Fused(procs[w].hits, g, procs[w].weight)
       IN /\ Goes(w, [procs[w] EXCEPT !.hits = f, !.graph = FALSE, !.weight = 0, !.at = "hydrate"])
          /\ ghost' = [fair |-> ghost.fair /\ Agrees(procs[w].hits, g, f)]
  /\ UNCHANGED <<rows, outside>>

(* --- sources, reranking, answer --- *)

\* _hydrate_chunk_sources: chunks whose file is gone are left out.
Live(s) == SelectSeq(s, LAMBDA c : c \in rows.file)

Hydrate(w) ==
  /\ At(w, "hydrate")
  /\ LET s == Live(procs[w].hits) IN
     Goes(w, [procs[w] EXCEPT !.hits = IF procs[w].rerank = "no" THEN Cut(s, TopK) ELSE s,
               !.at = IF procs[w].rerank = "no" \/ procs[w].hits = <<>>
                      THEN "done" ELSE procs[w].rerank])
  /\ UNCHANGED <<rows, outside, ghost>>

\* acompute_score: a score for every hit, in batches.
Reranked(s) == {t \in Rankings(InSeq(s), Len(s)) : Len(t) = Len(s)}

\* A reranker must be named; one that fails leaves the order as it is.
NoReranker(w) == At(w, "unset") /\ Goes(w, Idle) /\ UNCHANGED <<rows, outside, ghost>>
Rerank(w) ==
  /\ At(w, "model")
  /\ \E s \in Reranked(procs[w].hits) :
       Goes(w, [procs[w] EXCEPT !.hits = Cut(s, TopK), !.at = "done"])
  /\ UNCHANGED <<rows, outside, ghost>>
Answered(w) == At(w, "done") /\ Goes(w, Idle) /\ UNCHANGED <<rows, outside, ghost>>

\* A file is deleted; its vector or its graph may stay when a step failed.
FileGoes ==
  \E f \in rows.file, v, g \in BOOLEAN :
    /\ rows' = [file |-> rows.file \ {f}]
    /\ outside' = [outside EXCEPT !.vectors = IF v THEN @ \ {f} ELSE @,
                                  !.graph = IF g THEN @ \ {f} ELSE @]
    /\ UNCHANGED <<procs, ghost>>

Next ==
  \/ ThreadLeft \/ FileGoes
  \/ \E w \in Workers :
       \/ Query(w) \/ StartThread(w) \/ Cancel(w) \/ Searched(w) \/ SearchFails(w)
       \/ GraphSearch(w) \/ Hydrate(w) \/ NoReranker(w) \/ Rerank(w) \/ Answered(w)

Spec == Init /\ [][Next]_vars

-----------------------------------------------------------------------------

\* No answer has a chunk of a file that was gone when the query began,
\* whatever Milvus and Neo4j still hold; an answer has no chunk twice and is
\* as long as was asked for at most.
AnswersAreLive ==
  \A w \in Workers : At(w, "done") =>
    /\ InSeq(procs[w].hits) \subseteq procs[w].there
    /\ Len(procs[w].hits) = Cardinality(InSeq(procs[w].hits))
    /\ Len(procs[w].hits) <= TopK

\* There are never more threads than places, cancelled queries or not.
ThreadsBounded == outside.threads <= Slots

\* A chunk that both searches rank before another one stays before it.
FusionRespectsBoth == ghost.fair
=============================================================================
