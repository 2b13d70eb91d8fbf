------------------------------- MODULE Retrieval -------------------------------
(***************************************************************************)
(* How the retrieval pipeline turns an index into the context of a prompt  *)
(* (services/ai/rag/pipeline.py on libs/common/es.py): the k nearest       *)
(* neighbours by cosine similarity, re-ranked with a small lexical bonus,  *)
(* cut to top_k.  A row is [id, knn, lexical], both scores in hundredths.  *)
(***************************************************************************)
EXTENDS Integers, FiniteSets

\* knn_search: at most k rows, and none nearer is left out; which of several equally
\* near rows are among them is the store's choice.
KnnSearch(rows, k) ==
  {S \in SUBSET rows :
     /\ Cardinality(S) = IF k < Cardinality(rows) THEN k ELSE Cardinality(rows)
     /\ \A a \in S, b \in rows \ S : a.knn >= b.knn}

\* In ten-thousandths: the similarity plus 0.04 times the lexical score.
RankingScore(row) == 100 * row.knn + 4 * row.lexical

\* rerank_retrieved_chunks: the sort key is (-ranking, -knn, -lexical, chunk_id).
Before(a, b) ==
  LET key(r) == <<-RankingScore(r), -r.knn, -r.lexical, r.id>>
  IN  \E i \in 1..4 : key(a)[i] < key(b)[i] /\ \A j \in 1..(i - 1) : key(a)[j] = key(b)[j]

\* The rows of S in the order of that key, whose last part tells any two rows apart.
Ranked(S) == {s \in [1..Cardinality(S) -> S] : \A i, j \in DOMAIN s : i < j => Before(s[i], s[j])}

\* RAGPipeline.retrieve_chunks: what may come back, best first.
RetrieveChunks(rows, topK, candidateK) ==
  LET cut(s) == [i \in {j \in DOMAIN s : j <= topK} |-> s[i]]
      found == KnnSearch(rows, IF candidateK > topK THEN candidateK ELSE topK)
  IN  {cut(s) : s \in UNION {Ranked(S) : S \in found}}
=============================================================================
