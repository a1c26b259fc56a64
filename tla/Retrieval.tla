------------------------------- MODULE Retrieval -------------------------------
(***************************************************************************)
(* The search over an organization's chunks: what the vector store         *)
(* returns, the filters, the two rankings and their fusion, the boosts,    *)
(* the removal of near duplicates and the cut at top_k.                    *)
(*                                                                         *)
(* A hit is a record: doc, index, words (the tokens of its text), sim      *)
(* (cosine similarity), boost (the phrase, token and recency boosts) and   *)
(* bm25.  Scores are integers, in millionths.                              *)
(***************************************************************************)
EXTENDS Integers, FiniteSets, Sequences, SequencesExt

One == 1000000

SmallerOf(a, b) == IF a <= b THEN a ELSE b
LargerOf(a, b) == IF a >= b THEN a ELSE b

\* The members of S in the order that Precedes, total on S, says.
Sorted(S, Precedes(_, _)) ==
    [i \in 1 .. Cardinality(S) |-> CHOOSE x \in S : Cardinality({y \in S : Precedes(y, x)}) = i - 1]

(***************************************************************************)
(* Which chunks.                                                           *)
(***************************************************************************)
\* mutation: the scope of the plan counts only when the request selects none
DocScopeSwapped(filter, selected) ==
    [scoped |-> filter.scoped /\ selected = {}, docs |-> filter.docs]

\* A scope of no documents finds nothing; a request without a scope searches them all.
DocScope(filter, selected) ==
    [scoped |-> filter.scoped \/ selected # {},
     docs |-> IF filter.docs = {} /\ selected # {} THEN selected ELSE filter.docs]

\* `asked` is 0 when the request names no number.
EffectiveTopK(settings, asked) ==
    SmallerOf(IF asked = 0 THEN settings.retrieval_default_top_k ELSE asked, settings.retrieval_max_top_k)

FetchLimit(settings, docs) ==
    IF settings.hybrid_retrieval_enabled THEN settings.hybrid_candidate_pool_size
    ELSE IF docs # {} THEN SmallerOf(256, settings.retrieval_max_top_k * 4)
    ELSE settings.retrieval_max_top_k

InOrder(a, b) == a.doc < b.doc \/ (a.doc = b.doc /\ a.index < b.index)

\* The nearest of the organization's chunks; an empty scope is no filter here.
SemanticSearch(index, docs, limit) ==
    LET Nearer(a, b) == a.sim > b.sim \/ (a.sim = b.sim /\ InOrder(a, b))
        nearest == Sorted({h \in index : docs = {} \/ h.doc \in docs}, Nearer)
    IN  SubSeq(nearest, 1, SmallerOf(Len(nearest), LargerOf(1, SmallerOf(limit, 256))))

\* The hits of a set, in the order they are in.
OnlyOf(hits, some) == FlattenSeq([i \in DOMAIN hits |-> IF hits[i] \in some THEN <<hits[i]>> ELSE <<>>])

PassesSimilarity(hits, minimum) == OnlyOf(hits, {h \in ToSet(hits) : h.sim >= minimum})
ReadyHits(hits, ready) == OnlyOf(hits, {h \in ToSet(hits) : h.doc \in ready})

(***************************************************************************)
(* Rank and deduplicate.                                                   *)
(***************************************************************************)
\* The rank of each position, the largest score first, equal scores in order.
Rank(scores, i) ==
    1 + Cardinality({j \in DOMAIN scores : \/ scores[j] > scores[i]
                                           \/ scores[j] = scores[i] /\ j < i})

\* With hybrid retrieval the sum of the reciprocal ranks replaces the similarity.
FusedScores(settings, hits) ==
    LET dense == [i \in DOMAIN hits |-> hits[i].sim]
        sparse == [i \in DOMAIN hits |-> hits[i].bm25]
    IN  IF settings.hybrid_retrieval_enabled
        THEN [i \in DOMAIN hits |-> One \div (settings.rrf_k + Rank(dense, i))
                                    + One \div (settings.rrf_k + Rank(sparse, i))]
        ELSE dense

Composite(score, boost) == SmallerOf(One, LargerOf(0, score + boost))

\* A row of the ranking: the hit, the score it is shown with, and the one it is ranked by.
Before(a, b) ==
    \/ a.rank > b.rank
    \/ a.rank = b.rank /\ InOrder(a.hit, b.hit)

Ranked(settings, hits) ==
    LET scores == FusedScores(settings, hits)
        rows == {[hit |-> hits[i], score |-> scores[i], rank |-> Composite(scores[i], hits[i].boost)] : i \in DOMAIN hits}
    IN  Sorted(rows, Before)

NearDuplicate(v, w) ==
    \/ v = {} /\ w = {}
    \/ v # {} /\ w # {} /\ 100 * Cardinality(v \cap w) >= 88 * Cardinality(v \cup w)

\* mutation: a row is compared with the last one that was kept
KeepUnlessNearLast(kept, row) ==
    IF kept # <<>> /\ NearDuplicate(row.hit.words, Last(kept).hit.words) THEN kept ELSE Append(kept, row)

KeepUnlessNear(kept, row) ==
    IF \E i \in DOMAIN kept : NearDuplicate(row.hit.words, kept[i].hit.words) THEN kept ELSE Append(kept, row)

Deduplicated(rows) == FoldLeft(KeepUnlessNear, <<>>, rows)

\* BM25 divides by the number of different words in the texts it ranks.
RankingFails(settings, hits) ==
    settings.hybrid_retrieval_enabled /\ hits # <<>> /\ \A i \in DOMAIN hits : hits[i].words = {}

RerankDedupe(settings, hits) == Deduplicated(Ranked(settings, hits))

(***************************************************************************)
(* RetrievalService.search: what the vector store returns, what is ranked  *)
(* of it, what is answered.                                                *)
(***************************************************************************)
Fetched(settings, index, scope) ==
    IF scope.scoped /\ scope.docs = {} THEN <<>>
    ELSE LET docs == IF scope.scoped THEN scope.docs ELSE {}
         IN  SemanticSearch(index, docs, FetchLimit(settings, docs))

Candidates(settings, fetched, ready) ==
    ReadyHits(PassesSimilarity(fetched, settings.retrieval_minimum_similarity * 1000), ready)

Search(settings, candidates, asked) ==
    LET kept == RerankDedupe(settings, candidates)
    IN  SubSeq(kept, 1, SmallerOf(Len(kept), EffectiveTopK(settings, asked)))
=============================================================================
