-------------------------------- MODULE Fusion --------------------------------
(***************************************************************************)
(* The arithmetic of crates/core/src/search_fusion.rs: reciprocal rank     *)
(* fusion of a text and a vector ranking, the composite score, the removal *)
(* of near duplicates and the packing under a token budget.                *)
(*                                                                         *)
(* A ranking is a sequence of ids, best first; an id is a number, since    *)
(* ties go by id.  Scores are integers over one common denominator: a      *)
(* fused score is a share of FusedMax, a weight or an importance is in      *)
(* tenths, and a composite is in units of 1/(100 * FusedMax).               *)
(***************************************************************************)
EXTENDS Integers, Sequences, FiniteSets, Functions

CONSTANTS
    Ids,
    K,              \* rrf_k
    BmShare,        \* bm25_weight
    VecShare,       \* vector_weight
    SearchShare, WeightShare, ImportanceShare,   \* ScoreWeights, in tenths
    WeightOf, ImportanceOf,                      \* of a memory, in tenths
    WordsOf,        \* the words of its content
    CostOf          \* estimate_tokens of its content

ASSUME FusionAssumption ==
    /\ Ids \subseteq Nat /\ IsFiniteSet(Ids)
    /\ K \in Nat
    /\ {BmShare, VecShare, SearchShare, WeightShare, ImportanceShare} \subseteq Nat
    /\ WeightOf \in [Ids -> 0..10] /\ ImportanceOf \in [Ids -> 0..10]
    /\ DOMAIN WordsOf = Ids
    /\ CostOf \in [Ids -> Nat]

\* The elements of S in the strict total order before, a set of pairs.
Sorted(S, before) ==
    [i \in 1..Cardinality(S) |->
        CHOOSE x \in S : Cardinality({y \in S : <<y, x>> \in before}) = i - 1]

Truncate(s, n) == SubSeq(s, 1, IF n < Len(s) THEN n ELSE Len(s))

RankIn(list, id) == CHOOSE i \in DOMAIN list : list[i] = id

\* The part of a ranking that is in S, in its order.
Only(list, S) ==
    LET ids == Range(list) \cap S
    IN  Sorted(ids, {p \in ids \X ids : RankIn(list, p[1]) < RankIn(list, p[2])})

-----------------------------------------------------------------------------
(* Reciprocal rank fusion.                                                 *)

\* (K+1)(K+2)...(K+n): every K + rank of a ranking divides it.
Rising[n \in 0..Cardinality(Ids)] == IF n = 0 THEN 1 ELSE (K + n) * Rising[n - 1]

Unit == Rising[Cardinality(Ids)]

\* What a channel adds to the fused score of an id.
Share(list, weight, id) ==
    IF id \in Range(list) THEN (weight * Unit) \div (K + RankIn(list, id)) ELSE 0

\* A bug: the second channel overwrites the first.
FusedOverwritten(bm25, vector, id) ==
    IF id \in Range(vector) THEN Share(vector, VecShare, id) ELSE Share(bm25, BmShare, id)

Fused(bm25, vector, id) == Share(bm25, BmShare, id) + Share(vector, VecShare, id)

FusedMax == ((BmShare + VecShare) * Unit) \div (K + 1)

\* rrf_fuse_weighted: an id of weight 0 stays, with score 0.
RrfFuse(bm25, vector, limit) ==
    LET ids == Range(bm25) \cup Range(vector)
        score == [id \in ids |-> Fused(bm25, vector, id)]
        before == {p \in ids \X ids : \/ score[p[1]] > score[p[2]]
                                      \/ score[p[1]] = score[p[2]] /\ p[1] < p[2]}
    IN  IF BmShare + VecShare = 0 THEN <<>> ELSE Truncate(Sorted(ids, before), limit)

\* fused_score >= floor, the floor in tenths.
ClearsFloor(score, floor) == 10 * score >= floor * FusedMax

\* composite_score_with.
Composite(score, id) ==
    10 * SearchShare * score
        + FusedMax * (WeightShare * WeightOf[id] + ImportanceShare * ImportanceOf[id])

\* The stable sort of the fused ranking by composite score.
ByComposite(ranking, score, kept) ==
    LET total == [id \in kept |-> Composite(score[id], id)]
        before == {p \in kept \X kept :
                      \/ total[p[1]] > total[p[2]]
                      \/ /\ total[p[1]] = total[p[2]]
                         /\ RankIn(ranking, p[1]) < RankIn(ranking, p[2])}
    IN  Sorted(kept, before)

-----------------------------------------------------------------------------
(* Context assembly.                                                       *)

\* The Jaccard similarity of two contents is at least MMR_THRESHOLD = 0.8.
Similar(x, y) ==
    /\ WordsOf[x] # {} /\ WordsOf[y] # {}
    /\ 10 * Cardinality(WordsOf[x] \cap WordsOf[y])
         >= 8 * Cardinality(WordsOf[x] \cup WordsOf[y])

\* mmr_dedup, on hits already sorted.
Redundant(kept, x) == \E i \in DOMAIN kept : Similar(x, kept[i])

MmrDedup(hits) ==
    LET kept[n \in 0..Len(hits)] ==
            IF n = 0 THEN <<>>
            ELSE IF Redundant(kept[n - 1], hits[n]) THEN kept[n - 1]
            ELSE Append(kept[n - 1], hits[n])
    IN  kept[Len(hits)]

\* greedy_pack: an item that does not fit is dropped, a later one may fit.
PackStops(acc, x) ==  \* a bug: nothing after the first item that does not fit
    IF acc.dropped = 0 /\ CostOf[x] <= acc.remaining
    THEN [acc EXCEPT !.packed = Append(@, x), !.remaining = @ - CostOf[x]]
    ELSE [acc EXCEPT !.dropped = @ + 1]

Pack(acc, x) ==
    IF CostOf[x] <= acc.remaining
    THEN [acc EXCEPT !.packed = Append(@, x), !.remaining = @ - CostOf[x]]
    ELSE [acc EXCEPT !.dropped = @ + 1]

GreedyPack(items, budget) ==
    LET acc[n \in 0..Len(items)] ==
            IF n = 0 THEN [packed |-> <<>>, remaining |-> budget, dropped |-> 0]
                     ELSE Pack(acc[n - 1], items[n])
    IN  acc[Len(items)]
=============================================================================
