----------------------------- MODULE VectorIndex -----------------------------
(***************************************************************************)
(* InMemoryVectorIndex of crates/storage/src/vector_index.rs: three        *)
(* parallel arrays and a map from id to position, kept together by         *)
(* swap-removal.  Positions count from 1.  Every operation holds the write *)
(* lock from its first to its last statement, so each is one action;       *)
(* search only reads.                                                      *)
(***************************************************************************)
EXTENDS Integers, FiniteSets, Embeddings

CONSTANTS
    Norm,       \* l2_norm
    Dot,        \* the dot product of two vectors
    Scale,      \* scores are integers, Scale standing for 1.0
    MaxSize     \* bound: vectors a rebuild loads

ASSUME VectorIndexAssumption ==
    /\ NoVector \notin Vectors
    /\ Norm \in [Vectors -> Nat]
    /\ Dot \in [Vectors -> [Vectors -> Int]]
    /\ Scale \in Nat
    /\ MaxSize \in Nat

VARIABLES
    size,       \* ids.len()
    ids,
    vectors,
    norms,
    index_of    \* partial: defined on the ids present

arrays == <<size, ids, vectors, norms, index_of>>

\* Vec::remove, which the mutant of Remove uses: what is behind i moves up.
ShiftPop(array, n, i) == [j \in 1..(n - 1) |-> IF j < i THEN array[j] ELSE array[j + 1]]

\* Vec::push and Vec::pop after a swap of position i with the last one.
Push(array, n, x) == [i \in 1..(n + 1) |-> IF i = n + 1 THEN x ELSE array[i]]
SwapPop(array, n, i) == [j \in 1..(n - 1) |-> IF j = i THEN array[n] ELSE array[j]]

Loads(n) == {load \in [1..n -> [id : Ids, vector : Vectors]] :
                \A i, j \in 1..n : load[i].id = load[j].id => i = j}

\* rebuild, which SqliteStorage::new calls once on the index it has made: an
\* upsert of each pair.  The ids come from a primary key, so no two are equal
\* and every upsert is a push.
Rebuilt(n, load) ==
    /\ size = n
    /\ ids = [i \in 1..n |-> load[i].id]
    /\ vectors = [i \in 1..n |-> load[i].vector]
    /\ norms = [i \in 1..n |-> Norm[load[i].vector]]
    /\ index_of = [id \in {load[i].id : i \in 1..n} |->
                        CHOOSE i \in 1..n : load[i].id = id]

IndexInit == \E n \in 0..MaxSize : \E load \in Loads(n) : Rebuilt(n, load)

\* upsert of an id that has a position.
Replace(id, v) ==
    /\ id \in DOMAIN index_of
    /\ vectors' = [vectors EXCEPT ![index_of[id]] = v]
    /\ norms' = [norms EXCEPT ![index_of[id]] = Norm[v]]
    /\ UNCHANGED <<size, ids, index_of>>

\* upsert of a new id.
Add(id, v) ==
    /\ id \notin DOMAIN index_of
    /\ index_of' = [x \in DOMAIN index_of \cup {id} |->
                        IF x = id THEN size + 1 ELSE index_of[x]]
    /\ ids' = Push(ids, size, id)
    /\ vectors' = Push(vectors, size, v)
    /\ norms' = Push(norms, size, Norm[v])
    /\ size' = size + 1

\* index_of after the entry of id is taken out and the id that moved into its
\* position is entered there.
Reindexed(id) ==
    [x \in DOMAIN index_of \ {id} |->
        IF x = ids[size] THEN index_of[id] ELSE index_of[x]]

\* Mutant of Remove: the vectors and norms behind the gap move up.
RemoveByShift(id) ==
    /\ id \in DOMAIN index_of
    /\ index_of' = Reindexed(id)
    /\ ids' = SwapPop(ids, size, index_of[id])
    /\ vectors' = ShiftPop(vectors, size, index_of[id])
    /\ norms' = ShiftPop(norms, size, index_of[id])
    /\ size' = size - 1

Remove(id) ==
    /\ id \in DOMAIN index_of
    /\ index_of' = Reindexed(id)
    /\ ids' = SwapPop(ids, size, index_of[id])
    /\ vectors' = SwapPop(vectors, size, index_of[id])
    /\ norms' = SwapPop(norms, size, index_of[id])
    /\ size' = size - 1

IndexNext == \E id \in Ids : \/ Remove(id)
                            \/ \E v \in Vectors : Replace(id, v) \/ Add(id, v)

IndexSpec == IndexInit /\ [][IndexNext]_arrays

-----------------------------------------------------------------------------
(* search: a min-heap that holds the best `limit` positions seen so far,   *)
(* as a set: only which position leaves it matters.                        *)

\* cosine_similarity, which is given the cached norm of the stored vector.
Cosine(q, v, norm) ==
    IF Norm[q] = 0 \/ norm = 0 THEN 0
    ELSE (Scale * Dot[q][v]) \div (Norm[q] * norm)

Score(q, i) == Cosine(q, vectors[i], norms[i])

\* The order of the pairs (TotalF64(score), i).
Below(q, i, j) == \/ Score(q, i) < Score(q, j)
                  \/ Score(q, i) = Score(q, j) /\ i < j

\* Mutant of Least: a max-heap, without Reverse.
Greatest(q, heap) == CHOOSE i \in heap : \A j \in heap \ {i} : Below(q, j, i)

Least(q, heap) == CHOOSE i \in heap : \A j \in heap \ {i} : Below(q, i, j)

\* Heap[i]: the heap after the first i positions.
Heap(q, limit) ==
    LET heap[i \in 0..size] ==
            IF i = 0 THEN {}
            ELSE LET pushed == heap[i - 1] \cup {i}
                 IN  IF Cardinality(pushed) > limit
                     THEN pushed \ {Least(q, pushed)}
                     ELSE pushed
    IN  heap

\* The ids search returns, of which it sorts the scores.
SearchIndex(q, limit) ==
    IF limit = 0 THEN {} ELSE {ids[i] : i \in Heap(q, limit)[size]}

-----------------------------------------------------------------------------
\* The type of the arrays: three of the same length, and positions inside it.
IndexTypeOK ==
    /\ size \in Nat
    /\ ids \in [1..size -> Ids]
    /\ vectors \in [1..size -> Vectors]
    /\ norms \in [1..size -> Nat]
    /\ DOMAIN index_of \subseteq Ids
    /\ index_of \in [DOMAIN index_of -> 1..size]

\* The map and the arrays agree after any sequence of insertions and swaps:
\* the position of an id holds that id, every position is some id's, and the
\* cached norm is that of the vector beside it.
Consistent ==
    /\ \A id \in DOMAIN index_of : ids[index_of[id]] = id
    /\ \A i \in 1..size : ids[i] \in DOMAIN index_of /\ index_of[ids[i]] = i
    /\ \A i \in 1..size : norms[i] = Norm[vectors[i]]

\* The vector search answers with, for an id.
Held == [id \in Ids |-> IF id \in DOMAIN index_of THEN vectors[index_of[id]]
                        ELSE NoVector]

Map == INSTANCE VectorMap WITH map <- Held

\* The arrays implement the map: what an operation swaps and re-points is
\* never seen by another id.
ImplementsMap == Map!Spec

\* Each operation is the map's of the same arguments.
OperationsAreTheMaps ==
    [][\A id \in Ids :
        /\ Remove(id) => Map!Drop(id)
        /\ \A v \in Vectors : Replace(id, v) \/ Add(id, v) => Map!Put(id, v)]_arrays

\* search returns min(limit, len) different ids, and no id left out is closer
\* to the query than one returned: the bounded heap and the cached norms find
\* what sorting all the vectors would.
SearchIsTopK ==
    \A q \in Vectors, limit \in 0..(size + 1) :
        LET found == SearchIndex(q, limit)
        IN  /\ Cardinality(found) = IF limit < size THEN limit ELSE size
            /\ \A x \in found, y \in DOMAIN index_of \ found :
                Cosine(q, Held[x], Norm[Held[x]]) >= Cosine(q, Held[y], Norm[Held[y]])
=============================================================================
