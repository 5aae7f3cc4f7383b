-------------------------------- MODULE TopK --------------------------------
(* The answers a top-k search by score may give.                           *)
EXTENDS Integers, FiniteSets

\* The best k elements of S, or all of them: elements of equal score at the
\* cut are taken in an order nothing defines.
Nearest(S, k, score) ==
    {T \in SUBSET S :
        /\ Cardinality(T) = k \/ (Cardinality(T) < k /\ T = S)
        /\ \A x \in T, y \in S \ T : score[x] >= score[y]}
=============================================================================
