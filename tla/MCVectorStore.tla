---------------------------- MODULE MCVectorStore ----------------------------
(* Small instances of VectorStore.                                         *)
EXTENDS VectorStore, TLC

CONSTANTS u, far,        \* embeddings of different texts
          m1, m2, m3     \* memories

\* Cosines in tenths; the shipped threshold is 0.92.
MCSim == [x \in Vectors |-> [y \in Vectors |-> IF x = y THEN 10 ELSE 2]]

OneBucket == [id \in Ids |-> "default"]

\* m1 alone in a bucket, behind the vectors of the other one.
TwoBuckets == [id \in Ids |-> IF id = m1 THEN "work" ELSE "default"]

\* Memories are interchangeable within the bucket of m2 and m3.
BucketSymmetry == Permutations({m2, m3}) \cup Permutations(Callers)
=============================================================================
