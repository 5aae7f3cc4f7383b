----------------------------- MODULE MCDualStore -----------------------------
(* Small instances of DualStore.                                           *)
EXTENDS DualStore

CONSTANTS u, far,        \* embeddings of different texts
          m1, m2, m3     \* memories

MCSim == [x \in Vectors |-> [y \in Vectors |-> IF x = y THEN 10 ELSE 2]]

\* m1 alone in a bucket, behind the vectors of the other one.
TwoBuckets == [id \in Ids |-> IF id = m1 THEN "work" ELSE "default"]
=============================================================================
