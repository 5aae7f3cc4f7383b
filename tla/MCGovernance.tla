---------------------------- MODULE MCGovernance ----------------------------
(* Small instances of Governance.                                          *)
EXTENDS Governance, TLC

CONSTANTS a, b, far,    \* contents: a and b are near duplicates
          m1, m2, m3    \* memories

\* Cosines in tenths; the shipped floor is 0.6.
MCSim == [c \in Contents |-> [d \in Contents |->
            IF c = d THEN 10 ELSE IF far \in {c, d} THEN 2 ELSE 8]]

OneBucket == [id \in Ids |-> "default"]

\* m1 alone in a bucket of its own.
TwoBuckets == [id \in Ids |-> IF id = m1 THEN "work" ELSE "default"]

\* The two memories of the other bucket are interchangeable, and so are the
\* ticks, whoever started them, and two contents that are no near duplicates.
TwoTicksSymmetry ==
    Permutations(Ids \ {m1}) \cup Permutations(Ticks) \cup Permutations(Contents)
=============================================================================
