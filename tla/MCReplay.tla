------------------------------ MODULE MCReplay ------------------------------
(* Small instances of Replay.                                              *)
EXTENDS Replay

CONSTANTS u1, u2, u3,       \* contexts, or conversations
          q1, q2, q3, q4    \* questions

\* u1 has two checkpoints, the first with two questions; u3 has none and is
\* missing from the contexts file.
MCPosition == (u3 :> 1) @@ (u2 :> 2) @@ (u1 :> 3)
MCMessages == (u1 :> 3) @@ (u2 :> 1) @@ (u3 :> 0)
MCSystem   == (u1 :> {0}) @@ (u2 :> {}) @@ (u3 :> {})
MCUnitOf   == (q1 :> u1) @@ (q2 :> u1) @@ (q3 :> u1) @@ (q4 :> u2)
MCEndOf    == (q1 :> 1) @@ (q2 :> 1) @@ (q3 :> 2) @@ (q4 :> 0)
MCBucket   == [u \in Units |-> u]
=============================================================================
