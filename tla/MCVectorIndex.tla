---------------------------- MODULE MCVectorIndex ----------------------------
(* A small instance of VectorIndex: vectors of the plane whose norms are   *)
(* whole numbers, the zero vector among them.                              *)
EXTENDS VectorIndex, TLC

MCVectors == {<<1, 0>>, <<3, 4>>, <<0, 0>>, <<-2, 0>>}

MCNorm == [v \in MCVectors |-> CHOOSE n \in 0..5 : n * n = v[1] * v[1] + v[2] * v[2]]

MCDot == [v \in MCVectors |-> [w \in MCVectors |-> v[1] * w[1] + v[2] * w[2]]]

Symmetry == Permutations(Ids)
=============================================================================
