------------------------------ MODULE VectorMap ------------------------------
(***************************************************************************)
(* What the in-memory vector index promises to SqliteStorage: a map from   *)
(* memory ids to embeddings, each operation of which takes effect at once. *)
(***************************************************************************)
CONSTANTS Ids, Vectors, NoVector

VARIABLE map

\* Loaded from the embedding column.
Init == map \in [Ids -> Vectors \cup {NoVector}]

Put(id, v) == map' = [map EXCEPT ![id] = v]

Drop(id) == map' = [map EXCEPT ![id] = NoVector]

Next == \E id \in Ids : Drop(id) \/ \E v \in Vectors : Put(id, v)

Spec == Init /\ [][Next]_map
=============================================================================
