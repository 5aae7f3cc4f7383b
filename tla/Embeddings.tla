----------------------------- MODULE Embeddings -----------------------------
(* What SqliteStorage and its vector index are both about.                 *)

CONSTANTS
    Ids,          \* memory ids
    Vectors,      \* embeddings
    NoVector      \* embedding IS NULL; not in the index
=============================================================================
