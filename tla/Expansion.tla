------------------------------- MODULE Expansion -------------------------------
(***************************************************************************)
(* bfs_expand of crates/storage/src/sqlite_helpers.rs: the recursive query *)
(* that diffuses relevance from seeds over the edges table.                *)
(*                                                                         *)
(* An edge weight is in halves and a seed's score an integer, so that the  *)
(* score w * 0.5^d of a node at depth d is w * 4^(MaxDepth - d) in units of *)
(* 1/4^MaxDepth.                                                           *)
(***************************************************************************)
EXTENDS Integers, Sequences, FiniteSets, FiniteSetsExt, TopK

CONSTANT MaxDepth   \* MAX_BFS_DEPTH

ASSUME ExpansionAssumption == MaxDepth \in Nat \ {0}

Power4[n \in Nat] == IF n = 0 THEN 1 ELSE 4 * Power4[n - 1]

\* A bug: every edge is walked from its source only.
FollowsSource(e, from) == IF e.source = from THEN {e.target} ELSE {}

\* An automatic edge is walked both ways, a manual one from its source.
Follows(e, from) ==
    {to \in {e.source, e.target} :
        \/ e.source = from /\ to = e.target
        \/ e.kind = "auto" /\ e.target = from /\ to = e.source}

OnPath(id, path) == \E i \in DOMAIN path : path[i] = id

\* Paths of one more edge: no node twice, every hop a node passable allows.
Longer(paths, edges, passable) ==
    UNION {{[path |-> Append(p.path, to), w |-> p.w * e.weight] :
               to \in {n \in Follows(e, p.path[Len(p.path)]) :
                          n \in passable /\ ~OnPath(n, p.path)}} :
           p \in paths, e \in edges}

\* The recursive query's rows at depth d.  Seeds are records of id and score.
PathsTo(seeds, edges, passable, depth) ==
    LET at[d \in 0..depth] ==
            IF d = 0 THEN {[path |-> <<s.id>>, w |-> s.score] : s \in seeds}
                     ELSE Longer(at[d - 1], edges, passable)
    IN  at

\* The rows of the terminal SELECT, one per path.
PathRows(seeds, edges, passable, visible, depth) ==
    LET at == PathsTo(seeds, edges, passable, depth)
    IN  UNION {{[id |-> p.path[d + 1], d |-> d, w |-> p.w, path |-> p.path] :
                   p \in {q \in at[d] : q.path[d + 1] \in visible}} : d \in 1..depth}

\* ORDER BY d, w DESC.
Precedence(rows) ==
    LET bound == 1 + Max({0} \cup {r.w : r \in rows})
    IN  [r \in rows |-> r.w - r.d * bound]

\* What the rows within the LIMIT leave once every id keeps its first row.
FirstRows(taken) ==
    LET order == Precedence(taken)
    IN  {[id |-> r.id, score |-> r.w * Power4[MaxDepth - r.d]] :
            r \in {q \in taken : \A o \in taken : o.id = q.id => order[o] <= order[q]}}

\* The possible answers: rows of equal depth and weight come in any order.
BfsExpand(seeds, edges, passable, visible, depth, degreeLimit) ==
    LET rows == PathRows(seeds, edges, passable, visible, depth)
    IN  {FirstRows(taken) : taken \in Nearest(rows, degreeLimit, Precedence(rows))}
=============================================================================
