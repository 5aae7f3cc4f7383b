------------------------------ MODULE Retrieval ------------------------------
(***************************************************************************)
(* The read side of the server: GET /v1/search (hybrid, fast, deep),       *)
(* POST /v1/context and GET /v1/graph/{id}, and the edges they walk, which *)
(* relate and relate_batch insert (crates/server/src/handlers, hybrid_recall *)
(* of crates/core/src/search_fusion.rs).                                   *)
(*                                                                         *)
(* One request runs, await by await, while others write: rows are archived, *)
(* invalidated, deleted or inserted and edges are linked between any two of *)
(* its calls, and any call may fail.  The vector channel is the exact search *)
(* that VectorStore checks; the text ranking of FTS5 is external.           *)
(***************************************************************************)
EXTENDS Fusion, Expansion

CONSTANTS
    Rankings,       \* text rankings the query may have
    VectorRanking,  \* ids with an embedding, nearest first
    Cosine,         \* score of an id in the vector channel, in tenths
    Bucket,         \* the ids of the caller's namespace
    Tables,         \* bound: contents of the memories table at the start
    FirstEdges,     \* bound: edges at the start
    NewEdges,       \* bound: edges others insert meanwhile
    Requests,       \* bound: what is asked
    DegreeLimit,    \* degree_limit of an expansion
    MaxWrites,      \* bound: writes of others during the request
    MaxFailures     \* bound: failing calls

Status == {"unborn", "live", "archived", "invalid", "deleted"}

Failed == "failed"

Searches == {"hybrid", "fast", "deep"}

EdgeRow == [source : Ids, target : Ids, weight : Nat, kind : {"auto", "manual"},
            relation : STRING]

IsRanking(list) == list \in Seq(Ids) /\ IsInjective(list)

IsRequest(r) ==
    /\ r.edges \in Seq(EdgeRow)
    /\ CASE r.op \in Searches -> /\ {r.limit, r.offset, r.threshold, r.depth} \subseteq Nat
                                 /\ {r.viable, r.graph} \subseteq BOOLEAN
                                 /\ r.wanted \subseteq Ids
         [] r.op = "context" -> /\ {r.limit, r.budget} \subseteq Nat
                                /\ {r.viable, r.graph} \subseteq BOOLEAN
         [] r.op = "graph" -> r.center \in Ids /\ r.depth \in Nat
         [] r.op = "relate" -> Len(r.edges) = 1
         [] OTHER -> r.op = "relate_batch"

ASSUME RetrievalAssumption ==
    /\ \A list \in Rankings \cup {VectorRanking} : IsRanking(list)
    /\ \A r \in Requests : IsRequest(r)
    /\ FirstEdges \cup NewEdges \subseteq EdgeRow /\ IsFiniteSet(FirstEdges)
    /\ Cosine \in [Ids -> 0..10]
    /\ Bucket \subseteq Ids
    /\ Tables \subseteq [Ids -> Status]
    /\ DegreeLimit \in Nat \ {0}
    /\ MaxWrites \in Nat /\ MaxFailures \in Nat

VARIABLES
    rows, edges,    \* the tables
    accesses,       \* access_count, counted from the start of the request
    text,           \* the ids the query's phrase matches, best first
    req,            \* the request
    at,             \* where it is
    vhits, bhits,   \* the rankings the channels returned
    missing,        \* fused ids known only by name, still to be hydrated
    kept,           \* fused ids whose record is at hand
    neighbors,      \* what the expansion returned: ids and scores
    page,           \* the ids served
    digest,         \* the packing of a context
    graph,          \* the edges served, each with the times it is
    todo, existing, \* edges to relate; the ids a batch found to exist
    outcomes,       \* what became of the edges
    down,           \* history: channels that failed
    shown,          \* history: ids retrievable at some moment of the request
    quiet,          \* history: no write of others since it began
    writes, failures

tables == <<rows, edges, text>>
recall == <<vhits, bhits, missing, kept, neighbors>>
answer == <<page, digest, graph>>
relating == <<todo, existing, outcomes>>
ghosts == <<shown, quiet, writes>>
faults == <<failures, down>>
vars == <<tables, accesses, req, at, recall, answer, relating, ghosts, faults>>

Present(id) == rows[id] \notin {"unborn", "deleted"}
Live(id) == rows[id] = "live"
Retrievable == {id \in Bucket : Live(id)}

\* A call of the request succeeds or, up to the bound, fails.
Call(ok) == \/ ok /\ UNCHANGED faults
            \/ ~ok /\ failures < MaxFailures /\ failures' = failures + 1
                   /\ down' = down \cup {at}

Fusing == req.op \in {"hybrid", "context"}

-----------------------------------------------------------------------------
(* The two channels of a recall.                                           *)

Begin(r) ==
    /\ at = "idle"
    /\ req' = r
    /\ at' = CASE r.op \in Searches \cup {"context"} -> "vector"
               [] r.op = "graph"  -> "expand"
               [] r.op = "relate" -> "validate"
               [] r.op = "relate_batch" -> "exists"
    /\ todo' = r.edges
    /\ shown' = Retrievable
    /\ UNCHANGED <<tables, accesses, recall, answer, existing, outcomes, quiet,
                   writes, faults>>

\* The fused pool: headroom beyond the page for filters and offset.
PoolTwice == 2 * req.limit  \* a bug: no headroom for the offset

Pool == IF 2 * req.limit > req.offset + req.limit
        THEN 2 * req.limit ELSE req.offset + req.limit

FusionLimit == IF req.op = "hybrid" THEN Pool ELSE req.limit

Oversample == 2 * FusionLimit

VectorLimit == CASE Fusing           -> Oversample
                 [] req.op = "fast"  -> 2 * req.limit
                 [] req.op = "deep"  -> req.limit

\* vector_search_ns; only a fused recall survives its failure.
VectorSearch(ok) ==
    /\ at = "vector"
    /\ Call(ok)
    /\ vhits' = IF ok THEN Truncate(Only(VectorRanking, Retrievable), VectorLimit)
                      ELSE <<>>
    /\ at' = CASE Fusing -> IF req.viable THEN "text" ELSE "fuse"
               [] ~Fusing /\ ~ok -> Failed
               [] ok /\ req.op = "fast" -> "serve"
               [] ok /\ req.op = "deep" -> "expand"
    /\ UNCHANGED <<tables, accesses, req, bhits, missing, kept, neighbors, answer,
                   relating, ghosts>>

MatchesAny == Only(text, {id \in Ids : Present(id)})  \* a bug: no filters

\* The rows of text_search_bm25: matching, live and of the bucket.
Matches == Only(text, Retrievable)

TextSearch(ok) ==
    /\ at = "text"
    /\ Call(ok)
    /\ bhits' = IF ok THEN Truncate(Matches, Oversample) ELSE <<>>
    /\ at' = "fuse"
    /\ UNCHANGED <<tables, accesses, req, vhits, missing, kept, neighbors, answer,
                   relating, ghosts>>

Ranking == RrfFuse(bhits, vhits, FusionLimit)

\* relevance_floor gates the fused score, before hydration.
Relevant == Only(Ranking, {id \in Range(Ranking) :
                ClearsFloor(Fused(bhits, vhits, id), IF req.op = "context" THEN 0
                                                     ELSE req.threshold)})

Fuse ==
    /\ at = "fuse"
    /\ kept' = Range(Relevant) \cap Range(vhits)
    /\ missing' = Only(Relevant, Ids \ Range(vhits))
    /\ at' = "hydrate"
    /\ UNCHANGED <<tables, accesses, req, vhits, bhits, neighbors, answer, relating,
                   ghosts, faults>>

\* get_memory of a hit of the text channel alone: any row with that id.
Hydrate(ok) ==
    /\ at = "hydrate" /\ missing # <<>>
    /\ Call(ok)
    /\ missing' = Tail(missing)
    /\ kept' = IF ok /\ Present(Head(missing)) THEN kept \cup {Head(missing)} ELSE kept
    /\ UNCHANGED <<tables, accesses, req, at, vhits, bhits, neighbors, answer, relating,
                   ghosts>>

Hits == ByComposite(Ranking, [id \in Range(Ranking) |-> Fused(bhits, vhits, id)], kept)

-----------------------------------------------------------------------------
(* Diffusion.                                                              *)

\* The hops allowed in a bucket; an archived row conducts, it is not returned.
Passable == {id \in Bucket : rows[id] \in {"live", "archived"}}

Seeds == IF req.op = "graph" THEN {[id |-> req.center, score |-> 10]}
         ELSE {[id |-> id, score |-> Cosine[id]] : id \in Range(vhits)}

Neighborhoods ==
    IF Seeds = {} \/ req.depth = 0 THEN {{}}
    ELSE BfsExpand(Seeds, edges, Passable, Retrievable, req.depth, DegreeLimit)

Expand(ok) ==
    /\ at = "expand"
    /\ Call(ok)
    /\ IF ok THEN /\ \E found \in Neighborhoods : neighbors' = found
                  /\ at' = IF req.op = "deep" THEN "serve" ELSE "edges"
             ELSE at' = Failed /\ UNCHANGED neighbors
    /\ UNCHANGED <<tables, accesses, req, vhits, bhits, missing, kept, answer, relating,
                   ghosts>>

-----------------------------------------------------------------------------
(* Serving.                                                                *)

\* A direct hit reached by diffusion too keeps the higher score.
DeepScore(id) ==
    Max({Cosine[s] * Power4[MaxDepth] : s \in Range(vhits) \cap {id}}
          \cup {n.score : n \in {o \in neighbors : o.id = id}})

\* The scores of the results, and a tenth of their unit.
Results ==
    CASE req.op = "hybrid" ->
            [id \in kept |-> Composite(Fused(bhits, vhits, id), id)]
      [] req.op = "fast" -> [id \in Range(vhits) |-> Cosine[id] * Power4[MaxDepth]]
      [] req.op = "deep" ->
            [id \in Range(vhits) \cup {n.id : n \in neighbors} |-> DeepScore(id)]

Tenth == IF req.op = "hybrid" THEN 10 * FusedMax ELSE Power4[MaxDepth]

\* Filters of level, category and date keep req.wanted; a matching context
\* tag adds a tenth; hybrid recall has applied the threshold already.
Filtered ==
    LET results == Results
        boosted == [id \in DOMAIN results \cap req.wanted |->
                        results[id] + IF id \in req.boosted THEN Tenth ELSE 0]
        passing == {id \in DOMAIN boosted :
                        req.op = "hybrid" \/ boosted[id] >= req.threshold * Tenth}
    IN  [id \in passing |-> boosted[id]]

\* skip(offset).take(limit) of the results by score, ties in any order.
Pages(scores) ==
    LET ids == DOMAIN scores
    IN  UNION {{taken \ skipped : taken \in
                   {t \in Nearest(ids, req.offset + req.limit, scores) : skipped \subseteq t}} :
               skipped \in Nearest(ids, req.offset, scores)}

Serve ==
    /\ \/ at = "serve"
       \/ at = "hydrate" /\ missing = <<>> /\ req.op = "hybrid"
    /\ page' \in Pages(Filtered)
    /\ at' = "record"
    /\ UNCHANGED <<tables, accesses, req, recall, digest, graph, relating, ghosts, faults>>

Assemble ==
    /\ at = "hydrate" /\ missing = <<>> /\ req.op = "context"
    /\ digest' = GreedyPack(MmrDedup(Hits), req.budget)
    /\ page' = Range(digest'.packed)
    /\ at' = "record"
    /\ UNCHANGED <<tables, accesses, req, recall, graph, relating, ghosts, faults>>

DemandedRecall == page \cup kept \cup Range(vhits)  \* a bug: all that was retrieved

\* The ids whose demand is recorded: what is served.
Demanded == page

\* record_access is best effort.
RecordAccess(ok) ==
    /\ at = "record"
    /\ Call(ok)
    /\ accesses' = [id \in Ids |-> IF ok /\ id \in Demanded /\ Present(id)
                                   THEN accesses[id] + 1 ELSE accesses[id]]
    /\ at' = IF req.graph /\ page # {} THEN "edges" ELSE "answered"
    /\ UNCHANGED <<tables, req, recall, answer, relating, ghosts>>

NoEdges == [e \in {} |-> 0]

\* The nodes a graph is shown over.
Nodes == IF req.op = "graph" THEN {n.id : n \in neighbors} \cup {req.center} ELSE page

Between == {e \in edges : {e.source, e.target} \subseteq Nodes}

\* get_edges_batch lists an edge under each of its ends: a search serves both
\* listings, get_graph each edge once.  A failure shows no edges.
Edges(ok) ==
    /\ at = "edges"
    /\ Call(ok)
    /\ graph' = IF ok THEN [e \in Between |-> IF req.op = "graph" THEN 1 ELSE 2]
                ELSE NoEdges
    /\ page' = IF req.op = "graph" THEN {n.id : n \in neighbors} ELSE page
    /\ at' = "answered"
    /\ UNCHANGED <<tables, accesses, req, recall, digest, relating, ghosts>>

-----------------------------------------------------------------------------
(* Edges.                                                                  *)

SamePair(e, f) ==  \* a bug: one edge a pair, in whatever direction
    {e.source, e.target} = {f.source, f.target}

\* UNIQUE(source_id, target_id, relation).
SameKey(e, f) == e.source = f.source /\ e.target = f.target /\ e.relation = f.relation

\* INSERT OR IGNORE: an edge whose key is taken is dropped, not replaced.
Linked(e) == IF \E f \in edges : SameKey(e, f) THEN edges ELSE edges \cup {e}

\* The foreign keys refuse an edge with a missing endpoint.
CanLink(e) == Present(e.source) /\ Present(e.target)

\* validate_edge: two reads; 400 or 404 end the request.
Validate(ok) ==
    /\ at \in {"validate", "validate_target"}
    /\ Call(ok)
    /\ LET e  == Head(todo)
           id == IF at = "validate" THEN e.source ELSE e.target
       IN  at' = IF ok /\ e.source # e.target /\ Present(id)
                 THEN IF at = "validate" THEN "validate_target" ELSE "insert"
                 ELSE Failed
    /\ UNCHANGED <<tables, accesses, req, recall, answer, relating, ghosts>>

\* memory_exists_batch, once for all the edges; the ones it refutes fail at
\* once, in the loop that inserts the others.
Exists(ok) ==
    /\ at = "exists"
    /\ Call(ok)
    /\ at' = IF ~ok THEN Failed ELSE IF todo = <<>> THEN "answered" ELSE "insert"
    /\ existing' = IF ok THEN {id \in Ids : Present(id)} ELSE {}
    /\ UNCHANGED <<tables, accesses, req, recall, answer, todo, outcomes, ghosts>>

Valid(e) ==
    /\ e.source # e.target
    /\ req.op = "relate_batch" => {e.source, e.target} \subseteq existing

InsertEdge(ok) ==
    /\ at = "insert" /\ todo # <<>>
    /\ Call(ok)
    /\ LET e == Head(todo)
           done == ok /\ Valid(e) /\ CanLink(e)
       IN  /\ ok \/ Valid(e)
           /\ edges' = IF done THEN Linked(e) ELSE edges
           /\ outcomes' = Append(outcomes, [edge |-> e, created |-> done])
    /\ todo' = Tail(todo)
    /\ at' = IF Len(todo) = 1 THEN "answered" ELSE at
    /\ UNCHANGED <<rows, text, accesses, req, recall, answer, existing, ghosts>>

-----------------------------------------------------------------------------
(* The others.                                                             *)

Write ==
    /\ at \notin {"idle", "answered", Failed}
    /\ writes < MaxWrites
    /\ writes' = writes + 1
    /\ quiet' = FALSE
    /\ UNCHANGED <<accesses, text, req, at, recall, answer, relating, faults>>

\* What the ticks and the clients may make of a memory.
Memories == INSTANCE Lifecycle WITH status <- rows

\* An insert, an invalidation, a change of level.
SetStatus(id, s) ==
    /\ Write
    /\ s \in Memories!After(rows[id])
    /\ rows' = [rows EXCEPT ![id] = s]
    /\ shown' = shown \cup (IF s = "live" THEN {id} \cap Bucket ELSE {})
    /\ UNCHANGED edges

\* The edges of a deleted memory go with it.
Delete(id) ==
    /\ Write
    /\ Present(id)
    /\ rows' = [rows EXCEPT ![id] = "deleted"]
    /\ edges' = {e \in edges : id \notin {e.source, e.target}}
    /\ UNCHANGED shown

Link(e) ==
    /\ Write
    /\ CanLink(e)
    /\ edges' = Linked(e)
    /\ UNCHANGED <<rows, shown>>

-----------------------------------------------------------------------------
Init ==
    /\ rows \in Tables
    /\ edges = {e \in FirstEdges : CanLink(e)}
    /\ text \in Rankings
    /\ accesses = [id \in Ids |-> 0]
    /\ req = [op |-> "none"] /\ at = "idle"
    /\ vhits = <<>> /\ bhits = <<>> /\ missing = <<>> /\ kept = {} /\ neighbors = {}
    /\ page = {} /\ digest = GreedyPack(<<>>, 0) /\ graph = NoEdges
    /\ todo = <<>> /\ existing = {} /\ outcomes = <<>>
    /\ down = {} /\ shown = {} /\ quiet = TRUE /\ writes = 0 /\ failures = 0

Step ==
    \/ \E r \in Requests : Begin(r)
    \/ \E ok \in BOOLEAN :
        \/ VectorSearch(ok) \/ TextSearch(ok) \/ Hydrate(ok)
        \/ Expand(ok) \/ RecordAccess(ok) \/ Edges(ok)
        \/ Validate(ok) \/ Exists(ok) \/ InsertEdge(ok)
    \/ Fuse \/ Serve \/ Assemble

Others ==
    \/ \E id \in Ids : Delete(id) \/ \E s \in Status : SetStatus(id, s)
    \/ \E e \in NewEdges : Link(e)

Next == Step \/ Others

Spec == Init /\ [][Next]_vars
-----------------------------------------------------------------------------
(* Properties.                                                             *)

\* Types.  A page is never longer than its limit, a fused pool than its own.
TypeOK ==
    /\ rows \in [Ids -> Status]
    /\ accesses \in [Ids -> Nat]
    /\ kept \subseteq Ids /\ existing \subseteq Ids
    /\ Range(vhits) \cup Range(bhits) \cup Range(missing) \subseteq Ids
    /\ {n.id : n \in neighbors} \subseteq Ids
    /\ at \notin {"idle", Failed} /\ req.op \in Searches =>
            /\ page \subseteq Ids /\ Cardinality(page) <= req.limit
            /\ Cardinality(kept) + Len(missing) <= Pool
    /\ DOMAIN graph \subseteq edges \cup FirstEdges \cup NewEdges
    /\ shown \subseteq Bucket

\* Whatever a request discloses, as a result, a neighbour or an endpoint of an
\* edge, was a live memory of the caller's bucket at some moment of the request:
\* hydration reads by id alone and the edges are read after the page is made.
ServedWasRetrievable ==
    \A id \in page \cup UNION {{e.source, e.target} : e \in DOMAIN graph} :
        id \in shown \/ (req.op = "graph" /\ id = req.center)

\* The candidates a quiet fused recall can find through the channels that answered.
Candidates ==
    {id \in Retrievable :
        \/ id \in Range(VectorRanking) /\ "vector" \notin down
        \/ id \in Range(text) /\ req.viable /\ "text" \notin down}

\* A hybrid search without filters fills every page, also one far down the
\* list and also when a channel is down: the pool has headroom for the offset.
PageFull ==
    /\ req.op = "hybrid" /\ at \in {"record", "edges", "answered"}
    /\ quiet /\ "hydrate" \notin down
    /\ BmShare + VecShare > 0
    /\ req.wanted = Ids /\ req.threshold = 0
    => Cardinality(page) =
        CHOOSE n \in 0..req.limit :
            \/ req.offset + n = Cardinality(Candidates) /\ n <= req.limit
            \/ n = req.limit /\ req.offset + n < Cardinality(Candidates)
            \/ n = 0 /\ req.offset >= Cardinality(Candidates)

\* Retrieval is pure: the demand signal counts the memories served, each once,
\* and nothing the request only looked at (CHANGELOG.md:45).
DemandIsServed ==
    LET recorded == /\ at \in {"edges", "answered"} /\ "record" \notin down
                    /\ req.op # "graph"
    IN  \A id \in Ids : \/ accesses[id] = IF recorded /\ id \in page THEN 1 ELSE 0
                        \/ accesses[id] = 0 /\ rows[id] = "deleted"

\* With channels of equal weight a memory of both channels, down to rank K + 1
\* in each, precedes every memory of a single one.
DualChannelWins ==
    at = "hydrate" /\ BmShare = VecShare =>
        \A a \in Range(bhits) \cap Range(vhits), b \in Range(bhits) \cup Range(vhits) :
            /\ RankIn(bhits, a) <= K + 1 /\ RankIn(vhits, a) <= K + 1
            /\ b \notin Range(bhits) \cap Range(vhits)
            => \A i, j \in DOMAIN Ranking : Ranking[i] = a /\ Ranking[j] = b => i < j

\* What the memories of a digest cost together.
Spent(packed) ==
    LET sum[n \in 0..Len(packed)] ==
            IF n = 0 THEN 0 ELSE sum[n - 1] + CostOf[packed[n]]
    IN  sum[Len(packed)]

\* A digest keeps to its budget; no two of its memories are near duplicates;
\* a hit is left out only for want of room or for a near duplicate that ranks
\* at least as high.
DigestSound ==
    req.op = "context" /\ at \in {"record", "answered"} =>
        LET packed == digest.packed
            score(id) == Composite(Fused(bhits, vhits, id), id)
        IN  /\ digest.remaining >= 0
            /\ digest.remaining + Spent(packed)
                   = req.budget
            /\ \A i, j \in DOMAIN packed : i # j => ~Similar(packed[i], packed[j])
            /\ \A id \in kept \ Range(packed) :
                  \/ CostOf[id] > digest.remaining
                  \/ \E better \in kept \ {id} :
                        Similar(id, better) /\ score(better) >= score(id)

\* The nodes within n hops of id, by the relation and not by the paths.
Within(id, n) ==
    LET hop(S) == {to \in Passable :
                     \E e \in edges :
                        \/ e.source \in S /\ e.target = to
                        \/ e.kind = "auto" /\ e.target \in S /\ e.source = to}
        ball[k \in 0..n] == IF k = 0 THEN {id} ELSE ball[k - 1] \cup hop(ball[k - 1])
    IN  ball[n]

\* In a quiet graph an expansion returns what some other seed reaches within
\* the depth; the LIMIT leaves nodes out only when there are more paths than it
\* admits, and then none that is nearer than one it keeps.
ExpansionIsReach ==
    quiet /\ req.op \in {"deep", "graph"} /\ at \in {"serve", "edges"} =>
        LET found == {n.id : n \in neighbors}
            reached(d) == {id \in Retrievable :
                              \E s \in Seeds : s.id # id /\ id \in Within(s.id, d)}
        IN  /\ found \subseteq reached(req.depth)
            /\ \/ found = reached(req.depth)
               \/ /\ Cardinality(PathRows(Seeds, edges, Passable, Retrievable, req.depth))
                          > DegreeLimit
                  /\ \A d \in 1..req.depth :
                        reached(d) \subseteq found \/ found \subseteq reached(d)

\* Every edge of a request is answered once, in order; one reported created is
\* there, under its own source, target and relation, until an endpoint goes;
\* one refused is a self-edge, met a failure, or lacked an endpoint: a batch
\* did not find it, or it was there when the request was checked and went.
RelateAccounts ==
    /\ at = "answered" /\ req.op \in {"relate", "relate_batch"} =>
        /\ [i \in DOMAIN outcomes |-> outcomes[i].edge] = req.edges
    /\ \A i \in DOMAIN outcomes :
        LET e == outcomes[i].edge
        IN  IF outcomes[i].created
            THEN \/ {rows[e.source], rows[e.target]} \cap {"deleted"} # {}
                 \/ \E f \in edges : /\ f.source = e.source /\ f.target = e.target
                                     /\ f.relation = e.relation
            ELSE \/ e.source = e.target \/ "insert" \in down
                 \/ {rows[e.source], rows[e.target]} \cap {"deleted"} # {}
                 \/ /\ req.op = "relate_batch"
                    /\ ~({e.source, e.target} \subseteq existing)
=============================================================================
