----------------------------- MODULE MCRetrieval -----------------------------
(* Small instances of Retrieval.                                           *)
EXTENDS Retrieval

MCIds == 1..5

\* 5 belongs to another bucket; 4 has no embedding.
MCBucket == 1..4
MCVectors == <<3, 1, 5, 2>>
MCCosine == [id \in MCIds |-> CASE id = 3 -> 9 [] id = 1 -> 7 [] id = 5 -> 6
                                [] id = 2 -> 4 [] OTHER -> 0]

MCRankings == {<<>>, <<4>>, <<1, 4>>, <<4, 2>>, <<2, 3, 4>>, <<4, 1, 2>>, <<5, 4, 3, 2, 1>>}

MCWeight == [id \in MCIds |-> IF id = 2 THEN 10 ELSE 5]
MCImportance == [id \in MCIds |-> IF id = 1 THEN 9 ELSE 5]

\* 1 and 2 are near duplicates, of 5 and 4 words.
MCWords == [id \in MCIds |-> IF id = 1 THEN 1..5 ELSE IF id = 2 THEN 1..4 ELSE {10 * id}]
MCCost == [id \in MCIds |-> IF id = 1 THEN 3 ELSE IF id = 4 THEN 1 ELSE 2]

MCTables ==
    {[id \in MCIds |-> "live"],
     [id \in MCIds |-> IF id = 2 THEN "archived" ELSE "live"],
     [id \in MCIds |-> IF id = 1 THEN "invalid" ELSE IF id = 4 THEN "unborn" ELSE "live"]}

Edge(s, t, w, k) == [source |-> s, target |-> t, weight |-> w, kind |-> k,
                     relation |-> "related"]

MCFirstEdges == {Edge(1, 2, 1, "auto"), Edge(2, 4, 2, "manual"), Edge(1, 5, 2, "auto"),
                 Edge(5, 4, 2, "auto"), Edge(3, 2, 1, "auto")}
MCNewEdges == {Edge(4, 3, 2, "auto")}

Search(op, limit, offset, threshold) ==
    [op |-> op, limit |-> limit, offset |-> offset, threshold |-> threshold,
     viable |-> TRUE, wanted |-> MCIds, boosted |-> {}, depth |-> 2, graph |-> FALSE,
     edges |-> <<>>]

MCRequests ==
    {Search("hybrid", 1, offset, 0) : offset \in {0, 2, 3}}
    \cup {[Search("hybrid", 2, 1, 0) EXCEPT !.graph = TRUE],
          [Search("hybrid", 1, 1, 0) EXCEPT !.viable = FALSE],
          [Search("hybrid", 2, 0, 5) EXCEPT !.wanted = {2, 4, 5}, !.boosted = {4}],
          [Search("fast", 1, 1, 5) EXCEPT !.boosted = {2}],
          [Search("deep", 2, 0, 2) EXCEPT !.graph = TRUE],
          [Search("deep", 1, 1, 0) EXCEPT !.depth = 1]}
    \cup {[op |-> "context", limit |-> limit, budget |-> budget, viable |-> TRUE,
           graph |-> FALSE, edges |-> <<>>] : limit \in {2, 4}, budget \in {3, 4}}
    \cup {[op |-> "graph", center |-> center, depth |-> depth, edges |-> <<>>] :
             center \in {1, 2, 4}, depth \in {1, 2}}
    \cup {[op |-> "relate", edges |-> <<e>>] :
             e \in {Edge(2, 1, 2, "manual"), Edge(1, 2, 2, "manual"), Edge(4, 4, 2, "manual")}}
    \cup {[op |-> "relate_batch",
           edges |-> <<Edge(2, 4, 1, "manual"), Edge(4, 2, 1, "manual"), Edge(3, 3, 1, "manual"),
                       Edge(1, 4, 1, "manual")>>]}
=============================================================================
