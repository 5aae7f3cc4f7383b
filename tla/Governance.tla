----------------------------- MODULE Governance -----------------------------
(***************************************************************************)
(* The consolidation tick of crates/server/src/scheduler.rs, run by the    *)
(* background scheduler and, with no lock between them, by every           *)
(* POST /v1/consolidate; it shares the memories and edges tables with the  *)
(* clients' PUT and DELETE and with the forgetting tick's archiving.       *)
(*                                                                         *)
(* A tick is a sequence of awaited storage and LLM calls.  Each action     *)
(* below is one such call with the bookkeeping up to the next await, so    *)
(* another tick or a client may act between any two of them, every storage *)
(* call may fail, and the tick may be cut off at any await (the process is *)
(* killed, or the client that posted /v1/consolidate hangs up).            *)
(*                                                                         *)
(* A storage call is atomic here, and the vector index agrees with the     *)
(* embedding column; VectorStore takes the two apart.  Contents stand for  *)
(* texts, an embedding for the content it was computed from, and an        *)
(* abstract for the content it summarises.                                 *)
(***************************************************************************)
EXTENDS Integers, Sequences, FiniteSets, TopK

CONSTANTS
    Ids,            \* memory ids
    Contents,       \* contents of memories
    Ticks,          \* executions of the tick: the scheduler's, the HTTP ones
    NoRow,          \* rows[id] when the table has no such row
    NoContent,      \* NULL in the abstract column; an embedding not fetched
    NoId,           \* absent id
    NamespaceOf,    \* the bucket a memory was written to; it never changes
    Sim,            \* Sim[c][d]: cosine of the embeddings of c and d, scaled
    Floor,          \* consolidation.adjudication_floor, same scale
    Candidates,     \* consolidation.adjudication_candidates
    BatchSize,      \* consolidation.batch_size
    Concurrency,    \* ADJUDICATION_CONCURRENCY
    MaxWrites,      \* bound: calls by clients and by the forgetting tick
    MaxTicks,       \* bound: consolidation ticks begun
    MaxAbstracts,   \* bound: memories the LLM summarises in one tick
    MaxProposals    \* bound: edges the LLM proposes in one tick

Row == [ content       : Contents,
         embedding     : Contents,
         abstract      : Contents \cup {NoContent},
         assessed      : BOOLEAN,     \* importance was written by a tick
         archived      : BOOLEAN,     \* level = -1
         pending       : BOOLEAN,     \* pending_consolidation = 1
         invalid       : BOOLEAN,     \* invalid_at IS NOT NULL
         absorbed_into : Ids \cup {NoId} ]

ASSUME GovernanceAssumption ==
    /\ NoRow \notin Row
    /\ NoContent \notin Contents
    /\ NoId \notin Ids
    /\ Sim \in [Contents -> [Contents -> Nat]]
    /\ Floor \in Nat
    /\ Candidates \in Nat /\ BatchSize \in Nat
    /\ Concurrency \in Nat \ {0}
    /\ MaxWrites \in Nat /\ MaxTicks \in Nat
    /\ MaxAbstracts \in Nat /\ MaxProposals \in Nat

VARIABLES
    rows,        \* the memories table
    issued,      \* ids handed out so far: a uuid is never used twice
    edges,       \* the edges table, pairs <<source, target>>
    pc,          \* where each tick is
    queue,       \* list_pending: the ids selected and not read yet
    pending,     \* the tick's snapshots, in the order they were listed
    abstracts,   \* report.new_abstracts not yet written
    assessments, \* report.new_importance not yet written
    proposals,   \* report.new_edges not yet written
    done,        \* consolidated_ids
    embeddings,  \* get_embeddings(pending_ids)
    verdicts,    \* gathered, by index into pending
    cursor,      \* the verdict being executed
    writes,      \* counts client and forgetting calls, up to MaxWrites
    begun        \* counts ticks begun, up to MaxTicks

store == <<rows, issued, edges>>
local == <<queue, pending, abstracts, assessments, proposals, done,
           embeddings, verdicts, cursor>>
vars  == <<store, pc, local, writes, begun>>

-----------------------------------------------------------------------------
(* The statements of crates/storage the tick and the clients execute.      *)

Present(id) == rows[id] # NoRow

\* A row as INSERT leaves it: level 2, pending, no abstract.
FreshRow(c) == [ content |-> c, embedding |-> c, abstract |-> NoContent,
                 assessed |-> FALSE, archived |-> FALSE, pending |-> TRUE,
                 invalid |-> FALSE, absorbed_into |-> NoId ]

\* Mutant of WithContent: the statement lost its content column.
WithContentLost(id, c, e) ==
    [rows EXCEPT ![id].embedding = e, ![id].pending = TRUE]

\* Mutant of WithContent: INSERT OR REPLACE, which takes a row back to its birth.
WithRowReplaced(id, c, e) ==
    [rows EXCEPT ![id] = [FreshRow(c) EXCEPT !.embedding = e]]

\* update_memory: an UPDATE by id that leaves level and invalid_at alone.
WithContent(id, c, e) ==
    [rows EXCEPT ![id].content = c, ![id].embedding = e, ![id].pending = TRUE]

\* invalidate_memory: WHERE invalid_at IS NULL, so the first one wins; no
\* affected row is not an error.
WithInvalid(id, into) ==
    IF Present(id) /\ ~rows[id].invalid
    THEN [rows EXCEPT ![id].invalid = TRUE, ![id].absorbed_into = into]
    ELSE rows

\* mark_consolidated: by id, whatever happened to the row since the listing.
WithMarked(ids) ==
    [id \in Ids |-> IF id \in ids /\ Present(id)
                    THEN [rows[id] EXCEPT !.pending = FALSE] ELSE rows[id]]

\* ON DELETE CASCADE.
EdgesWithout(id) == {e \in edges : e[1] # id /\ e[2] # id}

\* list_pending_ids, without its LIMIT.
Listed == {id \in Ids : Present(id) /\ rows[id].pending /\ ~rows[id].invalid}

\* Mutant of Searchable: without the namespace filter.
SearchableAnywhere(ns) == {id \in Ids : /\ Present(id)
                                        /\ ~rows[id].archived
                                        /\ ~rows[id].invalid}

\* fetch_rows_in_namespace.
Searchable(ns) == {id \in Ids : /\ Present(id)
                                /\ ~rows[id].archived
                                /\ ~rows[id].invalid
                                /\ NamespaceOf[id] = ns}

-----------------------------------------------------------------------------
(* Clients and the forgetting tick.                                        *)

CountWrite == writes < MaxWrites /\ writes' = writes + 1

\* POST /v1/write
Insert(id, c) ==
    /\ CountWrite
    /\ id \notin issued
    /\ issued' = issued \cup {id}
    /\ rows' = [rows EXCEPT ![id] = FreshRow(c)]
    /\ UNCHANGED <<edges, pc, local, begun>>

\* PUT /v1/memory/{id}
Put(id, c) ==
    /\ CountWrite
    /\ Present(id)
    /\ rows' = WithContent(id, c, c)
    /\ UNCHANGED <<issued, edges, pc, local, begun>>

\* DELETE /v1/memory/{id}, and the retention deletes of the forgetting tick.
Delete(id) ==
    /\ CountWrite
    /\ Present(id)
    /\ rows' = [rows EXCEPT ![id] = NoRow]
    /\ edges' = EdgesWithout(id)
    /\ UNCHANGED <<issued, pc, local, begun>>

\* update_level by a forgetting tick: it archives the row, or raises one that
\* another tick archived since this one decided.
SetLevel(id) ==
    /\ CountWrite
    /\ Present(id)
    /\ rows' = [rows EXCEPT ![id].archived = ~@]
    /\ UNCHANGED <<issued, edges, pc, local, begun>>

-----------------------------------------------------------------------------
(* The tick.                                                               *)

Snapshot == [id : Ids, content : Contents]

PendingIds(t) == {pending[t][i].id : i \in DOMAIN pending[t]}

Candidate == [id : Ids, score : Nat]

\* "Keep" stands for whatever executes nothing: ADD, NOOP, no candidate, no
\* embedding, a failed search, a failed adjudication.
Actions == {"Waiting", "Keep", "Update", "Delete"}

Verdict == [action : Actions, target : Ids \cup {NoId},
            candidates : SUBSET Candidate]

NoVerdict(action) == [action |-> action, target |-> NoId, candidates |-> {}]

Goto(t, label) == pc' = [pc EXCEPT ![t] = label]

\* The tick returns, or is cut off: its local state is gone.
Reset(t) ==
    /\ Goto(t, "idle")
    /\ queue' = [queue EXCEPT ![t] = <<>>]
    /\ pending' = [pending EXCEPT ![t] = <<>>]
    /\ abstracts' = [abstracts EXCEPT ![t] = {}]
    /\ assessments' = [assessments EXCEPT ![t] = {}]
    /\ proposals' = [proposals EXCEPT ![t] = {}]
    /\ done' = [done EXCEPT ![t] = {}]
    /\ embeddings' = [embeddings EXCEPT ![t] = [id \in Ids |-> NoContent]]
    /\ verdicts' = [verdicts EXCEPT
                        ![t] = [i \in 1..BatchSize |-> NoVerdict("Waiting")]]
    /\ cursor' = [cursor EXCEPT ![t] = 1]

\* list_pending_ids: LIMIT without ORDER BY, so any selection in any order.
\* With nothing listed the tick returns at once, which changes nothing.
ListPending(t) ==
    /\ pc[t] = "idle"
    /\ begun < MaxTicks
    /\ begun' = begun + 1
    /\ \E n \in 1..BatchSize :
        /\ n = Cardinality(Listed) \/ (n = BatchSize /\ n < Cardinality(Listed))
        /\ \E s \in [1..n -> Listed] :
            /\ \A i, j \in 1..n : s[i] = s[j] => i = j
            /\ queue' = [queue EXCEPT ![t] = s]
    /\ Goto(t, "read")
    /\ UNCHANGED <<store, pending, abstracts, assessments, proposals, done,
                   embeddings, verdicts, cursor, writes>>

\* list_pending reads the rows one by one and does not filter them again: a
\* row deleted since the selection is skipped, one invalidated is kept.
ReadPending(t) ==
    /\ pc[t] = "read"
    /\ queue[t] # <<>>
    /\ queue' = [queue EXCEPT ![t] = Tail(@)]
    /\ LET id == Head(queue[t])
       IN  pending' = [pending EXCEPT ![t] =
               IF Present(id)
               THEN Append(@, [id |-> id, content |-> rows[id].content])
               ELSE @]
    /\ UNCHANGED <<store, pc, abstracts, assessments, proposals, done,
                   embeddings, verdicts, cursor, writes, begun>>

\* The LLM answers for any part of the batch.  Unknown ids are dropped by
\* LlmConsolidator, an importance comes with an abstract, an edge joins two
\* different memories of the batch.
Consolidate(t) ==
    /\ pc[t] = "read"
    /\ queue[t] = <<>>
    /\ pending[t] # <<>>
    /\ \E abs \in SUBSET PendingIds(t) :
        /\ Cardinality(abs) <= MaxAbstracts
        /\ abstracts' = [abstracts EXCEPT ![t] = abs]
        /\ \E imp \in SUBSET abs :
            assessments' = [assessments EXCEPT ![t] = imp]
    /\ \E new \in SUBSET {e \in PendingIds(t) \X PendingIds(t) : e[1] # e[2]} :
        /\ Cardinality(new) <= MaxProposals
        /\ proposals' = [proposals EXCEPT ![t] = new]
    /\ Goto(t, "persist")
    /\ UNCHANGED <<store, queue, pending, done, embeddings, verdicts, cursor,
                   writes, begun>>

SnapshotOf(t, id) ==
    LET i == CHOOSE i \in DOMAIN pending[t] : pending[t][i].id = id
    IN  pending[t][i].content

\* update_abstract for one entry of the map: NotFound if the row is gone.
\* The outcome is FALSE when the storage call fails.
UpdateAbstract(t, id, ok) ==
    /\ pc[t] = "persist"
    /\ id \in abstracts[t]
    /\ abstracts' = [abstracts EXCEPT ![t] = @ \ {id}]
    /\ IF ok /\ Present(id)
       THEN /\ rows' = [rows EXCEPT ![id].abstract = SnapshotOf(t, id)]
            /\ done' = [done EXCEPT ![t] = @ \cup {id}]
       ELSE UNCHANGED <<rows, done>>
    /\ UNCHANGED <<issued, edges, pc, queue, pending, assessments, proposals,
                   embeddings, verdicts, cursor, writes, begun>>

\* update_importance, after every abstract, for the ids in consolidated_ids.
UpdateImportance(t, id, ok) ==
    /\ pc[t] = "persist"
    /\ abstracts[t] = {}
    /\ id \in assessments[t]
    /\ assessments' = [assessments EXCEPT ![t] = @ \ {id}]
    /\ rows' = IF ok /\ id \in done[t] /\ Present(id)
               THEN [rows EXCEPT ![id].assessed = TRUE] ELSE rows
    /\ UNCHANGED <<issued, edges, pc, queue, pending, abstracts, proposals,
                   done, embeddings, verdicts, cursor, writes, begun>>

\* insert_edge: OR IGNORE drops a duplicate; a missing endpoint violates the
\* foreign key and the call fails.
InsertEdge(t, e, ok) ==
    /\ pc[t] = "persist"
    /\ abstracts[t] = {} /\ assessments[t] = {}
    /\ e \in proposals[t]
    /\ proposals' = [proposals EXCEPT ![t] = @ \ {e}]
    /\ edges' = IF ok /\ Present(e[1]) /\ Present(e[2])
                THEN edges \cup {e} ELSE edges
    /\ UNCHANGED <<rows, issued, pc, queue, pending, abstracts, assessments,
                   done, embeddings, verdicts, cursor, writes, begun>>

\* Mutant of MarkConsolidated: marks the batch, whatever was persisted.
MarkBatch(t, ok) ==
    /\ pc[t] = "persist"
    /\ abstracts[t] = {} /\ assessments[t] = {} /\ proposals[t] = {}
    /\ rows' = IF ok THEN WithMarked(PendingIds(t)) ELSE rows
    /\ Goto(t, IF Candidates > 0 THEN "embed" ELSE "log")
    /\ UNCHANGED <<issued, edges, local, writes, begun>>

\* mark_consolidated on consolidated_ids, skipped when there is none.
MarkConsolidated(t, ok) ==
    /\ pc[t] = "persist"
    /\ abstracts[t] = {} /\ assessments[t] = {} /\ proposals[t] = {}
    /\ rows' = IF ok THEN WithMarked(done[t]) ELSE rows
    /\ Goto(t, IF Candidates > 0 THEN "embed" ELSE "log")
    /\ UNCHANGED <<issued, edges, local, writes, begun>>

\* get_embeddings: the embeddings of now, beside the contents of the listing.
\* When the call fails the map is empty and nothing is adjudicated.
GetEmbeddings(t, ok) ==
    /\ pc[t] = "embed"
    /\ embeddings' = [embeddings EXCEPT ![t] =
           [id \in Ids |-> IF ok /\ id \in PendingIds(t) /\ Present(id)
                           THEN rows[id].embedding ELSE NoContent]]
    /\ Goto(t, "gather")
    /\ UNCHANGED <<store, queue, pending, abstracts, assessments, proposals,
                   done, verdicts, cursor, writes, begun>>

\* The score of every present row for a query embedding.
Scores(c) == [id \in {x \in Ids : Present(x)} |-> Sim[c][rows[id].embedding]]

\* Mutant of Clears: the score taken for a distance.
ClearsBelow(score) == score <= Floor

\* The comparison with the floor, of the candidates and again of the verdict.
Clears(score) == score >= Floor

\* Mutant of IsCandidate: a memory is its own neighbour.
IsAnyHit(id, c, hit) == Clears(Scores(c)[hit])

\* The filter on the hits: the memory itself and whatever does not clear the
\* floor are no candidates.
IsCandidate(id, c, hit) == hit # id /\ Clears(Scores(c)[hit])

\* What the LLM may answer after parse_adjudication: an UPDATE or a DELETE
\* names a candidate or the memory itself, all else has become ADD.
Answers(id, cands) ==
    [action : {"Update", "Delete"}, target : {id} \cup {k.id : k \in cands},
     candidates : {cands}] \cup {NoVerdict("Keep")}

\* vector_search_ns, then adjudicate, for one memory of a chunk; the chunks
\* are joined one after the other, the members of a chunk in any order.
Gather(t, i, ok) ==
    /\ pc[t] = "gather"
    /\ i \in DOMAIN pending[t]
    /\ verdicts[t][i].action = "Waiting"
    /\ \A j \in DOMAIN pending[t] :
        (j - 1) \div Concurrency < (i - 1) \div Concurrency
            => verdicts[t][j].action # "Waiting"
    /\ LET id == pending[t][i].id
           c  == embeddings[t][id]
           Found(v) == verdicts' = [verdicts EXCEPT ![t][i] = v]
       IN  IF ~ok \/ c = NoContent
           THEN Found(NoVerdict("Keep"))
           ELSE \E hits \in Nearest(Searchable(NamespaceOf[id]), Candidates + 1,
                                     Scores(c)) :
                \E near \in Nearest({h \in hits : IsCandidate(id, c, h)},
                                    Candidates, Scores(c)) :
                    IF near = {}
                    THEN Found(NoVerdict("Keep"))
                    ELSE \E v \in Answers(id, {[id |-> h, score |-> Scores(c)[h]] :
                                                h \in near}) : Found(v)
    /\ UNCHANGED <<store, pc, queue, pending, abstracts, assessments, proposals,
                   done, embeddings, cursor, writes, begun>>

Gathered(t) == \A i \in DOMAIN pending[t] : verdicts[t][i].action # "Waiting"

Current(t) == verdicts[t][cursor[t]]

Adjudicated(t) == pending[t][cursor[t]]

\* The similarity recorded for the pair clears the floor.  When the memory
\* itself is to lose, its nearest candidate is the evidence.
HasEvidence(t) ==
    \E k \in Current(t).candidates :
        /\ Clears(k.score)
        /\ Current(t).target \in {k.id, Adjudicated(t).id}

\* The verdicts that write nothing: the kept ones, an UPDATE of the memory by
\* itself, and any verdict without evidence.
Idles(t) ==
    \/ Current(t).action \notin {"Update", "Delete"}
    \/ ~HasEvidence(t)
    \/ Current(t).action = "Update" /\ Current(t).target = Adjudicated(t).id

Executing(t) ==
    /\ pc[t] = "gather"
    /\ Gathered(t)
    /\ cursor[t] \in DOMAIN pending[t]

\* Mutant of Advance: a verdict that was executed is taken up again.
TakeUpAgain(t) == UNCHANGED cursor

Advance(t) == cursor' = [cursor EXCEPT ![t] = @ + 1]

\* Mutant of Skip: the loop does not move on.
SkipInPlace(t) ==
    /\ Executing(t)
    /\ Idles(t)
    /\ UNCHANGED vars

Skip(t) ==
    /\ Executing(t)
    /\ Idles(t)
    /\ Advance(t)
    /\ UNCHANGED <<store, pc, queue, pending, abstracts, assessments, proposals,
                   done, embeddings, verdicts, writes, begun>>

\* UPDATE, first half: the target takes the content of the listing and the
\* embedding fetched after it.  A target that is gone is NotFound.
Absorb(t, ok) ==
    /\ Executing(t)
    /\ ~Idles(t)
    /\ Current(t).action = "Update"
    /\ LET target == Current(t).target
           memory == Adjudicated(t)
       IN  IF ok /\ Present(target)
           THEN /\ rows' = WithContent(target, memory.content,
                                       embeddings[t][memory.id])
                /\ Goto(t, "absorbing")
                /\ UNCHANGED cursor
           ELSE Advance(t) /\ UNCHANGED <<rows, pc>>
    /\ UNCHANGED <<issued, edges, queue, pending, abstracts, assessments,
                   proposals, done, embeddings, verdicts, writes, begun>>

\* UPDATE, second half: the adjudicated row is invalidated with a pointer.
InvalidateAbsorbed(t, ok) ==
    /\ pc[t] = "absorbing"
    /\ rows' = IF ok THEN WithInvalid(Adjudicated(t).id, Current(t).target)
               ELSE rows
    /\ Advance(t)
    /\ Goto(t, "gather")
    /\ UNCHANGED <<issued, edges, queue, pending, abstracts, assessments,
                   proposals, done, embeddings, verdicts, writes, begun>>

\* DELETE.
InvalidateLoser(t, ok) ==
    /\ Executing(t)
    /\ ~Idles(t)
    /\ Current(t).action = "Delete"
    /\ rows' = IF ok THEN WithInvalid(Current(t).target, NoId) ELSE rows
    /\ Advance(t)
    /\ UNCHANGED <<issued, edges, pc, queue, pending, abstracts, assessments,
                   proposals, done, embeddings, verdicts, writes, begun>>

\* The tick returns: nothing was read, the LLM failed, or every verdict was
\* executed (or adjudication is off) and the report is logged.
Return(t) ==
    /\ \/ pc[t] = "read" /\ queue[t] = <<>>
       \/ pc[t] = "gather" /\ Gathered(t) /\ cursor[t] \notin DOMAIN pending[t]
       \/ pc[t] = "log"
    /\ Reset(t)
    /\ UNCHANGED <<store, writes, begun>>

\* The process dies, list_pending fails half way, or the future of POST
\* /v1/consolidate is dropped.
Abort(t) ==
    /\ pc[t] # "idle"
    /\ Reset(t)
    /\ UNCHANGED <<store, writes, begun>>

-----------------------------------------------------------------------------
Init ==
    /\ issued \in SUBSET Ids
    /\ \E seed \in [Ids -> Contents], consolidated \in SUBSET issued :
        rows = [id \in Ids |->
                    IF id \notin issued THEN NoRow
                    ELSE IF id \in consolidated
                    THEN [FreshRow(seed[id]) EXCEPT !.pending = FALSE,
                                                    !.abstract = seed[id]]
                    ELSE FreshRow(seed[id])]
    /\ edges = {}
    /\ pc = [t \in Ticks |-> "idle"]
    /\ queue = [t \in Ticks |-> <<>>]
    /\ pending = [t \in Ticks |-> <<>>]
    /\ abstracts = [t \in Ticks |-> {}]
    /\ assessments = [t \in Ticks |-> {}]
    /\ proposals = [t \in Ticks |-> {}]
    /\ done = [t \in Ticks |-> {}]
    /\ embeddings = [t \in Ticks |-> [id \in Ids |-> NoContent]]
    /\ verdicts = [t \in Ticks |-> [i \in 1..BatchSize |-> NoVerdict("Waiting")]]
    /\ cursor = [t \in Ticks |-> 1]
    /\ writes = 0
    /\ begun = 0

Outside ==
    \/ \E id \in Ids : Delete(id) \/ SetLevel(id)
    \/ \E id \in Ids, c \in Contents : Insert(id, c) \/ Put(id, c)

Step(t) ==
    \/ ReadPending(t)
    \/ Consolidate(t)
    \/ Skip(t)
    \/ Return(t)
    \/ \E ok \in BOOLEAN :
        \/ \E id \in Ids : UpdateAbstract(t, id, ok) \/ UpdateImportance(t, id, ok)
        \/ \E e \in proposals[t] : InsertEdge(t, e, ok)
        \/ MarkConsolidated(t, ok)
        \/ GetEmbeddings(t, ok)
        \/ \E i \in 1..BatchSize : Gather(t, i, ok)
        \/ Absorb(t, ok)
        \/ InvalidateAbsorbed(t, ok)
        \/ InvalidateLoser(t, ok)

Next == Outside \/ \E t \in Ticks : ListPending(t) \/ Step(t) \/ Abort(t)

Spec == Init /\ [][Next]_vars

\* A tick that was started is driven to its end by the runtime; nothing says
\* that ticks start, that clients call or that the process dies.
FairSpec == Spec /\ \A t \in Ticks : WF_vars(Step(t))

-----------------------------------------------------------------------------
(* Correctness.                                                            *)

Labels == {"idle", "read", "persist", "embed", "gather", "absorbing", "log"}

\* The variables keep their types.
TypeOK ==
    /\ rows \in [Ids -> Row \cup {NoRow}]
    /\ issued \in SUBSET Ids
    /\ edges \in SUBSET (Ids \X Ids)
    /\ pc \in [Ticks -> Labels]
    /\ queue \in [Ticks -> Seq(Ids)]
    /\ pending \in [Ticks -> Seq(Snapshot)]
    /\ abstracts \in [Ticks -> SUBSET Ids]
    /\ assessments \in [Ticks -> SUBSET Ids]
    /\ proposals \in [Ticks -> SUBSET (Ids \X Ids)]
    /\ done \in [Ticks -> SUBSET Ids]
    /\ embeddings \in [Ticks -> [Ids -> Contents \cup {NoContent}]]
    /\ verdicts \in [Ticks -> [1..BatchSize -> Verdict]]
    /\ cursor \in [Ticks -> Nat \ {0}]
    /\ writes \in Nat
    /\ begun \in Nat

\* "Only mark memories whose abstracts were actually persisted": whatever
\* fails and wherever a tick is cut off, a row that left the pending queue
\* carries an abstract.
ConsolidatedHasAbstract ==
    \A id \in Ids : Present(id) /\ ~rows[id].pending
                        => rows[id].abstract # NoContent

\* Importance follows the persistence contract of abstracts: no row was
\* assessed by a tick whose abstract for it did not land.
ImportanceFollowsAbstract ==
    \A id \in Ids : Present(id) /\ rows[id].assessed
                        => rows[id].abstract # NoContent

\* A tick that inserts an edge the LLM proposed long ago does not leave it
\* dangling when a client deleted an endpoint meanwhile.
EdgesHaveEndpoints == \A e \in edges : Present(e[1]) /\ Present(e[2])

\* A memory is absorbed only by a memory of its own bucket.
AbsorptionStaysInBucket ==
    \A id \in Ids : Present(id) /\ rows[id].absorbed_into # NoId
                        => NamespaceOf[rows[id].absorbed_into] = NamespaceOf[id]

\* Invalidation is idempotent: neither a second verdict, nor another tick
\* holding an old snapshot, nor a client's PUT revives an invalidated row or
\* moves its audit pointer.
FirstInvalidationWins ==
    [][\A id \in Ids :
        Present(id) /\ rows[id].invalid /\ Present(id)'
            => /\ rows'[id].invalid
               /\ rows'[id].absorbed_into = rows[id].absorbed_into]_vars

\* A hard delete is final: no tick that listed the row before writes it back.
DeletedStaysDeleted ==
    [][\A id \in issued : ~Present(id) => ~Present(id)']_vars

\* What has become of each memory.
Stage == [id \in Ids |->
            IF ~Present(id) THEN IF id \in issued THEN "deleted" ELSE "unborn"
            ELSE IF rows[id].invalid THEN "invalid"
            ELSE IF rows[id].archived THEN "archived" ELSE "live"]

Memories == INSTANCE Lifecycle WITH status <- Stage

\* No statement of a tick or a client writes back what was read before: each
\* takes at most one memory one step on its way.
KeepsLifecycle == Memories!Spec

\* The dual-signal rule: a row is invalidated only while a verdict is executed
\* that has this row on one side and, on the other, a row of the same bucket
\* whose recorded similarity clears the floor.
InvalidationHasEvidence ==
    [][\A id \in Ids :
        Present(id) /\ ~rows[id].invalid /\ Present(id)' /\ rows'[id].invalid
            => \E t \in Ticks :
                /\ cursor'[t] = cursor[t] + 1
                /\ \E k \in Current(t).candidates :
                    /\ k.score >= Floor
                    /\ NamespaceOf[k.id] = NamespaceOf[Adjudicated(t).id]
                    /\ k.id # Adjudicated(t).id
                    /\ id \in {k.id, Adjudicated(t).id}]_vars

\* An absorbed row is given up only after its content stands in its target,
\* whichever call of the pair fails or is never made.  (With no other writer:
\* a client may rewrite the target between the two calls.)
AbsorbedAfterCopied ==
    [][\A id \in Ids : \A t \in Ticks :
        Present(id) /\ Present(id)' /\ id \in PendingIds(t)
        /\ rows[id].absorbed_into = NoId /\ rows'[id].absorbed_into # NoId
            => /\ Present(rows'[id].absorbed_into)
               /\ rows[rows'[id].absorbed_into].content = SnapshotOf(t, id)]_vars

\* Verdicts execute "in pending order, exactly as a serial loop would", "so
\* two verdicts cannot race on the same target": a loop that adjudicates one
\* memory after the other is never offered an invalidated row, so it never
\* absorbs into one.
AbsorbsIntoLiveRow ==
    [][\A t \in Ticks :
        pc[t] = "gather" /\ pc'[t] = "absorbing"
            => ~rows[Current(t).target].invalid]_vars

\* "pending_consolidation clears only after the tick's adjudication ran": what
\* the evaluation harness relies on when it polls /v1/status until the count
\* of pending rows is 0.
DrainedMeansSettled ==
    Listed = {} => \A t \in Ticks : pc[t] \notin {"embed", "gather", "absorbing"}

\* An upper bound on the calls a tick still makes, its return among them: the
\* rows to read, the report to write, a search and an answer for each memory,
\* and up to two writes for each verdict.
Unanswered(t) == {i \in DOMAIN pending[t] : verdicts[t][i].action = "Waiting"}

ToAdjudicate(t) ==
    Cardinality(Unanswered(t)) + 2 * (Len(pending[t]) + 1 - cursor[t])

ToWrite(t) ==
    Cardinality(abstracts[t]) + Cardinality(assessments[t]) + Cardinality(proposals[t])

CallsLeft(t) ==
    CASE pc[t] = "idle"      -> 0
      [] pc[t] = "read"      -> Len(queue[t]) + 2 * MaxAbstracts + MaxProposals
                                    + 3 * BatchSize + 4
      [] pc[t] = "persist"   -> ToWrite(t) + 3 * BatchSize + 3
      [] pc[t] = "embed"     -> 3 * BatchSize + 2
      [] pc[t] = "gather"    -> ToAdjudicate(t) + 1
      [] pc[t] = "absorbing" -> ToAdjudicate(t)
      [] pc[t] = "log"       -> 1

TickState(t) == <<pc[t], queue[t], pending[t], abstracts[t], assessments[t], proposals[t],
                  done[t], embeddings[t], verdicts[t], cursor[t]>>

\* A tick does not go round in circles: it begins with a number of calls that
\* the sizes of batch and report bound, and whatever fails, and whatever other
\* ticks and clients do, each of its steps leaves it fewer.
CallsRunOut ==
    [][\A t \in Ticks :
        /\ pc[t] = "idle" =>
              CallsLeft(t)' <= 4 * BatchSize + 2 * MaxAbstracts + MaxProposals + 4
        /\ pc[t] # "idle" =>
              UNCHANGED TickState(t) \/ CallsLeft(t)' \in 0..(CallsLeft(t) - 1)]_vars

\* A tick that began ends, whatever the verdicts.
TickReturns == \A t \in Ticks : pc[t] # "idle" ~> pc[t] = "idle"
=============================================================================
