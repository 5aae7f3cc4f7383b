----------------------------- MODULE VectorStore -----------------------------
(***************************************************************************)
(* SqliteStorage of crates/storage/src/sqlite.rs: the memories table beside *)
(* the in-memory vector index, which the operations keep in step without a *)
(* transaction over both.  An operation commits its statement on a blocking *)
(* thread and then, after an await, corrects the index; search reads the   *)
(* index and then, after an await, the rows.                               *)
(*                                                                         *)
(* Callers are requests and ticks.  A request whose client hangs up is     *)
(* dropped at an await: its statement, already on the blocking pool, still *)
(* commits, the rest of the operation never runs.  The index is the map    *)
(* VectorIndex implements.                                                 *)
(***************************************************************************)
EXTENDS Integers, FiniteSets, TopK, Embeddings

CONSTANTS
    Callers,      \* requests and ticks in flight at one time
    Operations,   \* bound: what the callers of an instance do
    NoRow,
    NoId,
    NamespaceOf,  \* the bucket the row of an id is written to
    Sim,          \* cosine of two embeddings, scaled
    Threshold,    \* write.dedup_threshold, same scale
    Limit,        \* rows a search is asked for
    MaxOps        \* bound: operations begun

Namespaces == {NamespaceOf[id] : id \in Ids}

AllOperations == {"insert", "dedup", "update", "delete", "purge", "search"}

\* A row is served while it is "live"; "hidden" is archived or invalidated,
\* "expired" hidden for longer than the retention of a forgetting tick.
Row == [vector : Vectors \cup {NoVector}, status : {"live", "hidden", "expired"}]

ASSUME VectorStoreAssumption ==
    /\ IsFiniteSet(Ids)
    /\ NoRow \notin Row
    /\ NoVector \notin Vectors
    /\ NoId \notin Ids
    /\ Sim \in [Vectors -> [Vectors -> Int]]
    /\ Threshold \in Int
    /\ Limit \in Nat \ {0}
    /\ MaxOps \in Nat
    /\ Operations \subseteq AllOperations

VARIABLES
    rows,       \* the memories table
    issued,     \* ids taken: a uuid is never used twice
    index,      \* the vector index
    at,         \* where each caller is
    arg,        \* the id a caller works on
    vec,        \* the embedding a caller carries
    bucket,     \* the namespace a search is restricted to
    fetch,      \* how deep a search probes
    hits,       \* what the probe returned, then what is left of it in the rows
    exhausted,  \* the probe returned less than it asked for
    victims,    \* ids a purge selected and has not removed from the index
    began,      \* counts operations, up to MaxOps
    raced,      \* history: ids whose index entry two operations contended for
    undisturbed \* history: callers that saw no change since their last probe

db     == <<rows, issued>>
probe  == <<bucket, fetch, hits, exhausted>>
local  == <<arg, vec, probe, victims>>
vars   == <<db, index, at, local, began, raced, undisturbed>>

Present(id) == rows[id] # NoRow
Live(id) == Present(id) /\ rows[id].status = "live"

\* An operation begun while idle, up to the bound of the instance.
Begin(p, op) ==
    /\ op \in Operations
    /\ at[p] = "idle"
    /\ began < MaxOps
    /\ began' = began + 1

Goto(p, label) == at' = [at EXCEPT ![p] = label]

\* The operation is over, returned or dropped: its locals are gone.
Finish(p) ==
    /\ Goto(p, "idle")
    /\ arg' = [arg EXCEPT ![p] = NoId]
    /\ vec' = [vec EXCEPT ![p] = NoVector]
    /\ bucket' = [bucket EXCEPT ![p] = NoId]
    /\ fetch' = [fetch EXCEPT ![p] = 0]
    /\ hits' = [hits EXCEPT ![p] = {}]
    /\ exhausted' = [exhausted EXCEPT ![p] = FALSE]

\* p still owes the index a correction for id.
Owes(p, id) == \/ at[p] = "index" /\ arg[p] = id
               \/ id \in victims[p]

\* A statement on id commits while another operation has yet to correct the
\* index for id, or with nobody left to correct it.
Races(p, id, dropped) ==
    raced' = IF dropped \/ \E q \in Callers \ {p} : Owes(q, id)
             THEN raced \cup {id} ELSE raced

\* After a commit the caller goes on to the index, or was dropped.
Committed(p, id, v, dropped) ==
    /\ Races(p, id, dropped)
    /\ undisturbed' = {}
    /\ IF dropped
       THEN Finish(p)
       ELSE /\ Goto(p, "index")
            /\ arg' = [arg EXCEPT ![p] = id]
            /\ vec' = [vec EXCEPT ![p] = v]
            /\ UNCHANGED probe

-----------------------------------------------------------------------------
(* Writes.                                                                 *)

\* A uuid of its own for every insert.
Fresh(id) == id \notin issued /\ issued' = issued \cup {id}

\* insert_memory: one transaction, in which the tags share the row's fate.
WriteRow(p, id, v, dropped) ==
    /\ rows' = [rows EXCEPT ![id] = [vector |-> v, status |-> "live"]]
    /\ Committed(p, id, v, dropped)
    /\ UNCHANGED <<index, victims>>

\* insert_memory without dedup; the embedding may be absent.
Insert(p, id, v, dropped) ==
    /\ Begin(p, "insert")
    /\ Fresh(id)
    /\ WriteRow(p, id, v, dropped)

\* PUT /v1/memory/{id} encodes the content before it touches the store.
Encode(p, id, v) ==
    /\ Begin(p, "update")
    /\ arg' = [arg EXCEPT ![p] = id]
    /\ vec' = [vec EXCEPT ![p] = v]
    /\ Goto(p, "encoded")
    /\ UNCHANGED <<db, index, probe, victims, raced, undisturbed>>

\* update_memory: no affected row is NotFound.  An archived row's retention
\* starts again, an invalidated row's does not.
Update(p, dropped) ==
    /\ at[p] = "encoded"
    /\ LET id == arg[p]
       IN  IF Present(id)
           THEN /\ \E s \in {rows[id].status} \cup
                            (IF rows[id].status = "expired" THEN {"hidden"} ELSE {}) :
                    rows' = [rows EXCEPT ![id] = [vector |-> vec[p], status |-> s]]
                /\ Committed(p, id, vec[p], dropped)
           ELSE Finish(p) /\ UNCHANGED <<rows, raced, undisturbed>>
    /\ UNCHANGED <<issued, index, victims, began>>

\* delete_memory; a missing row is NotFound, which changes nothing.
Delete(p, id, dropped) ==
    /\ Begin(p, "delete")
    /\ Present(id)
    /\ rows' = [rows EXCEPT ![id] = NoRow]
    /\ Committed(p, id, NoVector, dropped)
    /\ UNCHANGED <<issued, index, victims>>

\* Mutant of Correct: never a remove.
CorrectByAdding(p) ==
    /\ at[p] = "index"
    /\ index' = IF vec[p] = NoVector THEN index
                ELSE [index EXCEPT ![arg[p]] = vec[p]]
    /\ Finish(p)
    /\ undisturbed' = {}
    /\ UNCHANGED <<db, victims, began, raced>>

\* The last statement of the operations: VectorIndex's upsert, or its remove
\* when there is no embedding.
Correct(p) ==
    /\ at[p] = "index"
    /\ index' = [index EXCEPT ![arg[p]] = vec[p]]
    /\ Finish(p)
    /\ undisturbed' = {}
    /\ UNCHANGED <<db, victims, began, raced>>

\* purge_invalidated_older_than and delete_archived_older_than, one blocking
\* closure without an await: SELECT the ids, DELETE by the same condition,
\* then remove each selected id from the index.
SelectExpired(p) ==
    /\ Begin(p, "purge")
    /\ LET expired == {id \in Ids : Present(id) /\ rows[id].status = "expired"}
       IN  /\ expired # {}
           /\ victims' = [victims EXCEPT ![p] = expired]
           /\ raced' = raced \cup {id \in expired :
                                    \E q \in Callers \ {p} : Owes(q, id)}
    /\ Goto(p, "purge")
    /\ UNCHANGED <<db, index, arg, vec, probe, undisturbed>>

DeleteExpired(p) ==
    /\ at[p] = "purge"
    /\ rows' = [id \in Ids |->
                    IF id \in victims[p] /\ Present(id)
                       /\ rows[id].status = "expired" THEN NoRow ELSE rows[id]]
    /\ Goto(p, "unindex")
    /\ undisturbed' = {}
    /\ UNCHANGED <<issued, index, local, began, raced>>

Unindex(p, id) ==
    /\ at[p] = "unindex"
    /\ id \in victims[p]
    /\ index' = [index EXCEPT ![id] = NoVector]
    /\ victims' = [victims EXCEPT ![p] = @ \ {id}]
    /\ Goto(p, IF victims[p] = {id} THEN "idle" ELSE "unindex")
    /\ undisturbed' = {}
    /\ UNCHANGED <<db, arg, vec, probe, began, raced>>

\* A tick archives or invalidates a row, or time passes over a hidden one.
Retire(id) ==
    /\ Present(id)
    /\ \/ rows[id].status = "live" /\ rows' = [rows EXCEPT ![id].status = "hidden"]
       \/ rows[id].status = "hidden" /\ rows' = [rows EXCEPT ![id].status = "expired"]
    /\ undisturbed' = {}
    /\ UNCHANGED <<issued, index, at, local, began, raced>>

\* A tick promotes, by id alone, what another one has archived since; a purge
\* that selected the row for its age no longer deletes it.
Raise(id) ==
    /\ Present(id)
    /\ rows[id].status # "live"
    /\ rows' = [rows EXCEPT ![id].status = "live"]
    /\ raced' = IF \E p \in Callers : id \in victims[p] THEN raced \cup {id} ELSE raced
    /\ undisturbed' = {}
    /\ UNCHANGED <<issued, index, at, local, began>>

-----------------------------------------------------------------------------
(* vector_search_ns, alone or as the probe of insert_memory_dedup.         *)

Indexed == {id \in Ids : index[id] # NoVector}

Scores(q) == [id \in Indexed |-> Sim[q][index[id]]]

\* Mutant of Probe: an index is read to its end when it yields nothing.
ProbeToTheLast(p, q, depth) ==
    /\ \E found \in Nearest(Indexed, depth, Scores(q)) :
        /\ hits' = [hits EXCEPT ![p] =
                        {[id |-> id, score |-> Scores(q)[id]] : id \in found}]
        /\ exhausted' = [exhausted EXCEPT ![p] = found = {}]
    /\ fetch' = [fetch EXCEPT ![p] = depth]
    /\ undisturbed' = undisturbed \cup {p}

\* InMemoryVectorIndex::search(vec, depth), which also fixes the scores.
Probe(p, q, depth) ==
    /\ \E found \in Nearest(Indexed, depth, Scores(q)) :
        /\ hits' = [hits EXCEPT ![p] =
                        {[id |-> id, score |-> Scores(q)[id]] : id \in found}]
        /\ exhausted' = [exhausted EXCEPT ![p] = Cardinality(found) < depth]
    /\ fetch' = [fetch EXCEPT ![p] = depth]
    /\ undisturbed' = undisturbed \cup {p}

StartProbe(p, label, q, ns, limit) ==
    /\ vec' = [vec EXCEPT ![p] = q]
    /\ bucket' = [bucket EXCEPT ![p] = ns]
    /\ Probe(p, q, 2 * limit)
    /\ Goto(p, label)
    /\ UNCHANGED <<rows, index, victims, raced>>

Search(p, q, ns) ==
    /\ Begin(p, "search")
    /\ StartProbe(p, "search", q, ns, Limit)
    /\ UNCHANGED <<issued, arg>>

\* insert_memory_dedup with an embedding: the probe wants the nearest row of
\* the bucket.  The uuid, which the code draws at the insert, is taken here.
InsertDedup(p, id, v) ==
    /\ Begin(p, "dedup")
    /\ Fresh(id)
    /\ arg' = [arg EXCEPT ![p] = id]
    /\ StartProbe(p, "dedup", v, NamespaceOf[id], 1)

Wanted(p) == IF at[p] \in {"dedup", "deduped"} THEN 1 ELSE Limit

\* fetch_rows_in_namespace over the hits, with the rows of now.
Fetched(p) == {h \in hits[p] : Live(h.id) /\ NamespaceOf[h.id] = bucket[p]}

\* Mutant of Enough: one probe of a fixed depth.
AnyYield(p) == TRUE

Enough(p) == Cardinality(Fetched(p)) >= Wanted(p) \/ exhausted[p]

\* The bucket yields enough rows, whose tags are fetched next.
Fetch(p) ==
    /\ at[p] \in {"search", "dedup"}
    /\ Enough(p)
    /\ hits' = [hits EXCEPT ![p] = Fetched(p)]
    /\ Goto(p, IF at[p] = "search" THEN "searched" ELSE "deduped")
    /\ UNCHANGED <<db, index, arg, vec, bucket, fetch, exhausted, victims, began,
                   raced, undisturbed>>

\* Mutant of Deepen: probes again, no deeper.
ProbeAgain(p) ==
    /\ at[p] \in {"search", "dedup"}
    /\ ~Enough(p)
    /\ Probe(p, vec[p], fetch[p])
    /\ UNCHANGED <<db, index, at, arg, vec, bucket, victims, began, raced>>

\* It does not: probe twice as deep.
Deepen(p) ==
    /\ at[p] \in {"search", "dedup"}
    /\ ~Enough(p)
    /\ Probe(p, vec[p], 2 * fetch[p])
    /\ UNCHANGED <<db, index, at, arg, vec, bucket, victims, began, raced>>

\* The fetched rows, sorted by the scores of the probe and cut to the limit.
Found(p) == Nearest(hits[p], Wanted(p), [h \in hits[p] |-> h.score])

\* The response: the rows found, or the id of the duplicate.
Return(p) ==
    /\ at[p] \in {"searched", "answered"}
    /\ Finish(p)
    /\ UNCHANGED <<db, index, victims, began, raced, undisturbed>>

\* dedup_verdict: the top hit clears the threshold, so nothing is written and
\* its id is the answer.
Duplicates(p) == {h \in UNION Found(p) : h.score >= Threshold}

Noop(p) ==
    /\ at[p] = "deduped"
    /\ \E h \in Duplicates(p) : arg' = [arg EXCEPT ![p] = h.id]
    /\ Goto(p, "answered")
    /\ UNCHANGED <<db, index, vec, probe, victims, began, raced, undisturbed>>

\* Nothing near enough.
InsertProbed(p, dropped) ==
    /\ at[p] = "deduped"
    /\ Duplicates(p) = {}
    /\ WriteRow(p, arg[p], vec[p], dropped)
    /\ UNCHANGED <<issued, began>>

\* A failed probe must not fail the write.
InsertUnprobed(p, dropped) ==
    /\ at[p] \in {"dedup", "deduped"}
    /\ WriteRow(p, arg[p], vec[p], dropped)
    /\ UNCHANGED <<issued, began>>

\* The client hangs up while its request awaits the embedder or the database,
\* or a statement fails.
GiveUp(p) ==
    /\ at[p] \in {"encoded", "search", "searched", "dedup", "deduped", "purge"}
    /\ Finish(p)
    /\ victims' = [victims EXCEPT ![p] = {}]
    /\ UNCHANGED <<db, index, began, raced, undisturbed>>

-----------------------------------------------------------------------------
\* SqliteStorage::new: the index is rebuilt from the embedding column.
Loaded == [id \in Ids |-> IF Present(id) THEN rows[id].vector ELSE NoVector]

\* The process dies anywhere and starts again on the same database.
Restart ==
    /\ at' = [p \in Callers |-> "idle"]
    /\ arg' = [p \in Callers |-> NoId]
    /\ vec' = [p \in Callers |-> NoVector]
    /\ bucket' = [p \in Callers |-> NoId]
    /\ fetch' = [p \in Callers |-> 0]
    /\ hits' = [p \in Callers |-> {}]
    /\ exhausted' = [p \in Callers |-> FALSE]
    /\ victims' = [p \in Callers |-> {}]
    /\ raced' = {}
    /\ undisturbed' = {}
    /\ index' = Loaded
    /\ UNCHANGED <<db, began>>

Init ==
    /\ issued \in SUBSET Ids
    /\ \E loaded \in [issued -> Vectors] :
        rows = [id \in Ids |-> IF id \in issued
                               THEN [vector |-> loaded[id], status |-> "live"]
                               ELSE NoRow]
    /\ index = Loaded
    /\ at = [p \in Callers |-> "idle"]
    /\ arg = [p \in Callers |-> NoId]
    /\ vec = [p \in Callers |-> NoVector]
    /\ bucket = [p \in Callers |-> NoId]
    /\ fetch = [p \in Callers |-> 0]
    /\ hits = [p \in Callers |-> {}]
    /\ exhausted = [p \in Callers |-> FALSE]
    /\ victims = [p \in Callers |-> {}]
    /\ raced = {}
    /\ undisturbed = {}
    /\ began = 0

Step(p) ==
    \/ Update(p, FALSE)
    \/ Correct(p)
    \/ DeleteExpired(p)
    \/ \E id \in Ids : Unindex(p, id)
    \/ Fetch(p) \/ Deepen(p)
    \/ Return(p)
    \/ Noop(p) \/ InsertProbed(p, FALSE)

Call(p) ==
    \/ \E id \in Ids, dropped \in BOOLEAN :
        \/ \E v \in Vectors \cup {NoVector} : Insert(p, id, v, dropped)
        \/ Delete(p, id, dropped)
    \/ \E id \in Ids, v \in Vectors : Encode(p, id, v) \/ InsertDedup(p, id, v)
    \/ SelectExpired(p)
    \/ \E v \in Vectors, ns \in Namespaces : Search(p, v, ns)

Mishap(p) ==
    \/ Update(p, TRUE)
    \/ InsertProbed(p, TRUE)
    \/ \E dropped \in BOOLEAN : InsertUnprobed(p, dropped)
    \/ GiveUp(p)

Next ==
    \/ \E p \in Callers : Call(p) \/ Step(p) \/ Mishap(p)
    \/ \E id \in Ids : Retire(id) \/ Raise(id)
    \/ Restart

Spec == Init /\ [][Next]_vars

\* The runtime drives an operation that was begun; no fairness for callers,
\* for a hang-up, for time or for a restart.
FairSpec == Spec /\ \A p \in Callers : WF_vars(Step(p))

-----------------------------------------------------------------------------
\* The variables keep their types, with the database never pointing outside.
TypeOK ==
    /\ rows \in [Ids -> Row \cup {NoRow}]
    /\ issued \in SUBSET Ids
    /\ index \in [Ids -> Vectors \cup {NoVector}]
    /\ at \in [Callers -> {"idle", "encoded", "index", "purge", "unindex",
                           "search", "searched", "dedup", "deduped", "answered"}]
    /\ arg \in [Callers -> Ids \cup {NoId}]
    /\ vec \in [Callers -> Vectors \cup {NoVector}]
    /\ bucket \in [Callers -> Namespaces \cup {NoId}]
    /\ fetch \in [Callers -> Nat]
    /\ hits \in [Callers -> SUBSET [id : Ids, score : Int]]
    /\ exhausted \in [Callers -> BOOLEAN]
    /\ victims \in [Callers -> SUBSET Ids]
    /\ began \in Nat
    /\ raced \in SUBSET Ids
    /\ undisturbed \in SUBSET Callers

\* Only a race of two operations on one id, or a dropped request, parts the
\* index from the embedding column: an id nobody contended for since the last
\* start, and whose correction is not under way, has the vector of its row.
IndexAgrees ==
    \A id \in Ids \ raced :
        (\A p \in Callers : ~Owes(p, id)) => index[id] = Loaded[id]

\* No small bucket starves behind the vectors of other buckets or of hidden
\* rows: an answer nothing disturbed since its probe is a best answer among all
\* the bucket's rows that have a vector.  For a dedup probe this says that a
\* near duplicate in the index is never overlooked.
SearchIsExact ==
    \A p \in undisturbed :
        at[p] \in {"searched", "deduped"}
            => \A T \in Found(p) :
                {h.id : h \in T} \in
                    Nearest({id \in Indexed : Live(id) /\ NamespaceOf[id] = bucket[p]},
                            Wanted(p), Scores(vec[p]))

\* The cost of a crowded index is logarithmic: whatever is written meanwhile, a
\* search goes on only from a depth the memories can fill, and then twice as
\* deep.
DeepeningIsBounded ==
    [][\A p \in Callers :
        at[p] \in {"search", "dedup"} /\ at'[p] = at[p] =>
            \/ UNCHANGED <<hits[p], fetch[p], exhausted[p]>>
            \/ fetch[p] \in 1 .. Cardinality(Ids) /\ fetch'[p] = 2 * fetch[p]]_vars

\* Deepening ends, whatever is written meanwhile: a search or a dedup probe
\* returns.
SearchReturns ==
    \A p \in Callers : at[p] \in {"search", "dedup"} ~> at[p] \notin {"search", "dedup"}

\* "Governance must never block or lose a write": a write that is not stored is
\* answered with the id of a row which holds its near duplicate, at least when
\* nothing at all happened since the probe.
NoopHoldsDuplicate ==
    \A p \in undisturbed :
        at[p] = "answered" =>
            /\ Live(arg[p])
            /\ rows[arg[p]].vector # NoVector
            /\ Sim[vec[p]][rows[arg[p]].vector] >= Threshold
=============================================================================
