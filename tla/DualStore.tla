------------------------------ MODULE DualStore ------------------------------
(***************************************************************************)
(* LanceDbStorage of crates/storage/src/lancedb.rs: the memories table in  *)
(* SQLite, the vectors in a LanceDB table, no transaction over both.  An    *)
(* insert commits its row, then adds the vector and takes the row back when *)
(* that fails; the other operations commit in SQLite and then correct the  *)
(* vector table by a filter on the quoted id, which quote_id_strict refuses *)
(* for every id this store generates.                                      *)
(*                                                                         *)
(* Callers are requests and ticks; any statement or LanceDB call may fail, *)
(* a client may hang up at an await, the process may stop anywhere.  What   *)
(* LanceDB itself answers is external: exact before an index is built,     *)
(* confined to the partitions it probes afterwards.                        *)
(***************************************************************************)
EXTENDS Integers, FiniteSets, TopK

CONSTANTS
    Ids,
    Vectors,        \* embeddings
    Callers,        \* requests and ticks in flight at one time
    NoVector,       \* no embedding
    NoId,
    NamespaceOf,    \* the bucket the row of an id is written to
    Sim,            \* cosine of two embeddings, scaled
    Threshold,      \* write.dedup_threshold, same scale
    Limit,          \* rows a search is asked for
    IndexThreshold, \* INDEX_THRESHOLD
    Stored,         \* bound: the ids that have a row when the store is opened
    MaxOps,         \* bound: operations begun
    MaxFaults       \* bound: failures, hang-ups and restarts

Namespaces == {NamespaceOf[id] : id \in Ids}

Jobs == {"insert", "dedup", "update", "delete", "purge", "search"}

ASSUME DualStoreAssumption ==
    /\ IsFiniteSet(Ids)
    /\ NoVector \notin Vectors
    /\ NoId \notin Ids
    /\ Sim \in [Vectors -> [Vectors -> Int]]
    /\ Threshold \in Int
    /\ Limit \in Nat \ {0}
    /\ IndexThreshold \in Nat
    /\ Stored \subseteq Ids
    /\ MaxOps \in Nat /\ MaxFaults \in Nat

VARIABLES
    rows,       \* status of each memory in SQLite, "absent" without a row
    issued,     \* ids taken: a uuid is never used twice
    table,      \* the vectors table: entries of an id and a vector
    indexed,    \* an index was built over it
    builder,    \* the index builder's task
    building,   \* the flag index_building
    at, job,    \* where each caller is, and in what
    arg,        \* the id it writes
    vec,        \* the embedding it carries
    victims,    \* the ids whose vectors it has to remove
    bucket,     \* the namespace it searches
    fetch,      \* how deep it probes
    hits,       \* entries the probe returned, then what the rows leave of them
    exhausted,  \* the probe returned less than it asked for
    began,      \* counts operations, up to MaxOps
    faults,     \* counts failures, up to MaxFaults
    fate,       \* history: how the insert of each id ended
    undisturbed \* history: callers that saw no change since an exact probe

lance  == <<table, indexed>>
build  == <<builder, building>>
local  == <<job, arg, vec, victims, bucket, fetch, hits, exhausted>>
bounds == <<began, faults>>
vars   == <<rows, issued, lance, build, at, local, bounds, fate, undisturbed>>

Present(id) == rows[id] # "absent"
Live(id) == rows[id] = "live"

Goto(p, label) == at' = [at EXCEPT ![p] = label]

\* The locals of an operation; what it does not use keeps its idle value.
Idle == [job |-> "search", arg |-> NoId, vec |-> NoVector, victims |-> {},
         bucket |-> NoId, fetch |-> 0]

Call(p, c) ==
    /\ job' = [job EXCEPT ![p] = c.job]
    /\ arg' = [arg EXCEPT ![p] = c.arg]
    /\ vec' = [vec EXCEPT ![p] = c.vec]
    /\ victims' = [victims EXCEPT ![p] = c.victims]
    /\ bucket' = [bucket EXCEPT ![p] = c.bucket]
    /\ fetch' = [fetch EXCEPT ![p] = c.fetch]
    /\ hits' = [hits EXCEPT ![p] = {}]
    /\ exhausted' = [exhausted EXCEPT ![p] = FALSE]

\* The operation is over, answered or dropped.
Finish(p) == Goto(p, "idle") /\ Call(p, Idle)

Begin(p) ==
    /\ at[p] = "idle"
    /\ began < MaxOps
    /\ began' = began + 1
    /\ UNCHANGED <<lance, build, faults>>

Fault ==
    /\ faults < MaxFaults
    /\ faults' = faults + 1
    /\ UNCHANGED <<lance, began>>

\* The insert whose row is committed and whose vector is not acknowledged.
Halfway(p) == job[p] = "insert" /\ at[p] \in {"open", "add", "rollback"}

-----------------------------------------------------------------------------
(* quote_id_strict, by the characters of an id.                            *)

HexDigits == {"0", "1", "2", "3", "4", "5", "6", "7", "8", "9",
              "a", "b", "c", "d", "e", "f"}

\* The characters of "mem_" and of a hyphenated uuid after it.
GeneratedChars == {"m", "e", "_", "-"} \cup HexDigits

\* Mutant of QuoteAccepts: the check starts after the prefix.
QuoteAcceptsBody(chars) == chars \ {"m"} \subseteq HexDigits \cup {"-", "_"}

\* Beside the prefix, which every generated id has, all characters have to be
\* hex digits, hyphens or underscores, the prefix included.
QuoteAccepts(chars) == chars \subseteq HexDigits \cup {"-", "_"}

-----------------------------------------------------------------------------
(* spawn_index_builder: one task at a time, started by a finished insert.  *)

SpawnBuilder ==
    IF building THEN UNCHANGED build ELSE building' = TRUE /\ builder' = "count"

\* Mutant of TooFew: the early return skips the flag.
TooFewKeepsFlag == builder' = "none" /\ UNCHANGED building

TooFew == builder' = "none" /\ building' = FALSE

Count ==
    /\ builder = "count"
    /\ IF Cardinality(table) < IndexThreshold
       THEN TooFew
       ELSE builder' = "create" /\ UNCHANGED building
    /\ UNCHANGED <<rows, issued, lance, at, local, bounds, fate, undisturbed>>

CreateIndex ==
    /\ builder = "create"
    /\ indexed' = TRUE
    /\ builder' = "none" /\ building' = FALSE
    /\ undisturbed' = {}
    /\ UNCHANGED <<rows, issued, table, at, local, bounds, fate>>

\* Opening, counting or building fails: a warning, and the flag is cleared.
BuildFails ==
    /\ builder # "none"
    /\ Fault
    /\ builder' = "none" /\ building' = FALSE
    /\ UNCHANGED <<rows, issued, at, local, fate, undisturbed>>

-----------------------------------------------------------------------------
(* Writes.                                                                 *)

Fresh(id) == id \notin issued /\ issued' = issued \cup {id}

Insert(p, id, v) ==
    /\ Begin(p)
    /\ Fresh(id)
    /\ Goto(p, "commit")
    /\ Call(p, [Idle EXCEPT !.job = "insert", !.arg = id, !.vec = v])
    /\ UNCHANGED <<rows, fate, undisturbed>>

\* The probe before the write; the uuid, drawn later by insert_memory, is
\* taken here.
InsertDedup(p, id, v) ==
    /\ Begin(p)
    /\ Fresh(id)
    /\ Goto(p, "open")
    /\ Call(p, [Idle EXCEPT !.job = "dedup", !.arg = id, !.vec = v,
                            !.bucket = NamespaceOf[id], !.fetch = 2])
    /\ UNCHANGED <<rows, fate, undisturbed>>

WithFate(p, f) == fate' = [fate EXCEPT ![arg[p]] = f]

\* Ok(id), after the builder was spawned.
Acknowledge(p, f) == SpawnBuilder /\ WithFate(p, f) /\ Finish(p)

Embedded(p) == vec[p] # NoVector

\* The row and its tags, one transaction.
CommitRow(p) ==
    /\ at[p] = "commit"
    /\ rows' = [rows EXCEPT ![arg[p]] = "live"]
    /\ undisturbed' = {}
    /\ IF Embedded(p)
       THEN /\ Goto(p, "open")
            /\ Call(p, [Idle EXCEPT !.job = "insert", !.arg = arg[p], !.vec = vec[p]])
            /\ UNCHANGED <<build, fate>>
       ELSE Acknowledge(p, "plain")
    /\ UNCHANGED <<issued, lance, bounds>>

\* update_memory: the UPDATE of a row that exists; otherwise NotFound, which
\* changes nothing.
Update(p, id, v) ==
    /\ Begin(p)
    /\ Present(id)
    /\ Goto(p, "open")
    /\ Call(p, [Idle EXCEPT !.job = "update", !.arg = id, !.vec = v, !.victims = {id}])
    /\ UNCHANGED <<rows, issued, fate, undisturbed>>

Delete(p, id) ==
    /\ Begin(p)
    /\ Present(id)
    /\ rows' = [rows EXCEPT ![id] = "absent"]
    /\ undisturbed' = {}
    /\ Goto(p, "open")
    /\ Call(p, [Idle EXCEPT !.job = "delete", !.victims = {id}])
    /\ UNCHANGED <<issued, fate>>

\* purge_invalidated_older_than and delete_archived_older_than: the ids and
\* the DELETE by the same condition, in one closure.  Without a row nothing
\* follows.  Any of the hidden rows may be old enough.
Purge(p, expired) ==
    /\ Begin(p)
    /\ expired # {}
    /\ \A id \in expired : rows[id] = "hidden"
    /\ rows' = [id \in Ids |-> IF id \in expired THEN "absent" ELSE rows[id]]
    /\ Call(p, [Idle EXCEPT !.job = "purge", !.victims = expired])
    /\ undisturbed' = {}
    /\ Goto(p, "open")
    /\ UNCHANGED <<issued, fate>>

\* get_table.
OpenTable(p) ==
    /\ at[p] = "open"
    /\ Goto(p, CASE job[p] = "insert" -> "add"
                 [] job[p] \in {"search", "dedup"} -> "nearest"
                 [] OTHER -> "unlink")
    /\ UNCHANGED <<rows, issued, lance, build, local, bounds, fate, undisturbed>>

\* The last step of an insert, and of an update with an embedding.
AddVector(p) ==
    /\ at[p] = "add"
    /\ table' = table \cup {[id |-> arg[p], vec |-> vec[p]]}
    /\ undisturbed' = {}
    /\ IF job[p] = "insert" THEN Acknowledge(p, "stored")
                            ELSE Finish(p) /\ UNCHANGED <<build, fate>>
    /\ UNCHANGED <<rows, issued, indexed, bounds>>

\* Mutant of WithoutRow: the compensation is forgotten.
RowKept(id) == rows

WithoutRow(id) == [rows EXCEPT ![id] = "absent"]

\* The compensating DELETE; the client is told that the insert failed.
Rollback(p) ==
    /\ at[p] = "rollback"
    /\ rows' = WithoutRow(arg[p])
    /\ undisturbed' = {}
    /\ Finish(p)
    /\ UNCHANGED <<issued, lance, build, bounds, fate>>

\* The old vectors go by a filter that names the quoted ids; a refusal is
\* BadRequest and ends the operation, its rows already changed.
Unlink(p) ==
    /\ at[p] = "unlink"
    /\ IF QuoteAccepts(GeneratedChars)
       THEN /\ table' = {e \in table : e.id \notin victims[p]}
            /\ undisturbed' = {}
            /\ IF Embedded(p) THEN Goto(p, "add") /\ UNCHANGED local ELSE Finish(p)
       ELSE Finish(p) /\ UNCHANGED <<table, undisturbed>>
    /\ UNCHANGED <<rows, issued, indexed, build, bounds, fate>>

\* update_level, to -1 or back, or invalidate_memory, in SQLite alone.
SetStatus(id) ==
    /\ Present(id)
    /\ \E s \in {"live", "hidden"} \ {rows[id]} : rows' = [rows EXCEPT ![id] = s]
    /\ undisturbed' = {}
    /\ UNCHANGED <<issued, lance, build, at, local, bounds, fate>>

-----------------------------------------------------------------------------
(* vector_search_ns, alone or as the probe of insert_memory_dedup.         *)

Search(p, q, ns) ==
    /\ Begin(p)
    /\ Goto(p, "open")
    /\ Call(p, [Idle EXCEPT !.vec = q, !.bucket = ns, !.fetch = 2 * Limit])
    /\ UNCHANGED <<rows, issued, fate, undisturbed>>

Wanted(p) == IF job[p] = "dedup" THEN 1 ELSE Limit

Scores(q) == [e \in table |-> Sim[q][e.vec]]

\* lance_candidates: the nearest entries, an index probing only some of them.
\* The map of scores has one key for each id, and its size decides exhaustion.
Candidates(p) ==
    /\ at[p] = "nearest"
    /\ \E probed \in SUBSET table :
        /\ indexed \/ probed = table
        /\ \E near \in Nearest(probed, fetch[p], Scores(vec[p])) :
            /\ hits' = [hits EXCEPT ![p] = near]
            /\ exhausted' = [exhausted EXCEPT
                    ![p] = Cardinality({e.id : e \in near}) < fetch[p]]
    /\ undisturbed' = IF indexed THEN undisturbed \ {p} ELSE undisturbed \cup {p}
    /\ Goto(p, "fetch")
    /\ UNCHANGED <<rows, issued, lance, build, job, arg, vec, victims, bucket,
                   fetch, bounds, fate>>

\* fetch_rows_in_namespace over the hits, with the rows of now.
Fetched(p) == {e \in hits[p] : Live(e.id) /\ NamespaceOf[e.id] = bucket[p]}

\* Mutant of Enough: one probe of a fixed depth.
AnyYield(p) == TRUE

Enough(p) == Cardinality(Fetched(p)) >= Wanted(p) \/ exhausted[p]

Deeper(n) == 2 * n

FetchRows(p) ==
    /\ at[p] = "fetch"
    /\ IF Enough(p)
       THEN /\ hits' = [hits EXCEPT ![p] = Fetched(p)]
            /\ Goto(p, "fetched")
            /\ UNCHANGED <<fetch, undisturbed>>
       ELSE /\ fetch' = [fetch EXCEPT ![p] = Deeper(@)]
            /\ Goto(p, "nearest")
            /\ UNCHANGED <<hits, undisturbed>>
    /\ UNCHANGED <<rows, issued, lance, build, job, arg, vec, victims, bucket,
                   exhausted, bounds, fate>>

\* Sorted by the scores of the probe and cut to the limit.
Found(p) == Nearest(hits[p], Wanted(p), [e \in hits[p] |-> Sim[vec[p]][e.vec]])

Duplicates(p) == {e \in UNION Found(p) : Sim[vec[p]][e.vec] >= Threshold}

\* A search answers; a dedup write answers with the duplicate, or inserts.
Return(p) ==
    /\ at[p] = "fetched"
    /\ IF job[p] = "dedup" /\ Duplicates(p) = {}
       THEN Goto(p, "commit") /\ UNCHANGED local
       ELSE Finish(p)
    /\ UNCHANGED <<rows, issued, lance, build, bounds, fate, undisturbed>>

-----------------------------------------------------------------------------
(* Failures.                                                               *)

\* A call fails.  The row of an insert stays when the table cannot be opened
\* or the rollback fails, since only a failed add is rolled back; a probe that
\* fails falls back to the plain insert.
CallFails(p) ==
    /\ Fault
    /\ CASE job[p] = "dedup" /\ at[p] \in {"open", "nearest", "fetch", "fetched"} ->
                Goto(p, "commit") /\ UNCHANGED <<local, fate>>
         [] job[p] = "insert" /\ at[p] = "add" ->
                Goto(p, "rollback") /\ UNCHANGED <<local, fate>>
         [] job[p] = "insert" /\ at[p] \in {"open", "rollback"} ->
                Finish(p) /\ WithFate(p, "stranded")
         [] at[p] = "idle" -> FALSE
         [] OTHER -> Finish(p) /\ UNCHANGED fate
    /\ UNCHANGED <<rows, issued, build, undisturbed>>

\* The client hangs up at an await: what it wrote stays, the rest never runs.
HangUp(p) ==
    /\ at[p] # "idle" /\ job[p] # "purge"
    /\ Fault
    /\ Finish(p)
    /\ IF Halfway(p) THEN WithFate(p, "stranded") ELSE UNCHANGED fate
    /\ UNCHANGED <<rows, issued, build, undisturbed>>

\* The transaction, already on the blocking pool, commits for nobody.
HangUpCommitting(p) ==
    /\ at[p] = "commit"
    /\ Fault
    /\ rows' = [rows EXCEPT ![arg[p]] = "live"]
    /\ undisturbed' = {}
    /\ Finish(p)
    /\ WithFate(p, "stranded")
    /\ UNCHANGED <<issued, build>>

\* The process stops anywhere and starts again on both stores.
Restart ==
    /\ Fault
    /\ at' = [p \in Callers |-> "idle"]
    /\ job' = [p \in Callers |-> Idle.job]
    /\ arg' = [p \in Callers |-> NoId]
    /\ vec' = [p \in Callers |-> NoVector]
    /\ victims' = [p \in Callers |-> {}]
    /\ bucket' = [p \in Callers |-> NoId]
    /\ fetch' = [p \in Callers |-> 0]
    /\ hits' = [p \in Callers |-> {}]
    /\ exhausted' = [p \in Callers |-> FALSE]
    /\ builder' = "none" /\ building' = FALSE
    /\ fate' = [id \in Ids |-> IF \E p \in Callers : Halfway(p) /\ arg[p] = id
                               THEN "stranded" ELSE fate[id]]
    /\ undisturbed' = {}
    /\ UNCHANGED <<rows, issued>>

-----------------------------------------------------------------------------
\* LanceDbStorage::new on stores earlier runs left: each row with its vector.
Init ==
    /\ issued = Stored
    /\ rows = [id \in Ids |-> IF id \in Stored THEN "live" ELSE "absent"]
    /\ \E loaded \in [Stored -> Vectors] :
        table = {[id |-> id, vec |-> loaded[id]] : id \in Stored}
    /\ fate = [id \in Ids |-> IF id \in Stored THEN "stored" ELSE "none"]
    /\ indexed = FALSE
    /\ builder = "none" /\ building = FALSE
    /\ at = [p \in Callers |-> "idle"]
    /\ job = [p \in Callers |-> Idle.job]
    /\ arg = [p \in Callers |-> NoId]
    /\ vec = [p \in Callers |-> NoVector]
    /\ victims = [p \in Callers |-> {}]
    /\ bucket = [p \in Callers |-> NoId]
    /\ fetch = [p \in Callers |-> 0]
    /\ hits = [p \in Callers |-> {}]
    /\ exhausted = [p \in Callers |-> FALSE]
    /\ began = 0 /\ faults = 0
    /\ undisturbed = {}

Step(p) ==
    \/ CommitRow(p) \/ OpenTable(p) \/ AddVector(p) \/ Rollback(p) \/ Unlink(p)
    \/ Candidates(p) \/ FetchRows(p) \/ Return(p)

Request(p) ==
    \/ \E id \in Ids, v \in Vectors \cup {NoVector} : Insert(p, id, v) \/ Update(p, id, v)
    \/ \E id \in Ids, v \in Vectors : InsertDedup(p, id, v)
    \/ \E id \in Ids : Delete(p, id)
    \/ \E expired \in SUBSET Ids : Purge(p, expired)
    \/ \E q \in Vectors, ns \in Namespaces : Search(p, q, ns)

Next ==
    \/ \E p \in Callers : Request(p) \/ Step(p)
    \/ \E p \in Callers : CallFails(p) \/ HangUp(p) \/ HangUpCommitting(p)
    \/ \E id \in Ids : SetStatus(id)
    \/ Count \/ CreateIndex \/ BuildFails
    \/ Restart

Spec == Init /\ [][Next]_vars

\* The runtime drives what was begun: the operations and the builder's task.
FairSpec ==
    /\ Spec
    /\ \A p \in Callers : WF_vars(Step(p))
    /\ WF_vars(Count) /\ WF_vars(CreateIndex)

-----------------------------------------------------------------------------
Entry == [id : Ids, vec : Vectors]

\* The variables keep their types, a caller on the way to a vector carries one.
TypeOK ==
    /\ rows \in [Ids -> {"absent", "live", "hidden"}]
    /\ issued \in SUBSET Ids
    /\ table \in SUBSET Entry
    /\ indexed \in BOOLEAN
    /\ builder \in {"none", "count", "create"} /\ building \in BOOLEAN
    /\ at \in [Callers -> {"idle", "commit", "open", "add", "rollback", "unlink",
                           "nearest", "fetch", "fetched"}]
    /\ job \in [Callers -> Jobs]
    /\ arg \in [Callers -> Ids \cup {NoId}]
    /\ vec \in [Callers -> Vectors \cup {NoVector}]
    /\ victims \in [Callers -> SUBSET Ids]
    /\ bucket \in [Callers -> Namespaces \cup {NoId}]
    /\ fetch \in [Callers -> Nat]
    /\ hits \in [Callers -> SUBSET Entry]
    /\ exhausted \in [Callers -> BOOLEAN]
    /\ began \in Nat /\ faults \in Nat
    /\ fate \in [Ids -> {"none", "stored", "plain", "stranded"}]
    /\ undisturbed \in SUBSET Callers

\* An insert that was answered Ok with an embedding stays findable: whatever
\* fails afterwards, its row is never left without a vector.
AcknowledgedHasVector ==
    \A id \in Ids : Present(id) /\ fate[id] = "stored" => \E e \in table : e.id = id

\* A row whose insert was not answered Ok is there only while that insert is
\* under way, or because its table could not be opened, its rollback failed or
\* its client was gone: every other failure takes the row back.
RowsAccountedFor ==
    \A id \in Ids : Present(id) /\ fate[id] = "none"
        => \E p \in Callers : Halfway(p) /\ arg[p] = id

\* The candidate map has one score for each id, and its size against the depth
\* decides whether the deepening loop stops: two vectors of one id would stop
\* it early.  It holds because no update gets to replace a vector at all.
OneVectorPerId == \A e, f \in table : e.id = f.id => e = f

\* The vectors of deleted, purged and hidden rows, which stay in the table for
\* good, starve nobody: before an index is built, an answer nothing disturbed
\* since its probe is a best answer over the bucket's rows.
SearchIsExact ==
    \A p \in undisturbed :
        at[p] = "fetched"
            => \A T \in Found(p) :
                T \in Nearest({e \in table : Live(e.id) /\ NamespaceOf[e.id] = bucket[p]},
                              Wanted(p), Scores(vec[p]))

\* Every operation ends, the deepening search among writers included.
CallsReturn == \A p \in Callers : at[p] # "idle" ~> at[p] = "idle"

\* The builder's flag never sticks: later inserts can start a builder again.
FlagReleased == building ~> ~building

\* "The Lance side keeps the vector ... until the retention purge removes it":
\* unless a call fails, an operation that deleted rows takes their vectors.
VectorsFollowRows ==
    [][\A p \in Callers, id \in Ids :
        /\ at[p] = "unlink" /\ at'[p] = "idle" /\ faults' = faults
        /\ id \in victims[p] /\ ~Present(id)
        => \A e \in table' : e.id # id]_vars
=============================================================================
