-------------------------------- MODULE Pool --------------------------------
(***************************************************************************)
(* The connection pool (build_pool of sqlite_helpers.rs) and the storage   *)
(* calls that meet on it: run_blocking gives each its thread, and the      *)
(* thread takes its connection with r2d2's Pool::get.  A read that wants    *)
(* the context tags of its rows (get_memory_row, list_memories_filtered,   *)
(* bfs_expand) takes a second connection while it still holds the first;   *)
(* it sees the rows of one instant and the tags of a later one.            *)
(*                                                                         *)
(* One caller is the browser page of GET /v1/memories, walking its pages.  *)
(***************************************************************************)
EXTENDS Integers, Sequences, FiniteSets, SequencesExt

CONSTANTS
    Conns,      \* the connections of the pool, ten in the code
    Callers,
    Browser,    \* the caller that lists
    Does,       \* bound: Does[p], the operations of the other callers
    Ids,        \* memories
    Stored,     \* the ones stored at the beginning
    PageSize,   \* the limit of a listing
    NoRow, Nobody,
    MaxTime,    \* bound: distinct created_at
    MaxCalls    \* bound: calls begun

ASSUME PoolAssumption ==
    /\ IsFiniteSet(Conns) /\ Cardinality(Conns) >= 2
    /\ Browser \in Callers /\ Nobody \notin Callers
    /\ Does \in [Callers \ {Browser} ->
                   SUBSET {"insert", "delete", "invalidate", "get", "expand"}]
    /\ IsFiniteSet(Ids) /\ Stored \subseteq Ids
    /\ NoRow \notin [created : 0..MaxTime, live : BOOLEAN]
    /\ PageSize \in Nat \ {0} /\ MaxTime \in Nat \ {0} /\ MaxCalls \in Nat

Row == [created : 0..MaxTime, live : BOOLEAN]

VARIABLES
    rows,       \* memories, as committed
    tags,       \* the memories whose context_tags are committed
    issued,     \* every id ever drawn; a UUID is not drawn twice
    now,        \* the clock
    writer,     \* the holder of SQLite's write lock, or Nobody
    held,       \* held[p]: the connections of p, in the order it took them
    at,         \* at[p]: where p stands
    call,       \* call[p]: the locals of p's call
    walk,       \* the walk of the Browser over the pages
    began       \* calls begun

db    == <<rows, tags>>
place == <<held, at>>
vars  == <<rows, tags, issued, now, writer, held, at, call, walk, began>>

NoCall == [op |-> "none", id |-> Nobody, stamp |-> 0, total |-> 0,
           page |-> <<>>, todo |-> {}, got |-> {}]

NoWalk == [on |-> FALSE, offset |-> 0, start |-> {}, seen |-> <<>>,
           done |-> FALSE, gained |-> FALSE, lost |-> FALSE, split |-> FALSE]

Present(id) == rows[id] # NoRow
Live(id)    == Present(id) /\ rows[id].live
LiveIds     == {id \in Ids : Live(id)}

Free == Conns \ UNION {Range(held[p]) : p \in Callers}

\* Mutant of Enforces: the pragma of the schema alone, on the connection that
\* ran it.
EnforcesOnce(c) == c = CHOOSE first \in Conns : TRUE

\* foreign_keys is a pragma of the connection; the pool's init hook sets it.
Enforces(c) == TRUE

-----------------------------------------------------------------------------
(* Connections.                                                            *)

Goto(p, place_) == at' = [at EXCEPT ![p] = place_]

\* The thread returns: its connections drop back into the pool.
Finish(p, answer) ==
    /\ Goto(p, "idle")
    /\ held' = [held EXCEPT ![p] = <<>>]
    /\ call' = [call EXCEPT ![p] = [NoCall EXCEPT !.got = answer]]

Take(p, c) ==
    /\ c \in Free
    /\ held' = [held EXCEPT ![p] = Append(@, c)]

TakeFirst(p) ==
    /\ at[p] = "first"
    /\ \E c \in Free : Take(p, c)
    /\ Goto(p, "begin")
    /\ UNCHANGED <<db, issued, now, writer, call, walk, began>>

TakeSecond(p) ==
    /\ at[p] = "second"
    /\ \E c \in Free : Take(p, c)
    /\ Goto(p, "tags")
    /\ UNCHANGED <<db, issued, now, writer, call, walk, began>>

\* Mutant of Expires: a get that waits for as long as it takes.
ExpiresNever(p) == FALSE

\* r2d2's connection_timeout: thirty seconds with no connection to be had.
Expires(p) == at[p] \in {"first", "second"} /\ Free = {}

\* "Failed to get connection": the call fails with what it read so far.
TimeOut(p) ==
    /\ Expires(p)
    /\ Finish(p, {})
    /\ UNCHANGED <<db, issued, now, writer, walk, began>>

\* A statement fails; the transaction that is dropped rolls back.
Fail(p) ==
    /\ at[p] \in {"begin", "row", "page", "tags"}
    /\ Finish(p, {})
    /\ writer' = IF writer = p THEN Nobody ELSE writer
    /\ UNCHANGED <<db, issued, now, walk, began>>

\* Another connection writes for longer than SQLite's busy timeout.
Busy(p) ==
    /\ at[p] = "begin" /\ call[p].op \in {"insert", "delete", "invalidate"}
    /\ writer # Nobody
    /\ Fail(p)

-----------------------------------------------------------------------------
(* Writes.                                                                 *)

\* insert_memory: the id and the time are drawn before the connection is.
Insert(p, id, stamp) ==
    /\ at[p] = "idle" /\ began < MaxCalls
    /\ id \notin issued
    /\ issued' = issued \cup {id}
    /\ stamp \in {now, now + 1} /\ stamp <= MaxTime
    /\ now' = stamp
    /\ call' = [call EXCEPT ![p] = [NoCall EXCEPT !.op = "insert", !.id = id,
                                                  !.stamp = stamp]]
    /\ began' = began + 1
    /\ Goto(p, "first")
    /\ UNCHANGED <<db, writer, held, walk>>

NewRow(p) == [created |-> call[p].stamp, live |-> TRUE]

Gained == [walk EXCEPT !.gained = @ \/ walk.on,
                       !.split  = @ \/ at[Browser] = "page"]
Lost   == [walk EXCEPT !.lost   = @ \/ walk.on]

\* Mutant of InsertRow: no transaction, each statement commits itself.
InsertRowAtOnce(p) ==
    /\ at[p] = "begin" /\ call[p].op = "insert"
    /\ writer = Nobody
    /\ writer' = p
    /\ Goto(p, "row")
    /\ rows' = [rows EXCEPT ![call[p].id] = NewRow(p)]
    /\ walk' = Gained
    /\ UNCHANGED <<tags, issued, now, held, call, began>>

\* The transaction's first INSERT, which takes the write lock; other
\* connections do not see its row.
InsertRow(p) ==
    /\ at[p] = "begin" /\ call[p].op = "insert"
    /\ writer = Nobody
    /\ writer' = p
    /\ Goto(p, "row")
    /\ UNCHANGED <<db, issued, now, held, call, walk, began>>

\* The INSERTs of the tags, and the commit.
CommitRow(p) ==
    /\ at[p] = "row"
    /\ rows' = [rows EXCEPT ![call[p].id] = NewRow(p)]
    /\ tags' = tags \cup {call[p].id}
    /\ writer' = Nobody
    /\ walk' = Gained
    /\ Finish(p, {})
    /\ UNCHANGED <<issued, now, began>>

\* delete_memory and invalidate_memory: one statement.
Discard(p, op, id) ==
    /\ at[p] = "idle" /\ began < MaxCalls
    /\ Present(id)
    /\ call' = [call EXCEPT ![p] = [NoCall EXCEPT !.op = op, !.id = id]]
    /\ began' = began + 1
    /\ Goto(p, "first")
    /\ UNCHANGED <<db, issued, now, writer, held, walk>>

Delete(p) ==
    /\ at[p] = "begin" /\ call[p].op = "delete"
    /\ writer = Nobody
    /\ rows' = [rows EXCEPT ![call[p].id] = NoRow]
    /\ tags' = IF Enforces(held[p][1]) THEN tags \ {call[p].id} ELSE tags
    /\ walk' = IF Live(call[p].id) THEN Lost ELSE walk
    /\ Finish(p, {})
    /\ UNCHANGED <<issued, now, writer, began>>

Invalidate(p) ==
    /\ at[p] = "begin" /\ call[p].op = "invalidate"
    /\ writer = Nobody
    /\ rows' = IF Live(call[p].id) THEN [rows EXCEPT ![call[p].id].live = FALSE]
               ELSE rows
    /\ walk' = IF Live(call[p].id) THEN Lost ELSE walk
    /\ Finish(p, {})
    /\ UNCHANGED <<tags, issued, now, writer, began>>

-----------------------------------------------------------------------------
(* Reads.                                                                  *)

BeginRead(p, op, id) ==
    /\ at[p] = "idle" /\ began < MaxCalls
    /\ call' = [call EXCEPT ![p] = [NoCall EXCEPT !.op = op, !.id = id]]
    /\ began' = began + 1
    /\ Goto(p, "first")

\* get_memory, of a client, of list_pending or of list_for_forgetting.
Get(p, id) ==
    /\ BeginRead(p, "get", id)
    /\ UNCHANGED <<db, issued, now, writer, held, walk>>

\* bfs_expand, whose neighborhood is whatever the graph makes it.
Expand(p) ==
    /\ BeginRead(p, "expand", Nobody)
    /\ UNCHANGED <<db, issued, now, writer, held, walk>>

\* What follows the rows: their tags, or the return when there is no row.
Tagging(p, found) ==
    IF found = {} THEN Finish(p, {})
    ELSE /\ call' = [call EXCEPT ![p].todo = found]
         /\ Goto(p, "second")
         /\ UNCHANGED held

\* The audit read: invalidated rows too.
ReadRow(p) ==
    /\ at[p] = "begin" /\ call[p].op = "get"
    /\ Tagging(p, {id \in {call[p].id} : Present(id)})
    /\ UNCHANGED <<db, issued, now, writer, walk, began>>

ReadNeighborhood(p) ==
    /\ at[p] = "begin" /\ call[p].op = "expand"
    /\ \E near \in SUBSET LiveIds : Tagging(p, near)
    /\ UNCHANGED <<db, issued, now, writer, walk, began>>

\* The browser asks for a first page, for the next one, or for a page again
\* that failed.
OpenList ==
    /\ BeginRead(Browser, "list", Nobody)
    /\ walk' = IF walk.on THEN walk
               ELSE [NoWalk EXCEPT !.on = TRUE, !.start = LiveIds]
    /\ UNCHANGED <<db, issued, now, writer, held>>

\* SELECT COUNT(*).
CountRows(p) ==
    /\ at[p] = "begin" /\ call[p].op = "list"
    /\ call' = [call EXCEPT ![p].total = Cardinality(LiveIds)]
    /\ Goto(p, "page")
    /\ UNCHANGED <<db, issued, now, writer, held, walk, began>>

\* Mutant of Before: ORDER BY created_at DESC alone.
BeforeUntied(a, b, tie) == rows[a].created >= rows[b].created

\* ORDER BY created_at DESC, id ASC.
Before(a, b, tie) ==
    \/ rows[a].created > rows[b].created
    \/ rows[a].created = rows[b].created /\ tie[a] < tie[b]

\* The ids as the database compares them.
Tie == CHOOSE f \in [Ids -> 1..Cardinality(Ids)] : IsInjective(f)

\* Any sequence of the rows that ORDER BY allows.
Orders == {s \in SetToSeqs(LiveIds) :
              \A i, j \in DOMAIN s : i < j => Before(s[i], s[j], Tie)}

\* LIMIT PageSize OFFSET walk.offset
PageOf(s) ==
    SubSeq(s, walk.offset + 1, Min({walk.offset + PageSize, Len(s)}))

\* The page is read, and the browser shows it and moves on while
\* offset + items.length < total.
Shown(page, total) ==
    LET more == walk.offset + Len(page) < total
    IN  [walk EXCEPT !.seen   = @ \o page,
                     !.offset = IF more THEN @ + PageSize ELSE @,
                     !.on     = more,
                     !.done   = ~more]

\* The page SELECT; the rows it steps over are those of its own snapshot.
SelectPage(p) ==
    /\ at[p] = "page"
    /\ \E s \in Orders :
        IF PageOf(s) = <<>>
        THEN Finish(p, {}) /\ walk' = Shown(<<>>, call[p].total)
        ELSE /\ call' = [call EXCEPT ![p].page = PageOf(s),
                                     ![p].todo = Range(PageOf(s))]
             /\ Goto(p, "second")
             /\ UNCHANGED <<held, walk>>
    /\ UNCHANGED <<db, issued, now, writer, began>>

\* The rows whose tags the second connection reads: the batch of bfs_expand,
\* or one row.
Batches(p) ==
    IF call[p].op = "expand" THEN {call[p].todo}
    ELSE {{id} : id \in call[p].todo}

\* SELECT from context_tags; the second connection goes back to the pool.
ReadTags(p) ==
    /\ at[p] = "tags"
    /\ \E batch \in Batches(p) :
        LET rest == call[p].todo \ batch
            got  == call[p].got \cup {[id |-> id, tagged |-> id \in tags] :
                                          id \in batch}
        IN  IF rest = {}
            THEN /\ Finish(p, got)
                 /\ walk' = IF call[p].op = "list"
                            THEN Shown(call[p].page, call[p].total) ELSE walk
            ELSE /\ Goto(p, "second")
                 /\ held' = [held EXCEPT ![p] = <<@[1]>>]
                 /\ call' = [call EXCEPT ![p].todo = rest, ![p].got = got]
                 /\ UNCHANGED walk
    /\ UNCHANGED <<db, issued, now, writer, began>>

-----------------------------------------------------------------------------
Init ==
    /\ \E created \in [Stored -> 0..1] :
        rows = [id \in Ids |-> IF id \in Stored
                               THEN [created |-> created[id], live |-> TRUE]
                               ELSE NoRow]
    /\ tags = Stored
    /\ issued = Stored
    /\ now = 1
    /\ writer = Nobody
    /\ held = [p \in Callers |-> <<>>]
    /\ at = [p \in Callers |-> "idle"]
    /\ call = [p \in Callers |-> NoCall]
    /\ walk = NoWalk
    /\ began = 0

Write(p) == InsertRow(p) \/ CommitRow(p) \/ Delete(p) \/ Invalidate(p)

Read(p) ==
    \/ ReadRow(p) \/ ReadNeighborhood(p)
    \/ CountRows(p) \/ SelectPage(p) \/ ReadTags(p)

Step(p) ==
    \/ TakeFirst(p) \/ TakeSecond(p) \/ TimeOut(p)
    \/ Write(p) \/ Busy(p)
    \/ Read(p)

Call(p) ==
    \/ "insert" \in Does[p] /\ \E id \in Ids, stamp \in 0..MaxTime : Insert(p, id, stamp)
    \/ \E id \in Ids, op \in {"delete", "invalidate"} \cap Does[p] : Discard(p, op, id)
    \/ "get" \in Does[p] /\ \E id \in issued : Get(p, id)
    \/ "expand" \in Does[p] /\ Expand(p)

Next ==
    \/ \E p \in Callers \ {Browser} : Call(p)
    \/ OpenList
    \/ \E p \in Callers : Step(p) \/ Fail(p)

Spec == Init /\ [][Next]_vars

\* A blocking task that was started runs; nothing is said of the callers.
FairSpec == Spec /\ \A p \in Callers : WF_vars(Step(p))
-----------------------------------------------------------------------------
\* The variables keep their types; a caller holds what its place implies.
TypeOK ==
    /\ rows \in [Ids -> Row \cup {NoRow}]
    /\ tags \subseteq Ids /\ issued \subseteq Ids
    /\ now \in 0..MaxTime
    /\ writer \in Callers \cup {Nobody}
    /\ held \in [Callers -> Seq(Conns)]
    /\ at \in [Callers -> {"idle", "first", "begin", "row", "page", "second",
                           "tags"}]
    /\ began \in 0..MaxCalls

\* A read never serves a memory without its context tags, though it reads the
\* row on one connection and the tags later on another, unless the memory was
\* deleted in between: the insert commits both at once, and nothing but the
\* delete takes the tags away.
TagsAreWhole ==
    \A p \in Callers : \A h \in call[p].got : h.tagged \/ ~Present(h.id)

\* No tag outlives its memory, whichever connection of the pool deleted it.
NoOrphans == tags \subseteq {id \in Ids : Present(id)}

\* A walk over the pages of the listing beside other clients: unless a memory
\* left the listing meanwhile, or one came between a page's COUNT and its
\* SELECT, it shows every memory that was there when it began; and unless one
\* came or left, it shows none twice, created_at ties included.
WalkIsExact ==
    walk.done =>
        /\ ~walk.lost /\ ~walk.split => walk.start \subseteq Range(walk.seen)
        /\ ~walk.lost /\ ~walk.gained => IsInjective(walk.seen)

\* Every storage call returns, also when the readers hold all connections and
\* each waits for a second one.
CallsReturn == \A p \in Callers : at[p] # "idle" ~> at[p] = "idle"
=============================================================================
