------------------------------ MODULE Migration ------------------------------
(***************************************************************************)
(* The opening of a database (SqliteStorage::new, LanceDbStorage::new and  *)
(* crates/storage/src/migration.rs): base DDL, then one transaction per    *)
(* schema version, each with its version bump.                             *)
(*                                                                         *)
(* A database may be new, of any older version, or bricked: left by the     *)
(* pre-transactional migrator with a part of a step committed and a stale   *)
(* version.  Processes (the server, the MCP server) open one file, each on  *)
(* its own, may stop anywhere and are started again; one that is ready     *)
(* writes while another still migrates.                                    *)
(***************************************************************************)
EXTENDS Integers, Sequences, FiniteSets

CONSTANTS
    Processes,
    Ids,        \* memories
    Stored,     \* bound: the ones an old database holds
    MaxStops,   \* bound: crashes and failed starts
    MaxWrites   \* bound: statements of ready processes

Current == 6    \* CURRENT_VERSION

ASSUME MigrationAssumption ==
    /\ IsFiniteSet(Processes) /\ Stored \subseteq Ids
    /\ MaxStops \in Nat /\ MaxWrites \in Nat

-----------------------------------------------------------------------------
(* The schema.                                                             *)

Triggers == {"insert_trigger", "delete_trigger", "update_trigger"}

\* What the step to version n leaves behind, whatever it found.
Provides(n) ==
    CASE n = 2 -> {"fts"} \cup Triggers
      [] n = 3 -> {"namespace", "idx_namespace"}
      [] n = 4 -> {"importance", "idx_importance"}
      [] n = 5 -> {"valid_at", "invalid_at"}
      [] n = 6 -> {"absorptions", "invalidations"}
      [] OTHER -> {}

\* The columns an ALTER TABLE of the step adds.
ColumnsOf(n) ==
    CASE n = 3 -> {"namespace"}
      [] n = 4 -> {"importance"}
      [] n = 5 -> {"valid_at", "invalid_at"}
      [] n = 6 -> {"absorptions", "invalidations"}
      [] OTHER -> {}

Objects == {"base", "idx_invalid_at"} \cup UNION {Provides(n) : n \in 2..Current}

\* A new database has the audit columns from the base DDL.
BaseObjects == {"base", "absorptions", "invalidations"}

\* The statements of a step as the pre-transactional migrator committed them.
Script(n) ==
    CASE n = 2 -> <<"fts", "insert_trigger", "delete_trigger", "update_trigger",
                    "backfill_fts">>
      [] n = 3 -> <<"namespace", "idx_namespace">>
      [] n = 4 -> <<"importance", "idx_importance">>
      [] n = 5 -> <<"valid_at", "backfill_valid_at", "invalid_at", "idx_invalid_at">>
      [] n = 6 -> <<"absorptions", "invalidations">>

VARIABLES
    schema,     \* tables, columns, indexes and triggers of the file
    version,    \* merkur_meta.schema_version, 0 without a row
    present,    \* memories with a row
    entries,    \* entries of a memory in the full-text index
    stamped,    \* memories whose valid_at is not NULL
    at,         \* where each process is
    read,       \* the version it works from
    stops, writes,
    unhealed    \* history: rows of a database bricked between valid_at and its backfill

file   == <<schema, version, present, entries, stamped>>
vars   == <<file, at, read, stops, writes, unhealed>>

-----------------------------------------------------------------------------
(* Opening.                                                                *)

Goto(p, label) == at' = [at EXCEPT ![p] = label]

\* The unconditional DDL: CREATE ... IF NOT EXISTS.
CreateBase(p) ==
    /\ at[p] = "down"
    /\ schema' = IF "base" \in schema THEN schema ELSE schema \cup BaseObjects
    /\ Goto(p, "opened")
    /\ UNCHANGED <<version, present, entries, stamped, read, stops, writes, unhealed>>

StoredVersion == version

\* get_stored_version, outside any transaction.
ReadVersion(p) ==
    /\ at[p] = "opened"
    /\ read' = [read EXCEPT ![p] = StoredVersion]
    /\ Goto(p, IF StoredVersion >= Current THEN "ready" ELSE "migrating")
    /\ UNCHANGED <<file, stops, writes, unhealed>>

NextVersion(v) == IF v < 2 THEN 2 ELSE v + 1

Last(n) == n = Current

AltersAll(n) == ColumnsOf(n)  \* a bug: no has_column

\* ALTER TABLE is run for the columns has_column misses.
Alters(n) == ColumnsOf(n) \ schema

GainsAtOnce(n) ==  \* a bug: a step whose first column exists is skipped
    IF ColumnsOf(n) \subseteq Alters(n) THEN Provides(n) ELSE {}

\* The index on invalid_at is created only along with its column.
Gains(n) ==
    Provides(n) \cup (IF n = 5 /\ "invalid_at" \in Alters(n) THEN {"idx_invalid_at"} ELSE {})

UnindexedAll == present  \* a bug: the backfill indexes every row again

\* The backfill of the full-text index: rows not indexed yet.
Unindexed == {id \in present : entries[id] = 0}

\* valid_at is set from created_at where the step adds the column.
Backfilled(n) == IF n = 5 /\ "valid_at" \in Alters(n) THEN present ELSE stamped

\* migrate_step: the step and the version in one transaction.  An ALTER of an
\* existing column would fail it, and with it the start.
MigrateStep(p) ==
    LET n == NextVersion(read[p])
    IN  /\ at[p] = "migrating"
        /\ Alters(n) \cap schema = {}
        /\ schema' = schema \cup Gains(n)
        /\ entries' = [id \in Ids |-> IF n = 2 /\ id \in Unindexed
                                      THEN entries[id] + 1 ELSE entries[id]]
        /\ stamped' = Backfilled(n)
        /\ version' = n
        /\ read' = [read EXCEPT ![p] = n]
        /\ Goto(p, IF Last(n) THEN "ready" ELSE "migrating")
        /\ UNCHANGED <<present, stops, writes, unhealed>>

\* A crash, or a start that fails on a busy or failing file.
Stop(p) ==
    /\ at[p] # "down"
    /\ stops < MaxStops
    /\ stops' = stops + 1
    /\ Goto(p, "down")
    /\ UNCHANGED <<file, read, writes, unhealed>>

-----------------------------------------------------------------------------
(* Service.                                                                *)

Serve(p) ==
    /\ at[p] = "ready"
    /\ writes < MaxWrites
    /\ writes' = writes + 1
    /\ UNCHANGED <<schema, version, at, read, stops, unhealed>>

\* An INSERT names the migrated columns.
Insert(p, id) ==
    /\ Serve(p)
    /\ {"namespace", "valid_at"} \subseteq schema
    /\ id \notin present
    /\ present' = present \cup {id}
    /\ stamped' = stamped \cup {id}
    /\ entries' = IF "insert_trigger" \in schema
                  THEN [entries EXCEPT ![id] = @ + 1] ELSE entries

UpdateContent(p, id) ==
    /\ Serve(p)
    /\ id \in present
    /\ entries' = IF "update_trigger" \in schema
                  THEN [entries EXCEPT ![id] = 1] ELSE entries
    /\ UNCHANGED <<present, stamped>>

Delete(p, id) ==
    /\ Serve(p)
    /\ id \in present
    /\ present' = present \ {id}
    /\ stamped' = stamped \ {id}
    /\ entries' = IF "delete_trigger" \in schema
                  THEN [entries EXCEPT ![id] = 0] ELSE entries

-----------------------------------------------------------------------------
\* The first k statements of the step to version n.
Partial(n, k) == {Script(n)[i] : i \in 1..k}

\* A database of version v and the statements done of the step to the next.
Old(v, done) ==
    LET next == NextVersion(v)
    IN  /\ version = v
        /\ schema = {"base"} \cup (UNION {Provides(n) : n \in 2..v}) \cup (done \cap Objects)
                       \cup (IF v >= 5 THEN {"idx_invalid_at"} ELSE {})
        /\ present = Stored
        /\ entries = [id \in Ids |-> IF id \in Stored /\ (v >= 2 \/ "backfill_fts" \in done)
                                     THEN 1 ELSE 0]
        /\ stamped = IF v >= 5 \/ "backfill_valid_at" \in done THEN Stored ELSE {}
        /\ unhealed = IF "valid_at" \in done /\ "backfill_valid_at" \notin done
                      THEN Stored ELSE {}

New ==
    /\ version = 0 /\ schema = {} /\ present = {}
    /\ entries = [id \in Ids |-> 0] /\ stamped = {} /\ unhealed = {}

Init ==
    /\ \/ New
       \/ Old(Current, {})
       \/ \E v \in 0..(Current - 1) :
            \E k \in 0..Len(Script(NextVersion(v))) : Old(v, Partial(NextVersion(v), k))
    /\ at = [p \in Processes |-> "down"]
    /\ read = [p \in Processes |-> 0]
    /\ stops = 0 /\ writes = 0

Open(p) == CreateBase(p) \/ ReadVersion(p) \/ MigrateStep(p)

Next ==
    \E p \in Processes :
        \/ Open(p) \/ Stop(p)
        \/ \E id \in Ids : Insert(p, id) \/ UpdateContent(p, id) \/ Delete(p, id)

Spec == Init /\ [][Next]_vars

\* A stopped process is started again, a started one runs.
FairSpec == Spec /\ \A p \in Processes : WF_vars(Open(p))

-----------------------------------------------------------------------------
(* Properties.                                                             *)

\* Types.  A process works from a version below the current one until it is ready.
TypeOK ==
    /\ schema \subseteq Objects
    /\ version \in 0..Current
    /\ present \subseteq Ids /\ stamped \subseteq present /\ unhealed \subseteq Ids
    /\ entries \in [Ids -> Nat]
    /\ at \in [Processes -> {"down", "opened", "migrating", "ready"}]
    /\ read \in [Processes -> 0..Current]
    /\ \A p \in Processes : at[p] = "migrating" => read[p] < Current
    /\ stops \in 0..MaxStops /\ writes \in 0..MaxWrites

\* The recorded version is never ahead of the schema, wherever a process stops
\* and although a second one may write a lower version over it.
VersionIsEarned ==
    /\ \A n \in 2..version : Provides(n) \subseteq schema
    /\ version > 0 => "base" \in schema

\* A process that serves has every table, column and trigger its statements
\* name, also when it was ready before another process had migrated.
ReadyCanServe ==
    \A p \in Processes : at[p] = "ready" =>
        /\ "base" \in schema
        /\ \A n \in 2..Current : Provides(n) \subseteq schema

\* Once the index exists every memory is in it exactly once, and nothing else:
\* backfills of two processes, replays and writes in between do not double or
\* lose an entry.
IndexedOnce ==
    version >= 2 => \A id \in Ids : entries[id] = IF id \in present THEN 1 ELSE 0

\* From version 5 on every row has valid_at, but for the rows of a database
\* bricked between the column and its backfill, which the replay skips by the
\* column (the read path falls back to created_at).
StampedFromFive == version >= 5 => present \subseteq stamped \cup unhealed

\* Every database heals on boot: whatever was committed of a step, and wherever
\* the processes stop, they end up serving at the current version
\* (CHANGELOG.md:57).
BootsAtLast == <>[](version = Current /\ \A p \in Processes : at[p] = "ready")
=============================================================================
