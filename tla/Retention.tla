------------------------------ MODULE Retention ------------------------------
(***************************************************************************)
(* The forgetting tick of crates/server/src/scheduler.rs with the decisions *)
(* of EbbinghausForgetter, run by the background scheduler and, with no    *)
(* lock between them, by every POST /v1/forget.  It shares the memories    *)
(* table with the clients and with the consolidation tick, each of which   *)
(* refreshes one or more of the timestamps retention is computed from.     *)
(*                                                                         *)
(* Timestamps are kept as ages, in a unit of time that may pass between    *)
(* any two calls; the ages stop at MaxAge, which stands for that old or    *)
(* older, so that ticks and time go on for ever in finitely many states.   *)
(* The tick reads the clock once and lists the rows right after: a row is  *)
(* judged by its age then, or as new when it was accessed since.           *)
(***************************************************************************)
EXTENDS Integers, Sequences

CONSTANTS
    Ids,
    Ticks,            \* executions of the tick: the scheduler's, the HTTP ones
    NoRow,
    BatchSize,        \* forgetting.batch_size
    ArchiveDays,      \* forgetting.archive_days
    PurgeDays,        \* forgetting.purge_invalidated_days
    Retained,         \* Retained[age]: weight times decay
    Bonus,            \* Bonus[n]: the access bonus after n accesses
    ToL1, ToL0, ToArchive, ToUpgrade,   \* thresholds, scaled as weights are
    MinAccess,        \* forgetting.upgrade_min_access_count
    MaxAge,           \* bound: ages from here on are one
    MaxCount,         \* bound: access counts from here on are one
    MaxWrites,        \* bound: calls by clients and the consolidation tick
    MaxFaults         \* bound: failed calls and cut-off ticks

Ages == 0..MaxAge

\* Full = 2, Summary = 1, Title = 0, Archived = -1.
Levels == -1..2

Valid == -1     \* invalid_at IS NULL

Row == [ level   : Levels,
         idle    : Ages,                 \* now - accessed_at
         still   : Ages,                 \* now - updated_at
         count   : 0..MaxCount,          \* access_count
         invalid : Ages \cup {Valid} ]   \* now - invalid_at

\* What Config::validate makes of the thresholds, and a curve that decays.
ASSUME RetentionAssumption ==
    /\ NoRow \notin Row
    /\ MaxAge \in Nat /\ MaxCount \in Nat
    /\ BatchSize \in Nat \ {0}
    /\ ArchiveDays \in Nat /\ PurgeDays \in Nat
    /\ Retained \in [Ages -> Nat] /\ Bonus \in [0..MaxCount -> Nat]
    /\ \A m, n \in Ages : m <= n => Retained[n] <= Retained[m]
    /\ {ToL1, ToL0, ToArchive, ToUpgrade, MinAccess} \subseteq Nat
    /\ ToUpgrade > ToL1
    /\ MaxWrites \in Nat /\ MaxFaults \in Nat

VARIABLES
    rows,         \* the memories table
    issued,       \* ids handed out: a uuid is never used twice
    pc,           \* where each tick is
    queue,        \* rows listed and not read yet, with their age by the tick's now
    batch,        \* the decisions on the rows read, those to keep left out
    archived_for, \* history: time since the row was last put to level -1
    fallen,       \* history: ids a tick chose to demote, not accessed since
    writes,       \* counts calls of others, up to MaxWrites
    faults        \* counts failures, up to MaxFaults

local   == <<pc, queue, batch>>
history == <<archived_for, fallen>>
vars    == <<rows, issued, local, history, writes, faults>>

Present(id) == rows[id] # NoRow

Older(age) == IF age = MaxAge THEN MaxAge ELSE age + 1

-----------------------------------------------------------------------------
(* EbbinghausForgetter.                                                    *)

\* compute_weight
Weight(m) == Retained[m.idle] * Bonus[m.count]

\* Mutant of Promotes: demand alone, without the bar on the weight.
PromotesByCount(m) == m.count >= MinAccess /\ m.level \in {0, 1}

Promotes(m) ==
    /\ m.count >= MinAccess
    /\ Weight(m) >= ToUpgrade
    /\ m.level \in {0, 1}

Demotes(m) ==
    \/ m.level = 2 /\ Weight(m) < ToL1
    \/ m.level = 1 /\ Weight(m) < ToL0

\* decide: the level to write, or none to keep the row as it is.
Decide(m) ==
    IF Weight(m) < ToArchive THEN {-1}
    ELSE IF Promotes(m) THEN {m.level + 1}
    ELSE IF Demotes(m) THEN {m.level - 1}
    ELSE {}

-----------------------------------------------------------------------------
(* Time, clients and the consolidation tick.                               *)

CountWrite == writes < MaxWrites /\ writes' = writes + 1

Pass ==
    /\ rows' = [id \in Ids |->
           IF Present(id)
           THEN [rows[id] EXCEPT !.idle = Older(@), !.still = Older(@),
                                 !.invalid = IF @ = Valid THEN Valid ELSE Older(@)]
           ELSE NoRow]
    /\ archived_for' = [id \in Ids |-> Older(archived_for[id])]
    /\ UNCHANGED <<issued, local, fallen, writes, faults>>

\* POST /v1/write
Insert(id) ==
    /\ CountWrite
    /\ id \notin issued
    /\ issued' = issued \cup {id}
    /\ rows' = [rows EXCEPT ![id] = [level |-> 2, idle |-> 0, still |-> 0,
                                     count |-> 0, invalid |-> Valid]]
    /\ UNCHANGED <<local, history, faults>>

\* update_access for a row that was served, which may be hidden by now; a tick
\* whose clock is behind takes it for just accessed.
Access(id) ==
    /\ CountWrite
    /\ Present(id)
    /\ rows' = [rows EXCEPT ![id].idle = 0,
                            ![id].count = IF @ = MaxCount THEN @ ELSE @ + 1]
    /\ queue' = [t \in Ticks |-> [i \in DOMAIN queue[t] |->
                    IF queue[t][i].id = id THEN [queue[t][i] EXCEPT !.idle = 0]
                    ELSE queue[t][i]]]
    /\ fallen' = fallen \ {id}
    /\ UNCHANGED <<issued, pc, batch, archived_for, faults>>

\* update_memory, update_abstract, update_importance: by id, on any row.
Touch(id) ==
    /\ CountWrite
    /\ Present(id)
    /\ rows' = [rows EXCEPT ![id].still = 0]
    /\ UNCHANGED <<issued, local, history, faults>>

\* invalidate_memory: the first one wins.
Invalidate(id) ==
    /\ CountWrite
    /\ Present(id)
    /\ rows[id].invalid = Valid
    /\ rows' = [rows EXCEPT ![id].invalid = 0, ![id].still = 0]
    /\ UNCHANGED <<issued, local, history, faults>>

\* DELETE /v1/memory/{id}
Delete(id) ==
    /\ CountWrite
    /\ Present(id)
    /\ rows' = [rows EXCEPT ![id] = NoRow]
    /\ UNCHANGED <<issued, local, history, faults>>

-----------------------------------------------------------------------------
(* The tick.                                                               *)

Goto(t, label) == pc' = [pc EXCEPT ![t] = label]

Fault == faults < MaxFaults /\ faults' = faults + 1

\* A storage call succeeds, or fails as often as MaxFaults allows.
Outcome(ok) == IF ok THEN faults' = faults ELSE Fault

\* Mutant of Listed: archived rows are listed too.
ListedArchived == {id \in Ids : Present(id) /\ rows[id].invalid = Valid}

Listed == {id \in Ids : /\ Present(id)
                        /\ rows[id].level >= 0
                        /\ rows[id].invalid = Valid}

\* list_forgetting_ids: the longest not accessed first, up to the LIMIT.
List(t) ==
    /\ pc[t] = "idle"
    /\ \E n \in 0..BatchSize : \E s \in [1..n -> Listed] :
        /\ \A i, j \in 1..n : i < j => s[i] # s[j] /\ rows[s[i]].idle >= rows[s[j]].idle
        /\ \A id \in Listed \ {s[i] : i \in 1..n} :
            /\ n = BatchSize
            /\ \A i \in 1..n : rows[s[i]].idle >= rows[id].idle
        /\ queue' = [queue EXCEPT ![t] =
                [i \in 1..n |-> [id |-> s[i], idle |-> rows[s[i]].idle]]]
    /\ Goto(t, "read")
    /\ UNCHANGED <<rows, issued, batch, history, writes, faults>>

\* list_for_forgetting reads the rows one by one and does not filter them
\* again; the decision depends on what is read alone.
Read(t) ==
    /\ pc[t] = "read"
    /\ queue[t] # <<>>
    /\ LET id       == Head(queue[t]).id
           m        == [rows[id] EXCEPT !.idle = Head(queue[t]).idle]
           decision == IF Present(id) THEN Decide(m) ELSE {}
       IN  \/ /\ decision = {}
              /\ UNCHANGED <<batch, fallen>>
           \/ \E level \in decision :
                /\ batch' = [batch EXCEPT ![t] = Append(@, [id |-> id, level |-> level])]
                /\ fallen' = IF level < m.level THEN fallen \cup {id} ELSE fallen
    /\ queue' = [queue EXCEPT ![t] = Tail(@)]
    /\ UNCHANGED <<rows, issued, pc, archived_for, writes, faults>>

\* Either query of the listing fails: the tick goes on with no rows.
ListingFails(t) ==
    /\ pc[t] = "read"
    /\ Fault
    /\ queue' = [queue EXCEPT ![t] = <<>>]
    /\ batch' = [batch EXCEPT ![t] = <<>>]
    /\ Goto(t, "archived")
    /\ UNCHANGED <<rows, issued, history, writes>>

\* Mutant of WithLevel: updated_at stays as it was.
WithLevelOnly(id, level) == [rows EXCEPT ![id].level = level]

\* Mutant of WithLevel: the whole row as it was listed, which was valid.
WithRowListed(id, level) ==
    [rows EXCEPT ![id].level = level, ![id].still = 0, ![id].invalid = Valid]

\* update_level: by id, whatever became of the row since it was read.
WithLevel(id, level) == [rows EXCEPT ![id].level = level, ![id].still = 0]

\* The decision on the next row; no affected row is not an error.
Apply(t, ok) ==
    /\ pc[t] = "read"
    /\ queue[t] = <<>>
    /\ batch[t] # <<>>
    /\ Outcome(ok)
    /\ batch' = [batch EXCEPT ![t] = Tail(@)]
    /\ LET id    == Head(batch[t]).id
           level == Head(batch[t]).level
       IN  IF ok /\ Present(id)
           THEN /\ rows' = WithLevel(id, level)
                /\ archived_for' = [archived_for EXCEPT ![id] =
                        IF level = -1 /\ rows[id].level # -1 THEN 0 ELSE @]
           ELSE UNCHANGED <<rows, archived_for>>
    /\ UNCHANGED <<issued, pc, queue, fallen, writes>>

Applied(t) ==
    /\ pc[t] = "read"
    /\ queue[t] = <<>> /\ batch[t] = <<>>
    /\ Goto(t, "archived")
    /\ UNCHANGED <<rows, issued, queue, batch, history, writes, faults>>

Without(ids) == [id \in Ids |-> IF id \in ids THEN NoRow ELSE rows[id]]

\* delete_archived_older_than
DeleteArchived(t, ok) ==
    /\ pc[t] = "archived"
    /\ Outcome(ok)
    /\ rows' = IF ok
               THEN Without({id \in Ids : /\ Present(id)
                                          /\ rows[id].level = -1
                                          /\ rows[id].still > ArchiveDays})
               ELSE rows
    /\ Goto(t, "invalid")
    /\ UNCHANGED <<issued, queue, batch, history, writes>>

\* purge_invalidated_older_than, even when nothing was listed.
PurgeInvalidated(t, ok) ==
    /\ pc[t] = "invalid"
    /\ Outcome(ok)
    /\ rows' = IF ok
               THEN Without({id \in Ids : /\ Present(id)
                                          /\ rows[id].invalid # Valid
                                          /\ rows[id].invalid > PurgeDays})
               ELSE rows
    /\ Goto(t, "idle")
    /\ UNCHANGED <<issued, queue, batch, history, writes>>

\* The process dies, or the future of POST /v1/forget is dropped.
Abort(t) ==
    /\ pc[t] # "idle"
    /\ Fault
    /\ queue' = [queue EXCEPT ![t] = <<>>]
    /\ batch' = [batch EXCEPT ![t] = <<>>]
    /\ Goto(t, "idle")
    /\ UNCHANGED <<rows, issued, history, writes>>

-----------------------------------------------------------------------------
Init ==
    /\ issued \in SUBSET Ids
    /\ rows = [id \in Ids |->
                   IF id \in issued
                   THEN [level |-> 2, idle |-> 0, still |-> 0, count |-> 0,
                         invalid |-> Valid]
                   ELSE NoRow]
    /\ pc = [t \in Ticks |-> "idle"]
    /\ queue = [t \in Ticks |-> <<>>]
    /\ batch = [t \in Ticks |-> <<>>]
    /\ archived_for = [id \in Ids |-> 0]
    /\ fallen = {}
    /\ writes = 0
    /\ faults = 0

Outside == \E id \in Ids :
    Insert(id) \/ Access(id) \/ Touch(id) \/ Invalidate(id) \/ Delete(id)

\* A call of the tick, failing or not.
Step(t) ==
    \/ List(t) \/ Read(t) \/ ListingFails(t) \/ Applied(t)
    \/ \E ok \in BOOLEAN :
        Apply(t, ok) \/ DeleteArchived(t, ok) \/ PurgeInvalidated(t, ok)

Next == Pass \/ Outside \/ \E t \in Ticks : Step(t) \/ Abort(t)

Spec == Init /\ [][Next]_vars

\* Time passes, and the interval of the scheduler starts a tick again and again
\* and drives it on; failures and clients only happen.
FairSpec == Spec /\ WF_vars(Pass) /\ \A t \in Ticks : WF_vars(Step(t))

-----------------------------------------------------------------------------
\* The variables keep their types.
TypeOK ==
    /\ rows \in [Ids -> Row \cup {NoRow}]
    /\ issued \in SUBSET Ids
    /\ pc \in [Ticks -> {"idle", "read", "archived", "invalid"}]
    /\ queue \in [Ticks -> Seq([id : Ids, idle : Ages])]
    /\ batch \in [Ticks -> Seq([id : Ids, level : Levels])]
    /\ archived_for \in [Ids -> Ages]
    /\ fallen \in SUBSET Ids
    /\ writes \in Nat
    /\ faults \in Nat

\* Archiving is no deletion: a tick deletes an archived row only when it has
\* been archived for longer than archive_days, however old it was before and
\* whoever archived it, never in the tick that archives it.
ArchiveIsGranted ==
    [][\A id \in Ids, t \in Ticks :
        pc[t] = "archived" /\ pc'[t] = "invalid" /\ Present(id) /\ ~Present(id)'
            => archived_for[id] > ArchiveDays]_vars

\* What has become of each memory.
Stage == [id \in Ids |->
            IF ~Present(id) THEN IF id \in issued THEN "deleted" ELSE "unborn"
            ELSE IF rows[id].invalid # Valid THEN "invalid"
            ELSE IF rows[id].level = -1 THEN "archived" ELSE "live"]

Memories == INSTANCE Lifecycle WITH status <- Stage

\* A tick that decides on a row it read earlier and purges many at a time, beside
\* another tick and clients, keeps to the contract the other components rely on.
KeepsLifecycle == Memories!Spec

\* Hysteresis: a memory a tick decided to demote rises again only after an
\* access that follows this decision, so that none oscillates on its own.
RisesOnlyOnDemand ==
    [][\A id \in Ids :
        Present(id) /\ Present(id)' /\ rows'[id].level > rows[id].level
            => id \notin fallen]_vars

\* "Archived rows never rise": they are on the physical-deletion countdown.
ArchivedNeverRises ==
    [][\A id \in Ids :
        Present(id) /\ rows[id].level = -1 /\ Present(id)'
            => rows'[id].level = -1]_vars

\* Invalidated memories stay auditable until purge_invalidated_days
\* hard-deletes them: no tick deletes one before.
AuditWindow ==
    [][\A id \in Ids, t \in Ticks :
        pc'[t] # pc[t] /\ Present(id) /\ rows[id].invalid # Valid /\ ~Present(id)'
            => rows[id].invalid > PurgeDays]_vars

\* Nothing is kept for ever: with no more demand, every memory is demoted,
\* archived and deleted, whatever stands before it in the listing.
EventuallyForgotten == \A id \in Ids : Present(id) ~> ~Present(id)
=============================================================================
