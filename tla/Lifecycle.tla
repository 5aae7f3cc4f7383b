----------------------------- MODULE Lifecycle ------------------------------
(***************************************************************************)
(* What may become of a memory, statement by statement: the contract every *)
(* writer of the memories table keeps, and all that a reader may assume of *)
(* the others.  Two ticks, clients and purges share the table with no lock,*)
(* so a statement must never write back what its caller read before.       *)
(***************************************************************************)
CONSTANT Ids

VARIABLE status

\* Archived: level = -1.  Invalid: invalid_at IS NOT NULL, whatever the level.
Status == {"unborn", "live", "archived", "invalid", "deleted"}

Stored == {"live", "archived", "invalid"}

\* INSERT of a fresh uuid, update_level and invalidate_memory.  The level goes
\* both ways: a tick may promote, by id alone, what another one has archived.
After(s) == CASE s = "unborn"   -> {"live"}
              [] s = "live"     -> {"archived", "invalid"}
              [] s = "archived" -> {"live", "invalid"}
              [] OTHER          -> {}

Change(id) == \E s \in After(status[id]) : status' = [status EXCEPT ![id] = s]

\* A client's DELETE, or a purge, which deletes many rows in one statement.
Remove(S) ==
    /\ \A id \in S : status[id] \in Stored
    /\ status' = [id \in Ids |-> IF id \in S THEN "deleted" ELSE status[id]]

Init == status \in [Ids -> Status]

Next == \/ \E id \in Ids : Change(id)
        \/ \E S \in SUBSET Ids : Remove(S)

Spec == Init /\ [][Next]_status
=============================================================================
