--------------------------- MODULE DualStoreProofs ---------------------------
(***************************************************************************)
(* Proofs about DualStore: what an insert promises over two stores without *)
(* a common transaction, for any number of memories, callers and failures, *)
(* and what a search finds in the vectors table before an index is built.  *)
(***************************************************************************)
EXTENDS DualStore, FiniteSetTheorems, FunctionTheorems, TLAPS

\* An insert, or a dedup write that may still become one, with its id drawn.
Pending(p) == at[p] # "idle" /\ job[p] \in {"insert", "dedup"}

\* Only an insert commits, adds and rolls back; what is added is a vector.
Places ==
    \A p \in Callers :
        /\ at[p] = "commit" => job[p] \in {"insert", "dedup"}
        /\ at[p] \in {"add", "rollback"} => job[p] = "insert"
        /\ job[p] = "insert" /\ at[p] \in {"open", "add"} => vec[p] \in Vectors

\* A row, a vector or an outcome stands only under an id that was drawn.
Drawn ==
    /\ \A e \in table : e.id \in issued
    /\ \A id \in Ids : Present(id) \/ fate[id] # "none" => id \in issued

\* The id of a pending insert is its own: no vector, no outcome, no other
\* insert has it.
Own ==
    \A p \in Callers : Pending(p) =>
        /\ arg[p] \in issued
        /\ fate[arg[p]] = "none"
        /\ \A e \in table : e.id # arg[p]
        /\ \A q \in Callers \ {p} : Pending(q) => arg[q] # arg[p]

Safe == Places /\ Drawn /\ Own /\ OneVectorPerId /\ AcknowledgedHasVector
                                               /\ RowsAccountedFor

IInv == TypeOK /\ Safe

-----------------------------------------------------------------------------
(* Operators.                                                              *)

\* The rule refuses the generated ids, for the letter their prefix begins with.
LEMMA Refused == ~QuoteAccepts(GeneratedChars)
BY DEF QuoteAccepts, GeneratedChars, HexDigits

LEMMA NearestIsPart ==
    ASSUME NEW S, NEW k, NEW score, NEW T \in Nearest(S, k, score)
    PROVE  T \subseteq S
BY DEF Nearest

-----------------------------------------------------------------------------
(* Types.                                                                  *)

Labels == {"idle", "commit", "open", "add", "rollback", "unlink", "nearest",
            "fetch", "fetched"}

\* The part of TypeOK about the callers' locals, and the other part.
LocalTypes ==
    /\ job \in [Callers -> Jobs]
    /\ arg \in [Callers -> Ids \cup {NoId}]
    /\ vec \in [Callers -> Vectors \cup {NoVector}]
    /\ victims \in [Callers -> SUBSET Ids]
    /\ bucket \in [Callers -> Namespaces \cup {NoId}]
    /\ fetch \in [Callers -> Nat]
    /\ hits \in [Callers -> SUBSET Entry]
    /\ exhausted \in [Callers -> BOOLEAN]

StoreTypes ==
    /\ rows \in [Ids -> {"absent", "live", "hidden"}]
    /\ issued \in SUBSET Ids
    /\ table \in SUBSET Entry
    /\ indexed \in BOOLEAN
    /\ builder \in {"none", "count", "create"} /\ building \in BOOLEAN
    /\ at \in [Callers -> Labels]
    /\ began \in Nat /\ faults \in Nat
    /\ fate \in [Ids -> {"none", "stored", "plain", "stranded"}]
    /\ undisturbed \in SUBSET Callers

LEMMA Parts == TypeOK <=> LocalTypes /\ StoreTypes
BY DEF TypeOK, LocalTypes, StoreTypes, Labels

CallRecord == [job : Jobs, arg : Ids \cup {NoId}, vec : Vectors \cup {NoVector},
               victims : SUBSET Ids, bucket : Namespaces \cup {NoId}, fetch : Nat]

LEMMA CallTypes ==
    ASSUME LocalTypes, NEW p \in Callers, NEW c \in CallRecord, Call(p, c)
    PROVE  LocalTypes'
BY DEF LocalTypes, CallRecord, Call

LEMMA IdleRecord == Idle \in CallRecord
BY DEF Idle, CallRecord, Jobs

LEMMA FinishTypes ==
    ASSUME LocalTypes, NEW p \in Callers, Finish(p)
    PROVE  LocalTypes'
BY CallTypes, IdleRecord DEF Finish

LEMMA RequestTypes ==
    ASSUME TypeOK, NEW p \in Callers, Request(p)
    PROVE  TypeOK'
<1>. LocalTypes /\ StoreTypes
  BY Parts
<1>. SUFFICES LocalTypes' /\ StoreTypes'
  BY Parts DEF TypeOK, LocalTypes, StoreTypes, Labels
<1>n. 2 * Limit \in Nat /\ \A id \in Ids : NamespaceOf[id] \in Namespaces
  BY DualStoreAssumption DEF Namespaces
<1>1. ASSUME NEW id \in Ids, NEW v \in Vectors \cup {NoVector}, Insert(p, id, v)
      PROVE  LocalTypes' /\ StoreTypes'
  <2>1. [Idle EXCEPT !.job = "insert", !.arg = id, !.vec = v] \in CallRecord
    BY DEF Idle, CallRecord, Jobs
  <2>2. LocalTypes'
    BY <1>1, <2>1, CallTypes DEF Insert
  <2>. QED  BY <1>1, <2>2 DEF Insert, Begin, Fresh, Goto, StoreTypes, Labels, lance, build
<1>2. ASSUME NEW id \in Ids, NEW v \in Vectors \cup {NoVector}, Update(p, id, v)
      PROVE  LocalTypes' /\ StoreTypes'
  <2>1. [Idle EXCEPT !.job = "update", !.arg = id, !.vec = v, !.victims = {id}] \in CallRecord
    BY DEF Idle, CallRecord, Jobs
  <2>2. LocalTypes'
    BY <1>2, <2>1, CallTypes DEF Update
  <2>. QED  BY <1>2, <2>2 DEF Update, Begin, Goto, StoreTypes, Labels, lance, build
<1>3. ASSUME NEW id \in Ids, NEW v \in Vectors, InsertDedup(p, id, v)
      PROVE  LocalTypes' /\ StoreTypes'
  <2>1. [Idle EXCEPT !.job = "dedup", !.arg = id, !.vec = v,
                     !.bucket = NamespaceOf[id], !.fetch = 2] \in CallRecord
    BY <1>n DEF Idle, CallRecord, Jobs
  <2>2. LocalTypes'
    BY <1>3, <2>1, CallTypes DEF InsertDedup
  <2>. QED  BY <1>3, <2>2 DEF InsertDedup, Begin, Fresh, Goto, StoreTypes, Labels, lance, build
<1>4. ASSUME NEW id \in Ids, Delete(p, id)
      PROVE  LocalTypes' /\ StoreTypes'
  <2>1. [Idle EXCEPT !.job = "delete", !.victims = {id}] \in CallRecord
    BY DEF Idle, CallRecord, Jobs
  <2>2. LocalTypes'
    BY <1>4, <2>1, CallTypes DEF Delete
  <2>. QED  BY <1>4, <2>2 DEF Delete, Begin, Goto, StoreTypes, Labels, lance, build
<1>5. ASSUME NEW expired \in SUBSET Ids, Purge(p, expired)
      PROVE  LocalTypes' /\ StoreTypes'
  <2>1. [Idle EXCEPT !.job = "purge", !.victims = expired] \in CallRecord
    BY DEF Idle, CallRecord, Jobs
  <2>2. LocalTypes'
    BY <1>5, <2>1, CallTypes DEF Purge
  <2>. QED  BY <1>5, <2>2 DEF Purge, Begin, Goto, StoreTypes, Labels, lance, build
<1>6. ASSUME NEW q \in Vectors, NEW ns \in Namespaces, Search(p, q, ns)
      PROVE  LocalTypes' /\ StoreTypes'
  <2>1. [Idle EXCEPT !.vec = q, !.bucket = ns, !.fetch = 2 * Limit] \in CallRecord
    BY <1>n DEF Idle, CallRecord, Jobs
  <2>2. LocalTypes'
    BY <1>6, <2>1, CallTypes DEF Search
  <2>. QED  BY <1>6, <2>2 DEF Search, Begin, Goto, StoreTypes, Labels, lance, build
<1>. QED  BY <1>1, <1>2, <1>3, <1>4, <1>5, <1>6 DEF Request

LEMMA SpawnTypes ==
    ASSUME StoreTypes, SpawnBuilder
    PROVE  builder' \in {"none", "count", "create"} /\ building' \in BOOLEAN
BY DEF StoreTypes, SpawnBuilder, build

LEMMA StepTypes ==
    ASSUME TypeOK, Places, Own, NEW p \in Callers, Step(p)
    PROVE  TypeOK'
<1>. LocalTypes /\ StoreTypes
  BY Parts
<1>. SUFFICES LocalTypes' /\ StoreTypes'
  BY Parts DEF TypeOK, LocalTypes, StoreTypes, Labels
<1>1. CASE CommitRow(p)
  <2>. undisturbed' \in SUBSET Callers /\ rows' \in [Ids -> {"absent", "live", "hidden"}]
    BY <1>1 DEF CommitRow, StoreTypes
  <2>1. CASE Embedded(p)
    <3>1. [Idle EXCEPT !.job = "insert", !.arg = arg[p], !.vec = vec[p]] \in CallRecord
      BY DEF Idle, CallRecord, Jobs, LocalTypes
    <3>2. LocalTypes'
      BY <1>1, <2>1, <3>1, CallTypes DEF CommitRow
    <3>. QED  BY <1>1, <2>1, <3>2 DEF CommitRow, Goto, StoreTypes, Labels, lance, build, bounds
  <2>2. CASE ~Embedded(p)
    <3>1. LocalTypes'
      BY <1>1, <2>2, FinishTypes DEF CommitRow, Acknowledge
    <3>2. at' \in [Callers -> Labels] /\ fate' \in [Ids -> {"none", "stored", "plain", "stranded"}]
      BY <1>1, <2>2 DEF CommitRow, Acknowledge, WithFate, Finish, Goto, StoreTypes, Labels
    <3>. QED  BY <1>1, <2>2, <3>1, <3>2, SpawnTypes DEF CommitRow, Acknowledge, StoreTypes, lance, bounds
  <2>. QED  BY <2>1, <2>2
<1>2. CASE OpenTable(p)
  BY <1>2 DEF OpenTable, Goto, LocalTypes, StoreTypes, Labels, lance, build, local, bounds
<1>3. CASE AddVector(p)
  <2>1. job[p] = "insert" /\ vec[p] \in Vectors /\ Pending(p)
    BY <1>3 DEF AddVector, Places, Pending
  <2>2. arg[p] \in Ids
    BY <2>1 DEF Own, StoreTypes
  <2>3. Acknowledge(p, "stored")
    BY <1>3, <2>1 DEF AddVector
  <2>4. LocalTypes'
    BY <2>3, FinishTypes DEF Acknowledge
  <2>5. table' \in SUBSET Entry
    BY <1>3, <2>1, <2>2 DEF AddVector, Entry, StoreTypes
  <2>6. at' \in [Callers -> Labels] /\ fate' \in [Ids -> {"none", "stored", "plain", "stranded"}]
    BY <2>3 DEF Acknowledge, WithFate, Finish, Goto, StoreTypes, Labels
  <2>. QED  BY <1>3, <2>3, <2>4, <2>5, <2>6, SpawnTypes DEF AddVector, Acknowledge, StoreTypes, bounds
<1>4. CASE Rollback(p)
  <2>1. LocalTypes'
    BY <1>4, FinishTypes DEF Rollback
  <2>. QED  BY <1>4, <2>1 DEF Rollback, WithoutRow, Finish, Goto, StoreTypes, Labels, lance, build, bounds
<1>5. CASE Unlink(p)
  <2>1. Finish(p) /\ UNCHANGED <<table, undisturbed>>
    BY <1>5, Refused DEF Unlink
  <2>2. LocalTypes'
    BY <2>1, FinishTypes
  <2>. QED  BY <1>5, <2>1, <2>2 DEF Unlink, Finish, Goto, StoreTypes, Labels, build, bounds
<1>6. CASE Candidates(p)
  <2>0. PICK probed \in SUBSET table :
            \E near \in Nearest(probed, fetch[p], Scores(vec[p])) :
                /\ hits' = [hits EXCEPT ![p] = near]
                /\ exhausted' = [exhausted EXCEPT
                        ![p] = Cardinality({e.id : e \in near}) < fetch[p]]
    BY <1>6 DEF Candidates
  <2>1. PICK near \in Nearest(probed, fetch[p], Scores(vec[p])) :
            /\ hits' = [hits EXCEPT ![p] = near]
            /\ exhausted' = [exhausted EXCEPT
                    ![p] = Cardinality({e.id : e \in near}) < fetch[p]]
    BY <2>0
  <2>2. near \in SUBSET Entry
    BY NearestIsPart DEF StoreTypes
  <2>. QED  BY <1>6, <2>1, <2>2 DEF Candidates, Goto, LocalTypes, StoreTypes, Labels, lance, build, bounds
<1>7. CASE FetchRows(p)
  <2>1. Fetched(p) \in SUBSET Entry
    BY DEF Fetched, LocalTypes
  <2>. QED  BY <1>7, <2>1 DEF FetchRows, Deeper, Goto, LocalTypes, StoreTypes, Labels, lance, build, bounds
<1>8. CASE Return(p)
  <2>1. LocalTypes'
    BY <1>8, FinishTypes DEF Return, local, LocalTypes
  <2>. QED  BY <1>8, <2>1 DEF Return, Finish, Goto, StoreTypes, Labels, lance, build, bounds
<1>. QED  BY <1>1, <1>2, <1>3, <1>4, <1>5, <1>6, <1>7, <1>8 DEF Step

\* What a failed call makes of its operation: the next attempt, the rollback,
\* a stranded row, or an error.
CallOutcome(p) ==
    \/ /\ job[p] = "dedup" /\ at[p] \in {"open", "nearest", "fetch", "fetched"}
       /\ Goto(p, "commit") /\ UNCHANGED <<local, fate>>
    \/ /\ job[p] = "insert" /\ at[p] = "add"
       /\ Goto(p, "rollback") /\ UNCHANGED <<local, fate>>
    \/ /\ job[p] = "insert" /\ at[p] \in {"open", "rollback"}
       /\ Finish(p) /\ WithFate(p, "stranded")
    \/ /\ ~Halfway(p) /\ at[p] # "idle"
       /\ Finish(p) /\ UNCHANGED fate

LEMMA CallOutcomes ==
    ASSUME NEW p \in Callers, CallFails(p)
    PROVE  CallOutcome(p)
<1>1. CASE job[p] = "dedup" /\ at[p] \in {"open", "nearest", "fetch", "fetched"}
  BY <1>1 DEF CallFails, CallOutcome
<1>2. CASE job[p] = "insert" /\ at[p] = "add"
  BY <1>2 DEF CallFails, CallOutcome
<1>3. CASE job[p] = "insert" /\ at[p] \in {"open", "rollback"}
  BY <1>3 DEF CallFails, CallOutcome
<1>4. CASE at[p] = "idle"
  BY <1>4 DEF CallFails
<1>5. CASE /\ ~(job[p] = "dedup" /\ at[p] \in {"open", "nearest", "fetch", "fetched"})
           /\ ~(job[p] = "insert" /\ at[p] \in {"open", "add", "rollback"})
           /\ at[p] # "idle"
  BY <1>5 DEF CallFails, CallOutcome, Halfway
<1>. QED  BY <1>1, <1>2, <1>3, <1>4, <1>5

\* Failures, the builder's task and what happens outside.
LEMMA FailureTypes ==
    ASSUME TypeOK, Own, NEW p \in Callers,
           CallFails(p) \/ HangUp(p) \/ HangUpCommitting(p)
    PROVE  TypeOK'
<1>. LocalTypes /\ StoreTypes
  BY Parts
<1>. SUFFICES LocalTypes' /\ StoreTypes'
  BY Parts DEF TypeOK, LocalTypes, StoreTypes, Labels
<1>1. CASE CallFails(p)
  <2>1. CallOutcome(p)
    BY <1>1, CallOutcomes
  <2>2. LocalTypes' /\ at' \in [Callers -> Labels]
    <3>1. CASE Finish(p)
      BY <3>1, FinishTypes DEF Finish, Goto, StoreTypes, Labels
    <3>2. CASE UNCHANGED local /\ (Goto(p, "commit") \/ Goto(p, "rollback"))
      BY <3>2 DEF LocalTypes, local, Goto, StoreTypes, Labels
    <3>. QED  BY <2>1, <3>1, <3>2 DEF CallOutcome
  <2>3. fate' \in [Ids -> {"none", "stored", "plain", "stranded"}]
    BY <2>1 DEF CallOutcome, WithFate, StoreTypes
  <2>. QED  BY <1>1, <2>2, <2>3 DEF CallFails, Fault, StoreTypes, lance, build
<1>2. CASE HangUp(p)
  <2>1. LocalTypes'
    BY <1>2, FinishTypes DEF HangUp
  <2>. QED  BY <1>2, <2>1 DEF HangUp, Fault, WithFate, Finish, Goto, StoreTypes, Labels, lance, build
<1>3. CASE HangUpCommitting(p)
  <2>1. LocalTypes'
    BY <1>3, FinishTypes DEF HangUpCommitting
  <2>2. at' \in [Callers -> Labels]
    BY <1>3 DEF HangUpCommitting, Finish, Goto, StoreTypes, Labels
  <2>3. fate' \in [Ids -> {"none", "stored", "plain", "stranded"}]
    BY <1>3 DEF HangUpCommitting, WithFate, StoreTypes
  <2>4. rows' \in [Ids -> {"absent", "live", "hidden"}]
    BY <1>3 DEF HangUpCommitting, StoreTypes
  <2>5. UNCHANGED <<lance, issued, build, began>> /\ faults' = faults + 1 /\ undisturbed' = {}
    BY <1>3 DEF HangUpCommitting, Fault
  <2>. QED  BY <2>1, <2>2, <2>3, <2>4, <2>5 DEF StoreTypes, lance, build
<1>. QED  BY <1>1, <1>2, <1>3

Outside == (\E id \in Ids : SetStatus(id)) \/ Count \/ CreateIndex \/ BuildFails

LEMMA OutsideTypes ==
    ASSUME TypeOK, Outside
    PROVE  TypeOK'
<1>. LocalTypes /\ StoreTypes
  BY Parts
<1>. SUFFICES LocalTypes' /\ StoreTypes'
  BY Parts DEF TypeOK, LocalTypes, StoreTypes, Labels
<1>1. ASSUME NEW id \in Ids, SetStatus(id) PROVE LocalTypes' /\ StoreTypes'
  BY <1>1 DEF SetStatus, LocalTypes, StoreTypes, Labels, lance, build, local, bounds
<1>2. CASE Count
  BY <1>2 DEF Count, TooFew, LocalTypes, StoreTypes, Labels, lance, local, bounds
<1>3. CASE CreateIndex
  BY <1>3 DEF CreateIndex, LocalTypes, StoreTypes, Labels, local, bounds
<1>4. CASE BuildFails
  <2>1. UNCHANGED <<rows, issued, table, indexed, at, local, began, fate, undisturbed>>
        /\ faults' = faults + 1
    BY <1>4 DEF BuildFails, Fault, lance
  <2>2. builder' = "none" /\ building' = FALSE
    BY <1>4 DEF BuildFails
  <2>3. LocalTypes'
    BY <2>1 DEF LocalTypes, local
  <2>4. faults' \in Nat
    BY <2>1 DEF StoreTypes
  <2>5. building' \in BOOLEAN /\ builder' \in {"none", "count", "create"}
    BY <2>2
  <2>. QED  BY <2>1, <2>3, <2>4, <2>5 DEF StoreTypes
<1>. QED  BY <1>1, <1>2, <1>3, <1>4 DEF Outside

LEMMA RestartTypes ==
    ASSUME TypeOK, Restart
    PROVE  TypeOK'
<1>. LocalTypes /\ StoreTypes
  BY Parts
<1>. SUFFICES LocalTypes' /\ StoreTypes'
  BY Parts DEF TypeOK, LocalTypes, StoreTypes, Labels
<1>1. LocalTypes'
  BY DEF Restart, LocalTypes, Idle, Jobs
<1>2. fate' \in [Ids -> {"none", "stored", "plain", "stranded"}]
  BY DEF Restart, StoreTypes
<1>3. at' \in [Callers -> Labels]
  BY DEF Restart, Labels
<1>4. UNCHANGED <<table, indexed, began, rows, issued>> /\ faults' = faults + 1
  BY DEF Restart, Fault, lance
<1>5. builder' = "none" /\ building' = FALSE /\ undisturbed' = {}
  BY DEF Restart
<1>6. faults' \in Nat /\ undisturbed' \in SUBSET Callers
  BY <1>4, <1>5 DEF StoreTypes
<1>. QED  BY <1>1, <1>2, <1>3, <1>4, <1>5, <1>6 DEF StoreTypes

LEMMA StutterTypes ==
    ASSUME TypeOK, UNCHANGED vars
    PROVE  TypeOK'
BY DEF TypeOK, vars, lance, build, local, bounds

LEMMA InitTypes ==
    ASSUME Init
    PROVE  TypeOK
<1>1. table \in SUBSET Entry
  BY DualStoreAssumption DEF Init, Entry
<1>. QED  BY <1>1, DualStoreAssumption DEF Init, TypeOK, Idle, Jobs

-----------------------------------------------------------------------------
(* What a step leaves of the promise.                                      *)

\* A call sets the place and the locals of its caller and of nobody else.
LEMMA Called ==
    ASSUME TypeOK, NEW p \in Callers, NEW c, NEW label, Call(p, c), Goto(p, label)
    PROVE  /\ at'[p] = label /\ job'[p] = c.job /\ arg'[p] = c.arg /\ vec'[p] = c.vec
           /\ \A q \in Callers \ {p} :
                at'[q] = at[q] /\ job'[q] = job[q] /\ arg'[q] = arg[q] /\ vec'[q] = vec[q]
BY DEF TypeOK, Call, Goto

LEMMA Finished ==
    ASSUME TypeOK, NEW p \in Callers, Finish(p)
    PROVE  /\ at'[p] = "idle" /\ job'[p] = "search"
           /\ \A q \in Callers \ {p} :
                at'[q] = at[q] /\ job'[q] = job[q] /\ arg'[q] = arg[q] /\ vec'[q] = vec[q]
<1>1. Call(p, Idle) /\ Goto(p, "idle")
  BY DEF Finish
<1>2. Idle.job = "search"
  BY DEF Idle
<1>. QED  BY <1>1, <1>2, Called

LEMMA Moved ==
    ASSUME TypeOK, NEW p \in Callers, NEW label, Goto(p, label),
           UNCHANGED <<job, arg, vec>>
    PROVE  /\ at'[p] = label /\ job'[p] = job[p] /\ arg'[p] = arg[p] /\ vec'[p] = vec[p]
           /\ \A q \in Callers \ {p} :
                at'[q] = at[q] /\ job'[q] = job[q] /\ arg'[q] = arg[q] /\ vec'[q] = vec[q]
BY DEF TypeOK, Goto

\* The vectors stay, rows come only with an outcome that promises nothing, no
\* insert starts and none that stores a row stops without an outcome.
Frame ==
    /\ issued' = issued /\ table' = table
    /\ \A id \in Ids :
        \/ fate'[id] = fate[id]
        \/ fate'[id] \in {"plain", "stranded"} /\ id \in issued
    /\ \A id \in Ids :
        Present(id)' => \/ Present(id)
                        \/ fate'[id] \in {"plain", "stranded"} /\ id \in issued
    /\ \A p \in Callers :
        Pending(p)' => Pending(p) /\ arg'[p] = arg[p] /\ fate'[arg[p]] = fate[arg[p]]
    /\ \A p \in Callers :
        Halfway(p) /\ rows'[arg[p]] # "absent" /\ fate'[arg[p]] = "none"
            => Halfway(p)' /\ arg'[p] = arg[p]

LEMMA Framed ==
    ASSUME TypeOK, Safe, Frame, Places'
    PROVE  Safe'
<1>1. Drawn'
  BY DEF Drawn, Frame, Safe
<1>2. Own'
  BY DEF Own, Frame, Safe
<1>3. OneVectorPerId'
  BY DEF OneVectorPerId, Frame, Safe
<1>4. AcknowledgedHasVector'
  BY DEF AcknowledgedHasVector, Frame, Safe
<1>5. RowsAccountedFor'
  <2>. SUFFICES ASSUME NEW id \in Ids, Present(id)', fate'[id] = "none"
                PROVE  \E p \in Callers : Halfway(p)' /\ arg'[p] = id
    BY DEF RowsAccountedFor
  <2>1. Present(id) /\ fate[id] = "none"
    BY DEF Frame
  <2>2. PICK p \in Callers : Halfway(p) /\ arg[p] = id
    BY <2>1 DEF Safe, RowsAccountedFor
  <2>. QED  BY <2>2 DEF Frame, Present
<1>. QED  BY <1>1, <1>2, <1>3, <1>4, <1>5 DEF Safe

-----------------------------------------------------------------------------
(* The steps within the frame.                                             *)

\* An insert ends with an outcome that promises no vector.
LEMMA OutcomeFramed ==
    ASSUME TypeOK, Safe, NEW p \in Callers, Finish(p), Pending(p),
           WithFate(p, "stranded") \/ WithFate(p, "plain"),
           UNCHANGED <<issued, table>>,
           \A id \in Ids : Present(id)' => Present(id) \/ id = arg[p]
    PROVE  Safe'
<1>1. /\ at'[p] = "idle" /\ job'[p] = "search"
      /\ \A q \in Callers \ {p} :
            at'[q] = at[q] /\ job'[q] = job[q] /\ arg'[q] = arg[q] /\ vec'[q] = vec[q]
  BY Finished
<1>2. Places'
  BY <1>1 DEF Places, Safe
<1>3. arg[p] \in issued /\ arg[p] \in Ids
  BY DEF Own, Safe, TypeOK
<1>4. /\ fate'[arg[p]] \in {"plain", "stranded"}
      /\ \A id \in Ids \ {arg[p]} : fate'[id] = fate[id]
  BY <1>3 DEF WithFate, TypeOK
<1>5. ASSUME NEW q \in Callers, Pending(q)'
      PROVE  Pending(q) /\ arg'[q] = arg[q] /\ fate'[arg[q]] = fate[arg[q]]
  <2>1. q # p /\ Pending(q) /\ arg'[q] = arg[q]
    BY <1>1, <1>5 DEF Pending
  <2>2. arg[p] # arg[q] /\ arg[q] \in Ids
    BY <2>1 DEF Own, Safe, TypeOK
  <2>. QED  BY <1>4, <2>1, <2>2
<1>6. \A q \in Callers : Halfway(q) /\ rows'[arg[q]] # "absent" /\ fate'[arg[q]] = "none"
                            => Halfway(q)' /\ arg'[q] = arg[q]
  BY <1>1, <1>4 DEF Halfway
<1>7. \A id \in Ids : Present(id)' => \/ Present(id)
                                      \/ fate'[id] \in {"plain", "stranded"} /\ id \in issued
  BY <1>3, <1>4
<1>8. Frame
  BY <1>3, <1>4, <1>5, <1>6, <1>7 DEF Frame
<1>. QED  BY <1>2, <1>8, Framed

\* An operation ends that leaves no row of its own behind.
LEMMA EndFramed ==
    ASSUME TypeOK, Safe, NEW p \in Callers, Finish(p), UNCHANGED <<issued, table, fate>>,
           \A id \in Ids : Present(id)' => Present(id),
           Halfway(p) => rows'[arg[p]] = "absent"
    PROVE  Safe'
<1>1. /\ at'[p] = "idle" /\ job'[p] = "search"
      /\ \A q \in Callers \ {p} :
            at'[q] = at[q] /\ job'[q] = job[q] /\ arg'[q] = arg[q] /\ vec'[q] = vec[q]
  BY Finished
<1>2. Places'
  BY <1>1 DEF Places, Safe
<1>3. \A q \in Callers : Pending(q)' => Pending(q) /\ arg'[q] = arg[q] /\ fate'[arg[q]] = fate[arg[q]]
  BY <1>1 DEF Pending
<1>4. \A q \in Callers : Halfway(q) /\ rows'[arg[q]] # "absent" /\ fate'[arg[q]] = "none"
                            => Halfway(q)' /\ arg'[q] = arg[q]
  BY <1>1 DEF Halfway
<1>5. Frame
  BY <1>3, <1>4 DEF Frame
<1>. QED  BY <1>2, <1>5, Framed

\* The operation of a caller goes on, in a place it may be in.
LEMMA MoveFramed ==
    ASSUME TypeOK, Safe, NEW p \in Callers, NEW label \in Labels \ {"idle", "open"},
           Goto(p, label), UNCHANGED <<job, arg, vec, issued, table, rows, fate>>,
           at[p] # "idle",
           Halfway(p) => label \in {"add", "rollback"},
           label = "add" => at[p] = "open",
           label = "commit" => job[p] = "dedup",
           label \in {"add", "rollback"} => job[p] = "insert"
    PROVE  Safe'
<1>1. /\ at'[p] = label /\ job'[p] = job[p] /\ arg'[p] = arg[p] /\ vec'[p] = vec[p]
      /\ \A q \in Callers \ {p} :
            at'[q] = at[q] /\ job'[q] = job[q] /\ arg'[q] = arg[q] /\ vec'[q] = vec[q]
  BY Moved
<1>2. Places'
  BY <1>1 DEF Places, Safe
<1>3. \A q \in Callers : Pending(q)' => Pending(q) /\ arg'[q] = arg[q] /\ fate'[arg[q]] = fate[arg[q]]
  BY <1>1 DEF Pending
<1>4. \A q \in Callers : Halfway(q) => Halfway(q)' /\ arg'[q] = arg[q]
  BY <1>1 DEF Halfway
<1>5. Frame
  BY <1>3, <1>4 DEF Frame, Present
<1>. QED  BY <1>2, <1>5, Framed

\* An operation that writes no new memory begins.
LEMMA BeginFramed ==
    ASSUME TypeOK, Safe, NEW p \in Callers, NEW c \in CallRecord, Call(p, c),
           Goto(p, "open"), at[p] = "idle", c.job \notin {"insert", "dedup"},
           UNCHANGED <<issued, table, fate>>,
           \A id \in Ids : Present(id)' => Present(id)
    PROVE  Safe'
<1>1. /\ at'[p] = "open" /\ job'[p] = c.job
      /\ \A q \in Callers \ {p} :
            at'[q] = at[q] /\ job'[q] = job[q] /\ arg'[q] = arg[q] /\ vec'[q] = vec[q]
  BY Called
<1>2. Places'
  BY <1>1 DEF Places, Safe
<1>3. \A q \in Callers : Pending(q)' => Pending(q) /\ arg'[q] = arg[q] /\ fate'[arg[q]] = fate[arg[q]]
  BY <1>1 DEF Pending
<1>4. \A q \in Callers : Halfway(q) => Halfway(q)' /\ arg'[q] = arg[q]
  BY <1>1 DEF Halfway
<1>5. Frame
  BY <1>3, <1>4 DEF Frame
<1>. QED  BY <1>2, <1>5, Framed

\* No caller moves and no vector, outcome or memory comes.
LEMMA StillFramed ==
    ASSUME TypeOK, Safe, UNCHANGED <<at, job, arg, vec, issued, table, fate>>,
           \A id \in Ids : Present(id)' => Present(id)
    PROVE  Safe'
<1>1. Places'
  BY DEF Places, Safe
<1>2. Frame
  BY DEF Frame, Pending, Halfway
<1>. QED  BY <1>1, <1>2, Framed

-----------------------------------------------------------------------------
(* The steps that make a memory: its id is drawn, its row is committed, its *)
(* vector is added.                                                         *)

LEMMA DrawSafe ==
    ASSUME TypeOK, Safe, NEW p \in Callers, NEW c \in CallRecord,
           NEW label \in {"commit", "open"},
           Call(p, c), Goto(p, label), at[p] = "idle", Fresh(c.arg), c.arg \in Ids,
           \/ c.job = "insert" /\ label = "commit"
           \/ c.job = "dedup" /\ label = "open",
           UNCHANGED <<rows, table, fate>>
    PROVE  Safe'
<1>1. /\ at'[p] = label /\ job'[p] = c.job /\ arg'[p] = c.arg
      /\ \A q \in Callers \ {p} :
            at'[q] = at[q] /\ job'[q] = job[q] /\ arg'[q] = arg[q] /\ vec'[q] = vec[q]
  BY Called
<1>2. c.arg \notin issued /\ issued' = issued \cup {c.arg}
  BY DEF Fresh
<1>3. Places'
  BY <1>1 DEF Places, Safe
<1>4. Drawn'
  BY <1>2 DEF Drawn, Safe, Present
<1>5. Own'
  <2>1. /\ fate[c.arg] = "none"
        /\ \A e \in table : e.id # c.arg
        /\ \A q \in Callers \ {p} : Pending(q) => arg[q] # c.arg
    BY <1>2 DEF Safe, Drawn, Own
  <2>2. \A q \in Callers \ {p} : Pending(q)' <=> Pending(q)
    BY <1>1 DEF Pending
  <2>. QED  BY <1>1, <1>2, <2>1, <2>2 DEF Own, Safe
<1>6. OneVectorPerId' /\ AcknowledgedHasVector'
  BY DEF OneVectorPerId, AcknowledgedHasVector, Present, Safe
<1>7. RowsAccountedFor'
  <2>1. \A q \in Callers : Halfway(q) => Halfway(q)' /\ arg'[q] = arg[q]
    BY <1>1 DEF Halfway
  <2>. QED  BY <2>1 DEF RowsAccountedFor, Present, Safe
<1>. QED  BY <1>3, <1>4, <1>5, <1>6, <1>7 DEF Safe

LEMMA CommitSafe ==
    ASSUME TypeOK, Safe, NEW p \in Callers, CommitRow(p)
    PROVE  Safe'
<1>1. Pending(p) /\ arg[p] \in issued /\ arg[p] \in Ids
  BY DEF CommitRow, Places, Pending, Own, Safe, TypeOK
<1>2. \A id \in Ids : Present(id)' => Present(id) \/ id = arg[p]
  BY DEF CommitRow, Present, TypeOK
<1>3. CASE Embedded(p)
  <2>. DEFINE c == [Idle EXCEPT !.job = "insert", !.arg = arg[p], !.vec = vec[p]]
  <2>1. c.job = "insert" /\ c.arg = arg[p] /\ c.vec = vec[p]
    BY DEF Idle
  <2>2. Goto(p, "open") /\ Call(p, c) /\ UNCHANGED fate
    BY <1>3 DEF CommitRow
  <2>. HIDE DEF c
  <2>3. /\ at'[p] = "open" /\ job'[p] = "insert" /\ arg'[p] = arg[p] /\ vec'[p] = vec[p]
        /\ \A q \in Callers \ {p} :
              at'[q] = at[q] /\ job'[q] = job[q] /\ arg'[q] = arg[q] /\ vec'[q] = vec[q]
    BY <2>1, <2>2, Called
  <2>4. vec[p] \in Vectors
    BY <1>3 DEF Embedded, TypeOK
  <2>5. UNCHANGED <<issued, table>>
    BY DEF CommitRow, lance
  <2>6. Places'
    BY <2>3, <2>4 DEF Places, Safe
  <2>7. Drawn'
    BY <1>1, <1>2, <2>2, <2>5 DEF Drawn, Safe
  <2>8. \A q \in Callers : arg'[q] = arg[q] /\ (Pending(q)' => Pending(q))
    BY <1>1, <2>3 DEF Pending
  <2>9. Own'
    BY <2>2, <2>5, <2>8 DEF Own, Safe
  <2>10. OneVectorPerId'
    BY <2>5 DEF OneVectorPerId, Safe
  <2>11. AcknowledgedHasVector'
    BY <1>1, <1>2, <2>2, <2>5 DEF AcknowledgedHasVector, Own, Safe
  <2>12. RowsAccountedFor'
    <3>1. \A q \in Callers : Halfway(q) => Halfway(q)'
      BY <2>3 DEF Halfway
    <3>2. Halfway(p)'
      BY <2>3 DEF Halfway
    <3>. QED  BY <1>2, <2>2, <2>8, <3>1, <3>2 DEF RowsAccountedFor, Safe
  <2>. QED  BY <2>6, <2>7, <2>9, <2>10, <2>11, <2>12 DEF Safe
<1>4. CASE ~Embedded(p)
  <2>1. Finish(p) /\ WithFate(p, "plain")
    BY <1>4 DEF CommitRow, Acknowledge
  <2>2. fate' \in [Ids -> {"none", "stored", "plain", "stranded"}] /\ fate'[arg[p]] = "plain"
        /\ \A id \in Ids \ {arg[p]} : fate'[id] = fate[id]
    BY <1>1, <2>1 DEF WithFate, TypeOK
  <2>. QED  BY <1>1, <1>2, <2>1, <2>2, OutcomeFramed DEF CommitRow, lance
<1>. QED  BY <1>3, <1>4

LEMMA AddSafe ==
    ASSUME TypeOK, Safe, NEW p \in Callers, AddVector(p)
    PROVE  Safe'
<1>1. job[p] = "insert" /\ Pending(p) /\ arg[p] \in issued /\ arg[p] \in Ids
  BY DEF AddVector, Places, Pending, Own, Safe, TypeOK
<1>2. Finish(p) /\ WithFate(p, "stored")
  BY <1>1 DEF AddVector, Acknowledge
<1>3. fate'[arg[p]] = "stored" /\ \A id \in Ids \ {arg[p]} : fate'[id] = fate[id]
  BY <1>1, <1>2 DEF WithFate, TypeOK
<1>4. rows' = rows /\ issued' = issued /\ table' = table \cup {[id |-> arg[p], vec |-> vec[p]]}
  BY DEF AddVector
<1>5. /\ at'[p] = "idle" /\ job'[p] = "search"
      /\ \A q \in Callers \ {p} :
            at'[q] = at[q] /\ job'[q] = job[q] /\ arg'[q] = arg[q] /\ vec'[q] = vec[q]
  BY <1>2, Finished
<1>6. Places'
  BY <1>5 DEF Places, Safe
<1>7. Drawn'
  BY <1>1, <1>3, <1>4 DEF Drawn, Present, Safe
<1>8. Own'
  <2>. SUFFICES ASSUME NEW q \in Callers, Pending(q)'
                PROVE  /\ arg'[q] \in issued' /\ fate'[arg'[q]] = "none"
                       /\ \A e \in table' : e.id # arg'[q]
                       /\ \A r \in Callers \ {q} : Pending(r)' => arg'[r] # arg'[q]
    BY DEF Own
  <2>1. q # p /\ Pending(q) /\ arg'[q] = arg[q]
    BY <1>5 DEF Pending
  <2>2. arg[q] # arg[p] /\ arg[q] \in Ids /\ arg[q] \in issued /\ fate[arg[q]] = "none"
    BY <1>1, <2>1 DEF Own, Safe, TypeOK
  <2>3. \A r \in Callers \ {q} : Pending(r)' => Pending(r) /\ arg'[r] = arg[r]
    BY <1>5 DEF Pending
  <2>4. \A e \in table' : e.id # arg[q]
    BY <1>4, <2>1, <2>2 DEF Own, Safe
  <2>. QED  BY <1>3, <1>4, <2>1, <2>2, <2>3, <2>4 DEF Own, Safe
<1>9. OneVectorPerId'
  BY <1>1, <1>4 DEF OneVectorPerId, Own, Safe
<1>10. AcknowledgedHasVector'
  <2>1. [id |-> arg[p], vec |-> vec[p]] \in table' /\ table \subseteq table'
    BY <1>4
  <2>. QED  BY <1>3, <1>4, <2>1 DEF AcknowledgedHasVector, Present, Safe
<1>11. RowsAccountedFor'
  <2>. SUFFICES ASSUME NEW id \in Ids, Present(id)', fate'[id] = "none"
                PROVE  \E q \in Callers : Halfway(q)' /\ arg'[q] = id
    BY DEF RowsAccountedFor
  <2>1. id # arg[p] /\ Present(id) /\ fate[id] = "none"
    BY <1>3, <1>4 DEF Present
  <2>2. PICK q \in Callers : Halfway(q) /\ arg[q] = id
    BY <2>1 DEF RowsAccountedFor, Safe
  <2>3. Halfway(q)' /\ arg'[q] = id
    BY <1>5, <2>1, <2>2 DEF Halfway
  <2>. QED  BY <2>3
<1>. QED  BY <1>6, <1>7, <1>8, <1>9, <1>10, <1>11 DEF Safe

-----------------------------------------------------------------------------
(* Every step keeps the promise.                                           *)

LEMMA InitSafe ==
    ASSUME Init
    PROVE  Safe
<1>1. PICK loaded \in [Stored -> Vectors] :
          table = {[id |-> id, vec |-> loaded[id]] : id \in Stored}
  BY DEF Init
<1>2. Stored \subseteq Ids /\ issued = Stored
  BY DualStoreAssumption DEF Init
<1>3. \A p \in Callers : at[p] = "idle"
  BY DEF Init
<1>4. \A id \in Ids : /\ Present(id) <=> id \in Stored
                      /\ fate[id] = IF id \in Stored THEN "stored" ELSE "none"
  BY DEF Init, Present
<1>5. Places /\ Own
  BY <1>3 DEF Places, Own, Pending
<1>6. Drawn /\ OneVectorPerId
  BY <1>1, <1>2, <1>4 DEF Drawn, OneVectorPerId
<1>7. AcknowledgedHasVector
  <2>. SUFFICES ASSUME NEW id \in Ids, id \in Stored PROVE \E e \in table : e.id = id
    BY <1>4 DEF AcknowledgedHasVector
  <2>1. [id |-> id, vec |-> loaded[id]] \in table
    BY <1>1
  <2>. QED  BY <2>1
<1>8. RowsAccountedFor
  BY <1>4 DEF RowsAccountedFor
<1>. QED  BY <1>5, <1>6, <1>7, <1>8 DEF Safe

LEMMA RequestSafe ==
    ASSUME TypeOK, Safe, NEW p \in Callers, Request(p)
    PROVE  Safe'
<1>n. 2 * Limit \in Nat /\ \A id \in Ids : NamespaceOf[id] \in Namespaces
  BY DualStoreAssumption DEF Namespaces
<1>1. ASSUME NEW id \in Ids, NEW v \in Vectors \cup {NoVector}, Insert(p, id, v)
      PROVE  Safe'
  <2>. DEFINE c == [Idle EXCEPT !.job = "insert", !.arg = id, !.vec = v]
  <2>1. c \in CallRecord /\ c.job = "insert" /\ c.arg = id
    BY DEF Idle, CallRecord, Jobs
  <2>2. Call(p, c) /\ Goto(p, "commit") /\ at[p] = "idle" /\ Fresh(id)
        /\ UNCHANGED <<rows, table, fate>>
    BY <1>1 DEF Insert, Begin, lance
  <2>. HIDE DEF c
  <2>. QED  BY <2>1, <2>2, DrawSafe
<1>2. ASSUME NEW id \in Ids, NEW v \in Vectors, InsertDedup(p, id, v)
      PROVE  Safe'
  <2>. DEFINE c == [Idle EXCEPT !.job = "dedup", !.arg = id, !.vec = v,
                                !.bucket = NamespaceOf[id], !.fetch = 2]
  <2>1. c \in CallRecord /\ c.job = "dedup" /\ c.arg = id
    BY <1>n DEF Idle, CallRecord, Jobs
  <2>2. Call(p, c) /\ Goto(p, "open") /\ at[p] = "idle" /\ Fresh(id)
        /\ UNCHANGED <<rows, table, fate>>
    BY <1>2 DEF InsertDedup, Begin, lance
  <2>. HIDE DEF c
  <2>. QED  BY <2>1, <2>2, DrawSafe
<1>3. ASSUME NEW id \in Ids, NEW v \in Vectors \cup {NoVector}, Update(p, id, v)
      PROVE  Safe'
  <2>. DEFINE c == [Idle EXCEPT !.job = "update", !.arg = id, !.vec = v, !.victims = {id}]
  <2>1. c \in CallRecord /\ c.job = "update"
    BY DEF Idle, CallRecord, Jobs
  <2>2. Call(p, c) /\ Goto(p, "open") /\ at[p] = "idle"
        /\ UNCHANGED <<rows, issued, table, fate>>
    BY <1>3 DEF Update, Begin, lance
  <2>. HIDE DEF c
  <2>. QED  BY <2>1, <2>2, BeginFramed DEF Present
<1>4. ASSUME NEW id \in Ids, Delete(p, id)
      PROVE  Safe'
  <2>. DEFINE c == [Idle EXCEPT !.job = "delete", !.victims = {id}]
  <2>1. c \in CallRecord /\ c.job = "delete"
    BY DEF Idle, CallRecord, Jobs
  <2>2. Call(p, c) /\ Goto(p, "open") /\ at[p] = "idle"
        /\ UNCHANGED <<issued, table, fate>>
    BY <1>4 DEF Delete, Begin, lance
  <2>3. \A i \in Ids : Present(i)' => Present(i)
    BY <1>4 DEF Delete, Present, TypeOK
  <2>. HIDE DEF c
  <2>. QED  BY <2>1, <2>2, <2>3, BeginFramed
<1>5. ASSUME NEW expired \in SUBSET Ids, Purge(p, expired)
      PROVE  Safe'
  <2>. DEFINE c == [Idle EXCEPT !.job = "purge", !.victims = expired]
  <2>1. c \in CallRecord /\ c.job = "purge"
    BY DEF Idle, CallRecord, Jobs
  <2>2. Call(p, c) /\ Goto(p, "open") /\ at[p] = "idle"
        /\ UNCHANGED <<issued, table, fate>>
    BY <1>5 DEF Purge, Begin, lance
  <2>3. \A i \in Ids : Present(i)' => Present(i)
    BY <1>5 DEF Purge, Present
  <2>. HIDE DEF c
  <2>. QED  BY <2>1, <2>2, <2>3, BeginFramed
<1>6. ASSUME NEW q \in Vectors, NEW ns \in Namespaces, Search(p, q, ns)
      PROVE  Safe'
  <2>. DEFINE c == [Idle EXCEPT !.vec = q, !.bucket = ns, !.fetch = 2 * Limit]
  <2>1. c \in CallRecord /\ c.job = "search"
    BY <1>n DEF Idle, CallRecord, Jobs
  <2>2. Call(p, c) /\ Goto(p, "open") /\ at[p] = "idle"
        /\ UNCHANGED <<rows, issued, table, fate>>
    BY <1>6 DEF Search, Begin, lance
  <2>. HIDE DEF c
  <2>. QED  BY <2>1, <2>2, BeginFramed DEF Present
<1>. QED  BY <1>1, <1>2, <1>3, <1>4, <1>5, <1>6 DEF Request

LEMMA StepSafe ==
    ASSUME TypeOK, Safe, NEW p \in Callers, Step(p)
    PROVE  Safe'
<1>1. CASE CommitRow(p)
  BY <1>1, CommitSafe
<1>2. CASE OpenTable(p)
  <2>0. /\ at[p] = "open" /\ job[p] \in Jobs
        /\ UNCHANGED <<job, arg, vec, issued, table, rows, fate>>
    BY <1>2 DEF OpenTable, lance, local, TypeOK
  <2>1. CASE job[p] = "insert"
    BY <1>2, <2>0, <2>1, MoveFramed DEF OpenTable, Halfway, Labels
  <2>2. CASE job[p] \in {"search", "dedup"}
    BY <1>2, <2>0, <2>2, MoveFramed DEF OpenTable, Halfway, Labels
  <2>3. CASE job[p] \in {"update", "delete", "purge"}
    BY <1>2, <2>0, <2>3, MoveFramed DEF OpenTable, Halfway, Labels
  <2>. QED  BY <2>0, <2>1, <2>2, <2>3 DEF Jobs
<1>3. CASE AddVector(p)
  BY <1>3, AddSafe
<1>4. CASE Rollback(p)
  <2>1. Finish(p) /\ UNCHANGED <<issued, table, fate>> /\ Pending(p)
    BY <1>4 DEF Rollback, lance, Places, Pending, Safe
  <2>2. arg[p] \in Ids
    BY <2>1 DEF Own, Safe, TypeOK
  <2>3. rows'[arg[p]] = "absent" /\ \A id \in Ids : Present(id)' => Present(id)
    BY <1>4, <2>2 DEF Rollback, WithoutRow, Present, TypeOK
  <2>. QED  BY <2>1, <2>3, EndFramed
<1>5. CASE Unlink(p)
  <2>1. Finish(p) /\ UNCHANGED <<issued, table, fate, rows>> /\ ~Halfway(p)
    BY <1>5, Refused DEF Unlink, Halfway
  <2>. QED  BY <2>1, EndFramed DEF Present
<1>6. CASE Candidates(p)
  <2>1. /\ Goto(p, "fetch") /\ at[p] = "nearest" /\ UNCHANGED <<job, arg, vec, issued, table, rows, fate>>
    BY <1>6 DEF Candidates, lance
  <2>. QED  BY <2>1, MoveFramed DEF Halfway, Labels
<1>7. CASE FetchRows(p)
  <2>1. /\ Goto(p, "fetched") \/ Goto(p, "nearest")
        /\ at[p] = "fetch" /\ UNCHANGED <<job, arg, vec, issued, table, rows, fate>>
    BY <1>7 DEF FetchRows, lance
  <2>. QED  BY <2>1, MoveFramed DEF Halfway, Labels
<1>8. CASE Return(p)
  <2>1. at[p] = "fetched" /\ UNCHANGED <<issued, table, rows, fate>> /\ ~Halfway(p)
    BY <1>8 DEF Return, lance, Halfway
  <2>2. CASE Finish(p)
    BY <2>1, <2>2, EndFramed DEF Present
  <2>3. CASE job[p] = "dedup" /\ Goto(p, "commit") /\ UNCHANGED local
    BY <2>1, <2>3, MoveFramed DEF Halfway, Labels, local
  <2>. QED  BY <1>8, <2>2, <2>3 DEF Return
<1>. QED  BY <1>1, <1>2, <1>3, <1>4, <1>5, <1>6, <1>7, <1>8 DEF Step

LEMMA FailureSafe ==
    ASSUME TypeOK, Safe, NEW p \in Callers,
           CallFails(p) \/ HangUp(p) \/ HangUpCommitting(p)
    PROVE  Safe'
<1>1. CASE CallFails(p)
  <2>1. UNCHANGED <<rows, issued, table>>
    BY <1>1 DEF CallFails, Fault, lance
  <2>2. CASE /\ job[p] = "dedup" /\ at[p] \in {"open", "nearest", "fetch", "fetched"}
             /\ Goto(p, "commit") /\ UNCHANGED <<local, fate>>
    BY <2>1, <2>2, MoveFramed DEF Halfway, Labels, local
  <2>3. CASE /\ job[p] = "insert" /\ at[p] = "add"
             /\ Goto(p, "rollback") /\ UNCHANGED <<local, fate>>
    BY <2>1, <2>3, MoveFramed DEF Halfway, Labels, local
  <2>4. CASE /\ job[p] = "insert" /\ at[p] \in {"open", "rollback"}
             /\ Finish(p) /\ WithFate(p, "stranded")
    BY <2>1, <2>4, OutcomeFramed DEF Pending, Present
  <2>5. CASE ~Halfway(p) /\ Finish(p) /\ UNCHANGED fate
    BY <2>1, <2>5, EndFramed DEF Present
  <2>. QED  BY <1>1, <2>2, <2>3, <2>4, <2>5, CallOutcomes DEF CallOutcome
<1>2. CASE HangUp(p)
  <2>1. UNCHANGED <<rows, issued, table>> /\ Finish(p)
    BY <1>2 DEF HangUp, Fault, lance
  <2>2. CASE Halfway(p)
    BY <1>2, <2>1, <2>2, OutcomeFramed DEF HangUp, Pending, Halfway, Present
  <2>3. CASE ~Halfway(p)
    BY <1>2, <2>1, <2>3, EndFramed DEF HangUp, Present
  <2>. QED  BY <2>2, <2>3
<1>3. CASE HangUpCommitting(p)
  <2>1. UNCHANGED <<issued, table>> /\ Finish(p) /\ WithFate(p, "stranded") /\ Pending(p)
    BY <1>3 DEF HangUpCommitting, Fault, lance, Places, Pending, Safe
  <2>2. \A id \in Ids : Present(id)' => Present(id) \/ id = arg[p]
    BY <1>3 DEF HangUpCommitting, Present, TypeOK
  <2>. QED  BY <2>1, <2>2, OutcomeFramed
<1>. QED  BY <1>1, <1>2, <1>3

LEMMA OutsideSafe ==
    ASSUME TypeOK, Safe, Outside
    PROVE  Safe'
<1>1. ASSUME NEW id \in Ids, SetStatus(id) PROVE Safe'
  <2>1. UNCHANGED <<at, job, arg, vec, issued, table, fate>>
    BY <1>1 DEF SetStatus, lance, local
  <2>2. \A i \in Ids : Present(i)' => Present(i)
    BY <1>1 DEF SetStatus, Present, TypeOK
  <2>. QED  BY <2>1, <2>2, StillFramed
<1>2. CASE Count
  BY <1>2, StillFramed DEF Count, lance, local, Present
<1>3. CASE CreateIndex
  BY <1>3, StillFramed DEF CreateIndex, local, Present
<1>4. CASE BuildFails
  BY <1>4, StillFramed DEF BuildFails, Fault, lance, local, Present
<1>. QED  BY <1>1, <1>2, <1>3, <1>4 DEF Outside

LEMMA RestartSafe ==
    ASSUME TypeOK, Safe, Restart
    PROVE  Safe'
<1>1. \A p \in Callers : at'[p] = "idle"
  BY DEF Restart
<1>2. Places' /\ \A p \in Callers : ~Pending(p)'
  BY <1>1 DEF Places, Pending
<1>3. UNCHANGED <<rows, issued, table>>
  BY DEF Restart, Fault, lance
<1>4. \A id \in Ids : \/ fate'[id] = fate[id]
                      \/ fate'[id] = "stranded" /\ id \in issued
  BY DEF Restart, Halfway, Own, Pending, Safe
<1>5. ASSUME NEW p \in Callers, Halfway(p)
      PROVE  fate'[arg[p]] = "stranded"
  <2>1. arg[p] \in Ids
    BY <1>5 DEF Halfway, Pending, Own, Safe, TypeOK
  <2>. QED  BY <1>5, <2>1 DEF Restart
<1>6. Frame
  BY <1>2, <1>3, <1>4, <1>5 DEF Frame, Present
<1>. QED  BY <1>2, <1>6, Framed

LEMMA Inductive ==
    ASSUME IInv, [Next]_vars
    PROVE  IInv'
<1>. TypeOK /\ Safe /\ Own /\ Places
  BY DEF IInv, Safe
<1>1. ASSUME NEW p \in Callers, Request(p) PROVE IInv'
  BY <1>1, RequestTypes, RequestSafe DEF IInv
<1>2. ASSUME NEW p \in Callers, Step(p) PROVE IInv'
  BY <1>2, StepTypes, StepSafe DEF IInv
<1>3. ASSUME NEW p \in Callers, CallFails(p) \/ HangUp(p) \/ HangUpCommitting(p) PROVE IInv'
  BY <1>3, FailureTypes, FailureSafe DEF IInv
<1>4. CASE Outside
  BY <1>4, OutsideTypes, OutsideSafe DEF IInv
<1>5. CASE Restart
  BY <1>5, RestartTypes, RestartSafe DEF IInv
<1>6. CASE UNCHANGED vars
  BY <1>6, StutterTypes, StillFramed DEF IInv, vars, lance, local, Present
<1>. QED  BY <1>1, <1>2, <1>3, <1>4, <1>5, <1>6 DEF Next, Outside

-----------------------------------------------------------------------------
(* Searches.                                                               *)

InBucket(p) == {e \in table : Live(e.id) /\ NamespaceOf[e.id] = bucket[p]}

\* best are all the elements of S, or k of them and more, which nothing of S
\* outside of best outscores.
Covers(best, S, k, score) ==
    /\ best \subseteq S
    /\ \/ best = S
       \/ /\ Cardinality(best) >= k
          /\ \A x \in best, y \in S \ best : score[x] >= score[y]

\* An undisturbed caller has the entries its exact probe found; then, once the
\* rows yield enough of them, entries that cover the bucket as deep as asked.
Probed(p) ==
    /\ hits[p] \in Nearest(table, fetch[p], Scores(vec[p]))
    /\ exhausted[p] = (Cardinality({e.id : e \in hits[p]}) < fetch[p])

Covered(p) == Covers(hits[p], InBucket(p), Wanted(p), Scores(vec[p]))

Exact ==
    \A p \in undisturbed :
        /\ at[p] = "fetch" => Probed(p)
        /\ at[p] = "fetched" => Covered(p)

\* What an exact search found, cut down to the part a filter lets through,
\* covers that part.
LEMMA FilteredCovers ==
    ASSUME NEW S, IsFiniteSet(S), NEW depth \in Nat, NEW k \in Nat, NEW score,
           NEW found \in Nearest(S, depth, score), NEW part \in SUBSET S,
           Cardinality(found \cap part) >= k \/ Cardinality(found) < depth
    PROVE  Covers(found \cap part, part, k, score)
<1>1. found \subseteq S /\ \A x \in found, y \in S \ found : score[x] >= score[y]
  BY DEF Nearest
<1>2. Cardinality(found) \in Nat
  BY <1>1, FS_Subset, FS_CardinalityType
<1>3. CASE Cardinality(found \cap part) >= k
  BY <1>1, <1>3 DEF Covers
<1>4. CASE Cardinality(found) < depth
  <2>1. found = S
    BY <1>2, <1>4 DEF Nearest
  <2>. QED  BY <2>1 DEF Covers
<1>. QED  BY <1>3, <1>4

\* The best k of elements that cover S are the best k of S.
LEMMA CoveredNearest ==
    ASSUME NEW S, IsFiniteSet(S), NEW k \in Nat, NEW score,
           NEW best, Covers(best, S, k, score), NEW T \in Nearest(best, k, score)
    PROVE  T \in Nearest(S, k, score)
<1>1. best \subseteq S /\ T \subseteq best
      /\ Cardinality(best) \in Nat /\ Cardinality(T) \in Nat
  BY FS_Subset, FS_CardinalityType DEF Covers, Nearest
<1>2. CASE best = S
  BY <1>2
<1>3. CASE best # S
  <2>1. /\ Cardinality(best) >= k
        /\ \A x \in best, y \in S \ best : score[x] >= score[y]
    BY <1>3 DEF Covers
  <2>2. Cardinality(T) = k
    BY <1>1, <2>1 DEF Nearest
  <2>3. \A x \in T, y \in S \ T : score[x] >= score[y]
    BY <1>1, <2>1 DEF Nearest
  <2>. QED  BY <1>1, <2>2, <2>3 DEF Nearest
<1>. QED  BY <1>2, <1>3

\* One vector an id: the table is as finite as the ids, and the map of scores
\* has a key for every entry.
LEMMA EntriesCount ==
    ASSUME TypeOK, OneVectorPerId, NEW S \in SUBSET table
    PROVE  IsFiniteSet(S) /\ Cardinality({e.id : e \in S}) = Cardinality(S)
<1>. DEFINE ids == {e.id : e \in S}
            f == [e \in S |-> e.id]
<1>1. ids \subseteq Ids /\ IsFiniteSet(ids)
  <2>1. ids \subseteq Ids
    BY DEF TypeOK, Entry
  <2>. QED  BY <2>1, FS_Subset, DualStoreAssumption
<1>2. f \in Bijection(S, ids)
  <2>1. f \in [S -> ids] /\ \A i \in ids : \E e \in S : f[e] = i
    OBVIOUS
  <2>2. \A d, e \in S : f[d] = f[e] => d = e
    BY DEF OneVectorPerId
  <2>. QED  BY <2>1, <2>2, Fun_IsBij
<1>3. IsFiniteSet(S)
  BY <1>1, <1>2, FS_Injection DEF Bijection
<1>4. ExistsBijection(S, ids)
  BY <1>2 DEF ExistsBijection
<1>. QED  BY <1>3, <1>4, FS_Bijection

\* What a search has in hand.
SameSearch(p) ==
    /\ at'[p] = at[p] /\ job'[p] = job[p] /\ vec'[p] = vec[p] /\ bucket'[p] = bucket[p]
    /\ fetch'[p] = fetch[p] /\ hits'[p] = hits[p] /\ exhausted'[p] = exhausted[p]

LEMMA SameSearchKept ==
    ASSUME NEW p \in Callers, SameSearch(p), UNCHANGED <<rows, table>>
    PROVE  Probed(p)' = Probed(p) /\ Covered(p)' = Covered(p)
<1>1. UNCHANGED <<Scores(vec[p]), InBucket(p), Wanted(p)>>
  BY DEF SameSearch, Scores, InBucket, Wanted, Live
<1>. QED  BY <1>1 DEF Probed, Covered, SameSearch

\* A step of p alone that touches neither rows nor vectors.
LEMMA ExactKept ==
    ASSUME Exact, NEW p \in Callers, undisturbed \in SUBSET Callers,
           UNCHANGED <<rows, table>>, undisturbed' \subseteq undisturbed \cup {p},
           \A q \in Callers \ {p} : SameSearch(q),
           p \in undisturbed' =>
               /\ at'[p] = "fetch" => Probed(p)'
               /\ at'[p] = "fetched" => Covered(p)'
    PROVE  Exact'
<1>. SUFFICES ASSUME NEW q \in undisturbed'
              PROVE  /\ at'[q] = "fetch" => Probed(q)'
                     /\ at'[q] = "fetched" => Covered(q)'
  BY DEF Exact
<1>1. CASE q = p
  BY <1>1
<1>2. CASE q # p
  BY <1>2, SameSearchKept DEF Exact, SameSearch
<1>. QED  BY <1>1, <1>2

\* A caller moves on to a place where a search holds nothing.
LEMMA CallExact ==
    ASSUME TypeOK, Exact, NEW p \in Callers, NEW c, NEW label, label \notin {"fetch", "fetched"},
           Goto(p, label), Call(p, c) \/ UNCHANGED local,
           UNCHANGED <<rows, table, undisturbed>>
    PROVE  Exact'
<1>1. at'[p] = label /\ \A q \in Callers \ {p} : SameSearch(q)
  BY DEF TypeOK, Call, Goto, SameSearch, local
<1>. QED  BY <1>1, ExactKept DEF TypeOK

LEMMA FinishExact ==
    ASSUME TypeOK, Exact, NEW p \in Callers, Finish(p), UNCHANGED <<rows, table, undisturbed>>
    PROVE  Exact'
BY CallExact DEF Finish

\* A probe without an index leaves the best entries of the table.
LEMMA CandidatesExact ==
    ASSUME TypeOK, Exact, NEW p \in Callers, Candidates(p)
    PROVE  Exact'
<1>1. PICK probed \in SUBSET table :
        /\ indexed \/ probed = table
        /\ \E near \in Nearest(probed, fetch[p], Scores(vec[p])) :
            /\ hits' = [hits EXCEPT ![p] = near]
            /\ exhausted' = [exhausted EXCEPT
                    ![p] = Cardinality({e.id : e \in near}) < fetch[p]]
  BY DEF Candidates
<1>2. PICK near \in Nearest(probed, fetch[p], Scores(vec[p])) :
        /\ hits' = [hits EXCEPT ![p] = near]
        /\ exhausted' = [exhausted EXCEPT ![p] = Cardinality({e.id : e \in near}) < fetch[p]]
  BY <1>1
<1>3. /\ at' = [at EXCEPT ![p] = "fetch"]
      /\ undisturbed' = IF indexed THEN undisturbed \ {p} ELSE undisturbed \cup {p}
      /\ UNCHANGED <<rows, table, job, vec, bucket, fetch>>
  BY DEF Candidates, Goto, lance
<1>4. at'[p] = "fetch" /\ \A q \in Callers \ {p} : SameSearch(q)
  BY <1>2, <1>3 DEF TypeOK, SameSearch
<1>5. p \in undisturbed' => probed = table
  BY <1>1, <1>3
<1>6. hits'[p] = near /\ exhausted'[p] = (Cardinality({e.id : e \in near}) < fetch[p])
  BY <1>2 DEF TypeOK
<1>7. Scores(vec[p])' = Scores(vec[p])
  BY <1>3 DEF Scores
<1>8. p \in undisturbed' => Probed(p)'
  BY <1>3, <1>5, <1>6, <1>7 DEF Probed
<1>. QED  BY <1>3, <1>4, <1>8, ExactKept DEF TypeOK

\* Enough rows of the bucket: they cover it.
LEMMA FetchExact ==
    ASSUME TypeOK, OneVectorPerId, Exact, NEW p \in Callers, FetchRows(p)
    PROVE  Exact'
<1>1. /\ at[p] = "fetch"
      /\ UNCHANGED <<rows, table, job, vec, bucket, exhausted, undisturbed>>
  BY DEF FetchRows, lance
<1>2. CASE ~Enough(p)
  <2>1. /\ at' = [at EXCEPT ![p] = "nearest"] /\ hits' = hits
        /\ fetch' = [fetch EXCEPT ![p] = Deeper(@)]
    BY <1>2 DEF FetchRows, Goto
  <2>2. at'[p] = "nearest" /\ \A q \in Callers \ {p} : SameSearch(q)
    BY <1>1, <2>1 DEF TypeOK, SameSearch
  <2>. QED  BY <1>1, <2>2, ExactKept DEF TypeOK
<1>3. CASE Enough(p)
  <2>1. /\ at' = [at EXCEPT ![p] = "fetched"] /\ fetch' = fetch
        /\ hits' = [hits EXCEPT ![p] = Fetched(p)]
    BY <1>3 DEF FetchRows, Goto
  <2>2. at'[p] = "fetched" /\ \A q \in Callers \ {p} : SameSearch(q)
    BY <1>1, <2>1 DEF TypeOK, SameSearch
  <2>. SUFFICES ASSUME p \in undisturbed PROVE Covered(p)'
    BY <1>1, <2>2, ExactKept DEF TypeOK
  <2>3. Probed(p) /\ hits[p] \subseteq table
    BY <1>1, NearestIsPart DEF Exact, Probed
  <2>4. Fetched(p) = hits[p] \cap InBucket(p) /\ InBucket(p) \subseteq table
    BY <2>3 DEF Fetched, InBucket
  <2>5. IsFiniteSet(table) /\ Cardinality({e.id : e \in hits[p]}) = Cardinality(hits[p])
    BY <2>3, EntriesCount
  <2>6. Wanted(p) \in Nat /\ fetch[p] \in Nat
    BY DualStoreAssumption DEF Wanted, TypeOK
  <2>7. Cardinality(Fetched(p)) >= Wanted(p) \/ Cardinality(hits[p]) < fetch[p]
    BY <1>3, <2>3, <2>5 DEF Enough, Probed
  <2>8. Covers(Fetched(p), InBucket(p), Wanted(p), Scores(vec[p]))
    BY <2>3, <2>4, <2>5, <2>6, <2>7, FilteredCovers DEF Probed
  <2>9. UNCHANGED <<InBucket(p), Wanted(p), Scores(vec[p])>>
    BY <1>1 DEF InBucket, Wanted, Scores, Live
  <2>10. hits'[p] = Fetched(p)
    BY <2>1 DEF TypeOK
  <2>. QED  BY <2>8, <2>9, <2>10 DEF Covered
<1>. QED  BY <1>2, <1>3

LEMMA RequestExact ==
    ASSUME TypeOK, Exact, NEW p \in Callers, Request(p)
    PROVE  Exact'
<1>1. ASSUME undisturbed' = {} PROVE Exact'
  BY <1>1 DEF Exact
<1>2. ASSUME NEW c, Goto(p, "commit") \/ Goto(p, "open"), Call(p, c),
             UNCHANGED <<rows, lance, undisturbed>>
      PROVE  Exact'
  BY <1>2, CallExact DEF lance
<1>3. ASSUME NEW id \in Ids, NEW v \in Vectors \cup {NoVector}, Insert(p, id, v) \/ Update(p, id, v)
      PROVE  Exact'
  BY <1>2, <1>3 DEF Insert, Update, Begin
<1>4. ASSUME NEW id \in Ids, NEW v \in Vectors, InsertDedup(p, id, v) PROVE Exact'
  BY <1>2, <1>4 DEF InsertDedup, Begin
<1>5. ASSUME NEW id \in Ids, Delete(p, id) PROVE Exact'
  BY <1>1, <1>5 DEF Delete
<1>6. ASSUME NEW expired \in SUBSET Ids, Purge(p, expired) PROVE Exact'
  BY <1>1, <1>6 DEF Purge
<1>7. ASSUME NEW q \in Vectors, NEW ns \in Namespaces, Search(p, q, ns) PROVE Exact'
  BY <1>2, <1>7 DEF Search, Begin
<1>. QED  BY <1>3, <1>4, <1>5, <1>6, <1>7 DEF Request

LEMMA StepExact ==
    ASSUME TypeOK, OneVectorPerId, Exact, NEW p \in Callers, Step(p)
    PROVE  Exact'
<1>1. ASSUME undisturbed' = {} PROVE Exact'
  BY <1>1 DEF Exact
<1>2. CASE CommitRow(p) \/ AddVector(p) \/ Rollback(p)
  BY <1>1, <1>2 DEF CommitRow, AddVector, Rollback
<1>3. CASE OpenTable(p)
  <2>1. UNCHANGED <<rows, table, undisturbed>> /\ UNCHANGED local
    BY <1>3 DEF OpenTable, lance
  <2>2. Goto(p, "add") \/ Goto(p, "nearest") \/ Goto(p, "unlink")
    BY <1>3 DEF OpenTable
  <2>. QED  BY <2>1, <2>2, CallExact
<1>4. CASE Unlink(p)
  BY <1>1, <1>4, FinishExact DEF Unlink
<1>5. CASE Candidates(p)
  BY <1>5, CandidatesExact
<1>6. CASE FetchRows(p)
  BY <1>6, FetchExact
<1>7. CASE Return(p)
  <2>1. UNCHANGED <<rows, table, undisturbed>>
    BY <1>7 DEF Return, lance
  <2>2. Finish(p) \/ (Goto(p, "commit") /\ UNCHANGED local)
    BY <1>7 DEF Return
  <2>. QED  BY <2>1, <2>2, FinishExact, CallExact
<1>. QED  BY <1>2, <1>3, <1>4, <1>5, <1>6, <1>7 DEF Step

LEMMA FailureExact ==
    ASSUME TypeOK, Exact, NEW p \in Callers, CallFails(p) \/ HangUp(p) \/ HangUpCommitting(p)
    PROVE  Exact'
<1>1. CASE CallFails(p)
  <2>1. UNCHANGED <<rows, table, undisturbed>>
    BY <1>1 DEF CallFails, Fault, lance
  <2>2. \/ Goto(p, "commit") /\ UNCHANGED local
        \/ Goto(p, "rollback") /\ UNCHANGED local
        \/ Finish(p)
    BY <1>1, CallOutcomes DEF CallOutcome
  <2>. QED  BY <2>1, <2>2, FinishExact, CallExact
<1>2. CASE HangUp(p)
  BY <1>2, FinishExact DEF HangUp, Fault, lance
<1>3. CASE HangUpCommitting(p)
  BY <1>3 DEF HangUpCommitting, Exact
<1>. QED  BY <1>1, <1>2, <1>3

\* Entries that cover the bucket give a best answer among all of its rows.
LEMMA CoveredIsExact ==
    ASSUME TypeOK, OneVectorPerId, Exact
    PROVE  SearchIsExact
<1>. SUFFICES ASSUME NEW p \in undisturbed, at[p] = "fetched", NEW T \in Found(p)
              PROVE  T \in Nearest(InBucket(p), Wanted(p), Scores(vec[p]))
  BY DEF SearchIsExact, InBucket
<1>1. Covers(hits[p], InBucket(p), Wanted(p), Scores(vec[p]))
  BY DEF Exact, Covered
<1>2. hits[p] \subseteq table /\ IsFiniteSet(InBucket(p))
  BY <1>1, EntriesCount DEF Covers, InBucket
<1>3. \A e \in hits[p] : Scores(vec[p])[e] = [d \in hits[p] |-> Sim[vec[p]][d.vec]][e]
  BY <1>2 DEF Scores
<1>4. T \in Nearest(hits[p], Wanted(p), Scores(vec[p]))
  BY <1>3 DEF Found, Nearest
<1>5. Wanted(p) \in Nat
  BY DualStoreAssumption DEF Wanted
<1>. QED  BY <1>1, <1>2, <1>4, <1>5, CoveredNearest

LEMMA ExactInductive ==
    ASSUME IInv, Exact, [Next]_vars
    PROVE  Exact'
<1>. TypeOK /\ OneVectorPerId
  BY DEF IInv, Safe
<1>1. ASSUME NEW p \in Callers, Request(p) PROVE Exact'
  BY <1>1, RequestExact
<1>2. ASSUME NEW p \in Callers, Step(p) PROVE Exact'
  BY <1>2, StepExact
<1>3. ASSUME NEW p \in Callers, CallFails(p) \/ HangUp(p) \/ HangUpCommitting(p) PROVE Exact'
  BY <1>3, FailureExact
<1>4. ASSUME undisturbed' = {} PROVE Exact'
  BY <1>4 DEF Exact
<1>5. CASE (\E id \in Ids : SetStatus(id)) \/ CreateIndex \/ Restart
  BY <1>4, <1>5 DEF SetStatus, CreateIndex, Restart
<1>6. CASE Count \/ BuildFails \/ UNCHANGED vars
  <2>1. UNCHANGED <<rows, table, undisturbed, at, local>>
    BY <1>6 DEF Count, BuildFails, Fault, vars, lance
  <2>2. \A p \in undisturbed : SameSearch(p)
    BY <2>1 DEF SameSearch, local
  <2>. QED  BY <2>1, <2>2, SameSearchKept DEF Exact, SameSearch, TypeOK
<1>. QED  BY <1>1, <1>2, <1>3, <1>5, <1>6 DEF Next

-----------------------------------------------------------------------------

\* The invariant behind the others: types, places, and ids that are one's own.
THEOREM Invariant == Spec => []IInv
<1>1. Init => IInv
  BY InitTypes, InitSafe DEF IInv
<1>2. IInv /\ [Next]_vars => IInv'
  BY Inductive
<1>. QED  BY <1>1, <1>2, PTL DEF Spec

\* Every variable keeps its type, for any number of callers and memories.
THEOREM TypeCorrect == Spec => []TypeOK
<1>1. IInv => TypeOK
  BY DEF IInv
<1>. QED  BY <1>1, Invariant, PTL

\* A memory whose insert was answered Ok with an embedding has a vector, after
\* any failures, hang-ups and restarts (insert_memory of lancedb.rs).
THEOREM AcknowledgedIsFindable == Spec => []AcknowledgedHasVector
<1>1. IInv => AcknowledgedHasVector
  BY DEF IInv, Safe
<1>. QED  BY <1>1, Invariant, PTL

\* A row without an acknowledgement is that of an insert under way or of one of
\* the three failures insert_memory does not roll back.
THEOREM NoRowUnaccounted == Spec => []RowsAccountedFor
<1>1. IInv => RowsAccountedFor
  BY DEF IInv, Safe
<1>. QED  BY <1>1, Invariant, PTL

\* The table never holds two vectors of one id, since an update that would
\* replace one is refused before it adds another (quote_id_strict).
THEOREM VectorsAreUnique == Spec => []OneVectorPerId
<1>1. IInv => OneVectorPerId
  BY DEF IInv, Safe
<1>. QED  BY <1>1, Invariant, PTL

\* The vectors of deleted, purged and hidden rows and of other buckets starve
\* nobody: before an index is built, a search or dedup probe that saw no change
\* since its probe has a best answer over the rows of its bucket, through
\* oversampling, deepening and the filter by rows (vector_search_ns of lancedb.rs).
THEOREM SearchCorrect == Spec => []SearchIsExact
<1>1. Init => Exact
  BY DEF Init, Exact
<1>2. IInv /\ Exact /\ [Next]_vars => Exact'
  BY ExactInductive
<1>3. IInv /\ Exact => SearchIsExact
  BY CoveredIsExact DEF IInv, Safe
<1>. QED  BY <1>1, <1>2, <1>3, Invariant, PTL DEF Spec
=============================================================================
