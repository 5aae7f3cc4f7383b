--------------------------- MODULE RetentionProofs ---------------------------
(***************************************************************************)
(* Proofs about Retention, for any memories, thresholds, retention windows, *)
(* weights and number of concurrent ticks.                                 *)
(***************************************************************************)
EXTENDS Retention, TLAPS

Listing  == [id : Ids, idle : Ages]
Decision == [id : Ids, level : Levels]

\* Reaching level -1 refreshes updated_at, and everything after only refreshes it
\* again: what delete_archived_older_than compares with its threshold is never
\* older than the archiving.
ArchivedIsFresh ==
    \A id \in Ids :
        Present(id) /\ rows[id].level = -1 => rows[id].still <= archived_for[id]

IInv == TypeOK /\ ArchivedIsFresh

-----------------------------------------------------------------------------
(* Operators.                                                              *)

LEMMA Zero == 0 \in Ages /\ Ages \subseteq Nat
<1>1. MaxAge \in Nat
  BY RetentionAssumption
<1>. QED  BY <1>1 DEF Ages

\* update_access never takes the count beyond its bound.
LEMMA CountStays ==
    ASSUME NEW n \in 0..MaxCount
    PROVE  (IF n = MaxCount THEN MaxCount ELSE n + 1) \in 0..MaxCount
<1>1. MaxCount \in Nat
  BY RetentionAssumption
<1>. QED  BY <1>1

LEMMA OlderAge ==
    ASSUME NEW age \in Ages
    PROVE  Older(age) \in Ages
BY RetentionAssumption DEF Older, Ages

LEMMA OlderMonotone ==
    ASSUME NEW m \in Ages, NEW n \in Ages, m <= n
    PROVE  Older(m) <= Older(n)
BY RetentionAssumption DEF Older, Ages

LEMMA PresentRow ==
    ASSUME TypeOK, NEW id \in Ids, Present(id)
    PROVE  rows[id] \in Row
BY DEF TypeOK, Present

\* The decision is a level of the scale.
LEMMA DecideLevel ==
    ASSUME NEW m \in Row
    PROVE  Decide(m) \subseteq Levels
<1>1. m.level \in Levels
  BY DEF Row
<1>2. Promotes(m) => m.level + 1 \in Levels
  BY <1>1 DEF Promotes, Levels
<1>3. Demotes(m) => m.level - 1 \in Levels
  BY <1>1 DEF Demotes, Levels
<1>4. -1 \in Levels
  BY DEF Levels
<1>. QED  BY <1>2, <1>3, <1>4 DEF Decide

-----------------------------------------------------------------------------
(* Time and the others.                                                    *)

LEMMA PassInv ==
    ASSUME IInv, Pass
    PROVE  IInv'
<1>. USE DEF IInv
<1>1. ASSUME NEW id \in Ids, Present(id)
      PROVE  /\ Present(id)' /\ rows'[id] \in Row
             /\ rows'[id].level = rows[id].level
             /\ rows'[id].still = Older(rows[id].still)
  <2>1. rows[id] \in Row
    BY <1>1, PresentRow
  <2>2. rows'[id] = [rows[id] EXCEPT !.idle = Older(@), !.still = Older(@),
                        !.invalid = IF @ = Valid THEN Valid ELSE Older(@)]
    BY <1>1 DEF Pass
  <2>3. rows'[id] \in Row
    BY <2>1, <2>2, OlderAge DEF Row
  <2>. QED  BY <2>1, <2>2, <2>3, RetentionAssumption DEF Row, Present
<1>2. ASSUME NEW id \in Ids, ~Present(id)
      PROVE  rows'[id] = NoRow
  BY <1>2 DEF Pass
<1>3. TypeOK'
  <2>1. rows' \in [Ids -> Row \cup {NoRow}]
    BY <1>1, <1>2 DEF Pass
  <2>2. archived_for' \in [Ids -> Ages]
    BY OlderAge DEF Pass, TypeOK
  <2>. QED  BY <2>1, <2>2 DEF Pass, TypeOK, local
<1>4. ArchivedIsFresh'
  <2>1. ASSUME NEW id \in Ids, Present(id)', rows'[id].level = -1
        PROVE  rows'[id].still <= archived_for'[id]
    <3>1. Present(id)
      BY <2>1, <1>2 DEF Present
    <3>2. rows[id].still <= archived_for[id]
      BY <1>1, <2>1, <3>1 DEF ArchivedIsFresh
    <3>3. rows[id].still \in Ages /\ archived_for[id] \in Ages
      BY <3>1, PresentRow DEF Row, TypeOK
    <3>. QED  BY <1>1, <3>1, <3>2, <3>3, OlderMonotone DEF Pass
  <2>. QED  BY <2>1 DEF ArchivedIsFresh
<1>. QED  BY <1>3, <1>4

LEMMA InsertInv ==
    ASSUME IInv, NEW id \in Ids, Insert(id)
    PROVE  IInv'
<1>. DEFINE row == [level |-> 2, idle |-> 0, still |-> 0, count |-> 0, invalid |-> Valid]
<1>1. row \in Row
  BY RetentionAssumption DEF Row, Levels, Ages, Valid
<1>2. rows' = [rows EXCEPT ![id] = row]
  BY DEF Insert
<1>. HIDE DEF row
<1>3. rows' \in [Ids -> Row \cup {NoRow}] /\ writes' \in Nat /\ issued' \in SUBSET Ids
  BY <1>1, <1>2 DEF IInv, TypeOK, Insert, CountWrite
<1>4. TypeOK'
  BY <1>3 DEF IInv, TypeOK, Insert, local, history
<1>5. row.level = 2
  BY DEF row
<1>6. ArchivedIsFresh'
  BY <1>2, <1>5 DEF IInv, TypeOK, ArchivedIsFresh, Present, Insert, local, history
<1>. QED  BY <1>4, <1>6 DEF IInv

LEMMA AccessInv ==
    ASSUME IInv, NEW id \in Ids, Access(id)
    PROVE  IInv'
<1>1. rows[id] \in Row
  BY PresentRow DEF IInv, Access
<1>. DEFINE count == IF rows[id].count = MaxCount THEN MaxCount ELSE rows[id].count + 1
            row   == [rows[id] EXCEPT !.idle = 0, !.count = count]
<1>2. rows' = [rows EXCEPT ![id] = row]
  BY <1>1 DEF IInv, TypeOK, Access, Row
<1>3. row \in Row /\ row.level = rows[id].level /\ row.still = rows[id].still
  <2>1. rows[id].count \in 0..MaxCount
    BY <1>1 DEF Row
  <2>2. count \in 0..MaxCount
    BY <2>1, CountStays
  <2>. QED  BY <1>1, <2>2, Zero DEF Row
<1>. HIDE DEF row
<1>4. queue' \in [Ticks -> Seq(Listing)]
  <2>1. ASSUME NEW t \in Ticks
        PROVE  queue'[t] \in Seq(Listing)
    <3>1. queue[t] \in Seq(Listing)
      BY DEF IInv, TypeOK, Listing
    <3>2. queue'[t] = [i \in DOMAIN queue[t] |->
                          IF queue[t][i].id = id THEN [queue[t][i] EXCEPT !.idle = 0]
                          ELSE queue[t][i]]
      BY DEF Access
    <3>3. \A i \in DOMAIN queue[t] : queue[t][i] \in Listing
      BY <3>1
    <3>4. \A i \in DOMAIN queue[t] : queue'[t][i] \in Listing
      <4>1. \A e \in Listing : [e EXCEPT !.idle = 0] \in Listing
        BY Zero DEF Listing
      <4>. QED  BY <3>2, <3>3, <4>1
    <3>5. Len(queue[t]) \in Nat /\ DOMAIN queue[t] = 1..Len(queue[t])
      BY <3>1
    <3>6. queue'[t] \in [1..Len(queue[t]) -> Listing]
      BY <3>2, <3>4, <3>5
    <3>. QED  BY <3>5, <3>6
  <2>. QED  BY <2>1 DEF Access
<1>5. rows' \in [Ids -> Row \cup {NoRow}]
  BY <1>2, <1>3 DEF IInv, TypeOK
<1>6. writes' \in Nat /\ fallen' \in SUBSET Ids
  BY DEF IInv, TypeOK, Access, CountWrite
<1>7. TypeOK'
  BY <1>4, <1>5, <1>6 DEF IInv, TypeOK, Access, Listing
<1>8. ArchivedIsFresh'
  BY <1>2, <1>3 DEF IInv, TypeOK, ArchivedIsFresh, Present, Access
<1>. QED  BY <1>7, <1>8 DEF IInv

LEMMA TouchInv ==
    ASSUME IInv, NEW id \in Ids, Touch(id)
    PROVE  IInv'
<1>1. rows[id] \in Row
  BY PresentRow DEF IInv, Touch
<1>. DEFINE row == [rows[id] EXCEPT !.still = 0]
<1>2. rows' = [rows EXCEPT ![id] = row]
  BY <1>1 DEF IInv, TypeOK, Touch, Row
<1>3. row \in Row /\ row.still = 0
  BY <1>1, Zero DEF Row
<1>. HIDE DEF row
<1>4. rows' \in [Ids -> Row \cup {NoRow}]
  BY <1>2, <1>3 DEF IInv, TypeOK
<1>5. writes' \in Nat
  BY DEF IInv, TypeOK, Touch, CountWrite
<1>6. TypeOK'
  BY <1>4, <1>5 DEF IInv, TypeOK, Touch, local, history
<1>7. archived_for[id] \in Nat
  BY RetentionAssumption DEF IInv, TypeOK, Ages
<1>8. ArchivedIsFresh'
  BY <1>2, <1>3, <1>7
  DEF IInv, TypeOK, ArchivedIsFresh, Present, Touch, local, history
<1>. QED  BY <1>6, <1>8 DEF IInv

LEMMA InvalidateInv ==
    ASSUME IInv, NEW id \in Ids, Invalidate(id)
    PROVE  IInv'
<1>1. rows[id] \in Row
  BY PresentRow DEF IInv, Invalidate
<1>. DEFINE row == [rows[id] EXCEPT !.invalid = 0, !.still = 0]
<1>2. rows' = [rows EXCEPT ![id] = row]
  BY <1>1 DEF IInv, TypeOK, Invalidate, Row
<1>3. row \in Row /\ row.still = 0
  BY <1>1, Zero DEF Row
<1>. HIDE DEF row
<1>4. rows' \in [Ids -> Row \cup {NoRow}]
  BY <1>2, <1>3 DEF IInv, TypeOK
<1>5. writes' \in Nat
  BY DEF IInv, TypeOK, Invalidate, CountWrite
<1>6. TypeOK'
  BY <1>4, <1>5 DEF IInv, TypeOK, Invalidate, local, history
<1>7. archived_for[id] \in Nat
  BY RetentionAssumption DEF IInv, TypeOK, Ages
<1>8. ArchivedIsFresh'
  BY <1>2, <1>3, <1>7
  DEF IInv, TypeOK, ArchivedIsFresh, Present, Invalidate, local, history
<1>. QED  BY <1>6, <1>8 DEF IInv

LEMMA DeleteInv ==
    ASSUME IInv, NEW id \in Ids, Delete(id)
    PROVE  IInv'
<1>1. rows' \in [Ids -> Row \cup {NoRow}] /\ writes' \in Nat
  BY DEF IInv, TypeOK, Delete, CountWrite
<1>2. TypeOK'
  BY <1>1 DEF IInv, TypeOK, Delete, local, history
<1>3. ArchivedIsFresh'
  BY DEF IInv, TypeOK, ArchivedIsFresh, Present, Delete, local, history
<1>. QED  BY <1>2, <1>3 DEF IInv

-----------------------------------------------------------------------------
(* The tick.                                                               *)

\* The faults a call counts.
LEMMA OutcomeFaults ==
    ASSUME TypeOK, NEW ok \in BOOLEAN, Outcome(ok)
    PROVE  faults' \in Nat
BY DEF TypeOK, Outcome, Fault

LEMMA ListInv ==
    ASSUME IInv, NEW t \in Ticks, List(t)
    PROVE  IInv'
<1>1. PICK n \in 0..BatchSize : \E s \in [1..n -> Listed] :
          queue' = [queue EXCEPT ![t] =
              [i \in 1..n |-> [id |-> s[i], idle |-> rows[s[i]].idle]]]
  BY DEF List
<1>2. PICK s \in [1..n -> Listed] :
          queue' = [queue EXCEPT ![t] =
              [i \in 1..n |-> [id |-> s[i], idle |-> rows[s[i]].idle]]]
  BY <1>1
<1>. DEFINE listing == [i \in 1..n |-> [id |-> s[i], idle |-> rows[s[i]].idle]]
<1>3. ASSUME NEW i \in 1..n
      PROVE  [id |-> s[i], idle |-> rows[s[i]].idle] \in Listing
  <2>1. s[i] \in Ids /\ Present(s[i])
    BY DEF Listed
  <2>2. rows[s[i]] \in Row
    BY <2>1, PresentRow DEF IInv
  <2>. QED  BY <2>1, <2>2 DEF Row, Listing
<1>4. n \in Nat
  BY RetentionAssumption
<1>5. listing \in [1..n -> Listing]
  BY <1>3
<1>6. listing \in Seq(Listing)
  BY <1>4, <1>5
<1>7. queue' \in [Ticks -> Seq(Listing)]
  BY <1>2, <1>6 DEF IInv, TypeOK, Listing
<1>8. TypeOK'
  BY <1>7 DEF IInv, TypeOK, List, Goto, Listing, history
<1>9. ArchivedIsFresh'
  BY DEF IInv, ArchivedIsFresh, Present, List, history
<1>. QED  BY <1>8, <1>9 DEF IInv

LEMMA ReadInv ==
    ASSUME IInv, NEW t \in Ticks, Read(t)
    PROVE  IInv'
<1>. DEFINE id == Head(queue[t]).id
            m  == [rows[id] EXCEPT !.idle = Head(queue[t]).idle]
<1>1. /\ queue[t] \in Seq(Listing) /\ queue[t] # <<>>
      /\ batch[t] \in Seq(Decision)
  BY DEF IInv, TypeOK, Read, Listing, Decision
<1>2. Head(queue[t]) \in Listing /\ Tail(queue[t]) \in Seq(Listing)
  BY <1>1
<1>3. id \in Ids /\ Head(queue[t]).idle \in Ages
  BY <1>2 DEF Listing
<1>4. Present(id) => m \in Row
  BY <1>3, PresentRow DEF IInv, Row
<1>5. batch' \in [Ticks -> Seq(Decision)] /\ fallen' \in SUBSET Ids
  <2>1. CASE UNCHANGED <<batch, fallen>>
    BY <2>1 DEF IInv, TypeOK, Decision
  <2>2. CASE \E level \in Decide(m) :
                /\ Present(id)
                /\ batch' = [batch EXCEPT ![t] =
                        Append(@, [id |-> id, level |-> level])]
                /\ fallen' = IF level < m.level THEN fallen \cup {id} ELSE fallen
    <3>1. PICK level \in Decide(m) :
                /\ Present(id)
                /\ batch' = [batch EXCEPT ![t] =
                        Append(@, [id |-> id, level |-> level])]
                /\ fallen' = IF level < m.level THEN fallen \cup {id} ELSE fallen
      BY <2>2
    <3>2. level \in Levels
      BY <1>4, <3>1, DecideLevel
    <3>3. [id |-> id, level |-> level] \in Decision
      BY <1>3, <3>2 DEF Decision
    <3>4. Append(batch[t], [id |-> id, level |-> level]) \in Seq(Decision)
      BY <1>1, <3>3
    <3>. QED  BY <1>3, <3>1, <3>4 DEF IInv, TypeOK, Decision
  <2>. QED  BY <2>1, <2>2 DEF Read
<1>6. TypeOK'
  BY <1>2, <1>5 DEF IInv, TypeOK, Read, Listing, Decision
<1>7. ArchivedIsFresh'
  BY DEF IInv, ArchivedIsFresh, Present, Read
<1>. QED  BY <1>6, <1>7 DEF IInv

\* Both queues are dropped and the tick goes elsewhere.
LEMMA DropInv ==
    ASSUME IInv, NEW t \in Ticks, ListingFails(t) \/ Abort(t)
    PROVE  IInv'
<1>1. UNCHANGED <<rows, issued, archived_for, fallen, writes>>
  BY DEF ListingFails, Abort, history
<1>2. queue' \in [Ticks -> Seq(Listing)] /\ batch' \in [Ticks -> Seq(Decision)]
  <2>1. <<>> \in Seq(Listing) /\ <<>> \in Seq(Decision)
    OBVIOUS
  <2>2. queue' = [queue EXCEPT ![t] = <<>>] /\ batch' = [batch EXCEPT ![t] = <<>>]
    BY DEF ListingFails, Abort
  <2>. QED  BY <2>1, <2>2 DEF IInv, TypeOK, Listing, Decision
<1>3. pc' \in [Ticks -> {"idle", "read", "archived", "invalid"}] /\ faults' \in Nat
  <2>1. faults' = faults + 1
    BY DEF ListingFails, Abort, Fault
  <2>2. pc' = [pc EXCEPT ![t] = "archived"] \/ pc' = [pc EXCEPT ![t] = "idle"]
    BY DEF ListingFails, Abort, Goto
  <2>3. faults' \in Nat
    BY <2>1 DEF IInv, TypeOK
  <2>4. pc' \in [Ticks -> {"idle", "read", "archived", "invalid"}]
    BY <2>2 DEF IInv, TypeOK
  <2>. QED  BY <2>3, <2>4
<1>4. TypeOK'
  BY <1>1, <1>2, <1>3 DEF IInv, TypeOK, Listing, Decision
<1>5. ArchivedIsFresh'
  BY <1>1 DEF IInv, ArchivedIsFresh, Present
<1>. QED  BY <1>4, <1>5 DEF IInv

LEMMA ApplyInv ==
    ASSUME IInv, NEW t \in Ticks, NEW ok \in BOOLEAN, Apply(t, ok)
    PROVE  IInv'
<1>. DEFINE id    == Head(batch[t]).id
            level == Head(batch[t]).level
<1>1. batch[t] \in Seq(Decision) /\ batch[t] # <<>>
  BY DEF IInv, TypeOK, Apply, Decision
<1>2. Head(batch[t]) \in Decision /\ Tail(batch[t]) \in Seq(Decision)
  BY <1>1
<1>3. id \in Ids /\ level \in Levels
  BY <1>2 DEF Decision
<1>4. batch' \in [Ticks -> Seq(Decision)]
  BY <1>2 DEF IInv, TypeOK, Apply, Decision
<1>5. faults' \in Nat
  BY OutcomeFaults DEF IInv, Apply
<1>6. CASE ~(ok /\ Present(id))
  <2>1. UNCHANGED <<rows, archived_for>>
    BY <1>6 DEF Apply
  <2>. QED  BY <2>1, <1>4, <1>5
       DEF IInv, TypeOK, ArchivedIsFresh, Present, Apply, Decision
<1>7. CASE ok /\ Present(id)
  <2>1. /\ rows' = [rows EXCEPT ![id].level = level, ![id].still = 0]
        /\ archived_for' = [archived_for EXCEPT ![id] =
                IF level = -1 /\ rows[id].level # -1 THEN 0 ELSE @]
    BY <1>7 DEF Apply, WithLevel
  <2>2. rows[id] \in Row
    BY <1>3, <1>7, PresentRow DEF IInv
  <2>3. 0 \in Ages
    BY RetentionAssumption DEF Ages
  <2>4. rows'[id] \in Row /\ rows'[id].still = 0
    BY <1>3, <2>1, <2>2, <2>3 DEF IInv, TypeOK, Row
  <2>5. rows' \in [Ids -> Row \cup {NoRow}] /\ archived_for' \in [Ids -> Ages]
    BY <1>3, <2>1, <2>3, <2>4 DEF IInv, TypeOK
  <2>6. TypeOK'
    BY <1>4, <1>5, <2>5 DEF IInv, TypeOK, Apply, Decision
  <2>7. ArchivedIsFresh'
    <3>1. ASSUME NEW x \in Ids, Present(x)', rows'[x].level = -1
          PROVE  rows'[x].still <= archived_for'[x]
      <4>1. CASE x = id
        BY <2>4, <2>5, <4>1, RetentionAssumption DEF Ages
      <4>2. CASE x # id
        BY <2>1, <3>1, <4>2 DEF IInv, TypeOK, ArchivedIsFresh, Present
      <4>. QED  BY <4>1, <4>2
    <3>. QED  BY <3>1 DEF ArchivedIsFresh
  <2>. QED  BY <2>6, <2>7 DEF IInv
<1>. QED  BY <1>6, <1>7

LEMMA AppliedInv ==
    ASSUME IInv, NEW t \in Ticks, Applied(t)
    PROVE  IInv'
BY DEF IInv, TypeOK, ArchivedIsFresh, Present, Applied, Goto, history

\* Deleting rows disturbs none of those left.
LEMMA WithoutRows ==
    ASSUME TypeOK, NEW ids
    PROVE  /\ Without(ids) \in [Ids -> Row \cup {NoRow}]
           /\ \A id \in Ids : Without(ids)[id] \in {rows[id], NoRow}
BY DEF TypeOK, Without

LEMMA SweepInv ==
    ASSUME IInv, NEW t \in Ticks, NEW ok \in BOOLEAN,
           DeleteArchived(t, ok) \/ PurgeInvalidated(t, ok)
    PROVE  IInv'
<1>1. /\ rows' \in [Ids -> Row \cup {NoRow}]
      /\ \A id \in Ids : rows'[id] \in {rows[id], NoRow}
  BY WithoutRows DEF IInv, TypeOK, DeleteArchived, PurgeInvalidated
<1>2. faults' \in Nat
  BY OutcomeFaults DEF IInv, DeleteArchived, PurgeInvalidated
<1>3. TypeOK'
  BY <1>1, <1>2 DEF IInv, TypeOK, DeleteArchived, PurgeInvalidated, Goto, history
<1>4. ArchivedIsFresh'
  BY <1>1 DEF IInv, ArchivedIsFresh, Present, DeleteArchived, PurgeInvalidated, history
<1>. QED  BY <1>3, <1>4 DEF IInv

-----------------------------------------------------------------------------
LEMMA InitInv == Init => IInv
<1>1. [level |-> 2, idle |-> 0, still |-> 0, count |-> 0, invalid |-> Valid] \in Row
  BY RetentionAssumption DEF Row, Levels, Ages, Valid
<1>2. Init => TypeOK
  BY <1>1, RetentionAssumption DEF Init, TypeOK, Ages
<1>3. Init => ArchivedIsFresh
  BY DEF Init, ArchivedIsFresh, Present
<1>. QED  BY <1>2, <1>3 DEF IInv

LEMMA NextInv == IInv /\ [Next]_vars => IInv'
<1>. SUFFICES ASSUME IInv, [Next]_vars
              PROVE  IInv'
  OBVIOUS
<1>1. CASE Pass
  BY <1>1, PassInv
<1>2. ASSUME NEW id \in Ids,
             Insert(id) \/ Access(id) \/ Touch(id) \/ Invalidate(id) \/ Delete(id)
      PROVE  IInv'
  BY <1>2, InsertInv, AccessInv, TouchInv, InvalidateInv, DeleteInv
<1>3. ASSUME NEW t \in Ticks, Step(t)
      PROVE  IInv'
  <2>1. CASE List(t) \/ Read(t) \/ ListingFails(t) \/ Applied(t)
    BY <2>1, ListInv, ReadInv, DropInv, AppliedInv
  <2>2. ASSUME NEW ok \in BOOLEAN,
               Apply(t, ok) \/ DeleteArchived(t, ok) \/ PurgeInvalidated(t, ok)
        PROVE  IInv'
    BY <2>2, ApplyInv, SweepInv
  <2>. QED  BY <1>3, <2>1, <2>2 DEF Step
<1>4. ASSUME NEW t \in Ticks, Abort(t)
      PROVE  IInv'
  BY <1>4, DropInv
<1>5. CASE UNCHANGED vars
  BY <1>5 DEF IInv, TypeOK, ArchivedIsFresh, Present, vars, local, history
<1>. QED  BY <1>1, <1>2, <1>3, <1>4, <1>5 DEF Next, Outside

THEOREM Invariance == Spec => []IInv
<1>. QED  BY InitInv, NextInv, PTL DEF Spec

\* The variables keep their types, for any thresholds and number of ticks.
THEOREM TypeCorrect == Spec => []TypeOK
<1>1. IInv => TypeOK
  BY DEF IInv
<1>. QED  BY <1>1, Invariance, PTL

-----------------------------------------------------------------------------
(* Who moves a tick from the deletion of the archived rows to the purge.   *)

LEMMA OnlyDeleteArchived ==
    ASSUME IInv, Next, NEW t \in Ticks, pc[t] = "archived", pc'[t] = "invalid"
    PROVE  \E ok \in BOOLEAN : DeleteArchived(t, ok)
<1>1. ASSUME NEW u \in Ticks, u # t, Step(u) \/ Abort(u)
      PROVE  pc'[t] = pc[t]
  BY <1>1 DEF IInv, TypeOK, Step, List, Read, ListingFails, Apply, Applied,
              DeleteArchived, PurgeInvalidated, Abort, Goto
<1>2. ~Pass /\ ~Outside
  BY DEF Pass, Outside, Insert, Access, Touch, Invalidate, Delete, local
<1>3. Step(t) \/ Abort(t)
  BY <1>1, <1>2 DEF Next
<1>. QED  BY <1>3 DEF IInv, TypeOK, Step, List, Read, ListingFails, Apply, Applied,
                      PurgeInvalidated, Abort, Goto

\* A tick deletes an archived row only when it has been archived for longer than
\* archive_days, whichever tick archived it and whoever touched it since.
THEOREM ArchivingIsNoDeletion == Spec => ArchiveIsGranted
<1>. DEFINE Granted ==
        \A id \in Ids, t \in Ticks :
            pc[t] = "archived" /\ pc'[t] = "invalid" /\ Present(id) /\ ~Present(id)'
                => archived_for[id] > ArchiveDays
<1>1. ASSUME IInv, Next, NEW id \in Ids, NEW t \in Ticks,
             pc[t] = "archived", pc'[t] = "invalid", Present(id), ~Present(id)'
      PROVE  archived_for[id] > ArchiveDays
  <2>1. PICK ok \in BOOLEAN : DeleteArchived(t, ok)
    BY <1>1, OnlyDeleteArchived
  <2>2. rows[id].level = -1 /\ rows[id].still > ArchiveDays
    BY <1>1, <2>1 DEF DeleteArchived, Without, Present
  <2>3. rows[id].still <= archived_for[id]
    BY <1>1, <2>2 DEF IInv, ArchivedIsFresh
  <2>4. rows[id].still \in Nat /\ archived_for[id] \in Nat
    BY <1>1, PresentRow, Zero DEF IInv, TypeOK, Row
  <2>5. ArchiveDays \in Nat
    BY RetentionAssumption
  <2>. QED  BY <2>2, <2>3, <2>4, <2>5
<1>2. IInv /\ [Next]_vars => [Granted]_vars
  BY <1>1
<1>. QED  BY <1>2, Invariance, PTL DEF Spec, ArchiveIsGranted
-----------------------------------------------------------------------------
(* The scheduler's tick alone: a memory that falls does not rise by itself. *)

\* Weights only sink with age, so what no decision at this age promotes, none at
\* a later one does.
Sunk(idle, count) ==
    LET weight == Retained[idle] * Bonus[count]
    IN  weight < ToArchive \/ count < MinAccess \/ weight < ToUpgrade

\* An id is listed once and decided once; one a tick has demoted and nobody
\* accessed since is at an age from which it only sinks, by the row and by the
\* listing, and the decision that waits for it does not raise it.
Falling(t) ==
    /\ pc[t] # "read" => queue[t] = <<>> /\ batch[t] = <<>>
    /\ \A id \in Ids : Present(id) => id \in issued
    /\ fallen \subseteq issued
    /\ \A i \in DOMAIN queue[t] : queue[t][i].id \in issued
    /\ \A j \in DOMAIN batch[t] : batch[t][j].id \in issued
    /\ \A i, j \in DOMAIN queue[t] : queue[t][i].id = queue[t][j].id => i = j
    /\ \A i, j \in DOMAIN batch[t] : batch[t][i].id = batch[t][j].id => i = j
    /\ \A i \in DOMAIN queue[t], j \in DOMAIN batch[t] : queue[t][i].id # batch[t][j].id
    /\ \A i \in DOMAIN queue[t] : Present(queue[t][i].id) =>
            /\ queue[t][i].idle <= rows[queue[t][i].id].idle
            /\ queue[t][i].id \in fallen =>
                    Sunk(queue[t][i].idle, rows[queue[t][i].id].count)
    /\ \A id \in fallen : Present(id) => Sunk(rows[id].idle, rows[id].count)
    /\ \A j \in DOMAIN batch[t] : batch[t][j].id \in fallen /\ Present(batch[t][j].id) =>
            batch[t][j].level <= rows[batch[t][j].id].level

LEMMA TimesMonotone ==
    ASSUME NEW a \in Nat, NEW b \in Nat, NEW c \in Nat, a <= b
    PROVE  a * c <= b * c
<1>. DEFINE d == b - a
<1>1. d \in Nat /\ b = a + d
  OBVIOUS
<1>. HIDE DEF d
<1>2. d * c \in Nat /\ a * c \in Nat
  BY <1>1
<1>3. (a + d) * c = a * c + d * c
  BY <1>1
<1>. QED  BY <1>1, <1>2, <1>3

LEMMA SunkStays ==
    ASSUME NEW m \in Ages, NEW n \in Ages, m <= n, NEW count \in 0..MaxCount, Sunk(m, count)
    PROVE  Sunk(n, count)
<1>. DEFINE v == Retained[m] * Bonus[count]
            w == Retained[n] * Bonus[count]
<1>1. /\ Retained[m] \in Nat /\ Retained[n] \in Nat /\ Bonus[count] \in Nat
      /\ Retained[n] <= Retained[m]
      /\ ToArchive \in Nat /\ ToUpgrade \in Nat
  BY RetentionAssumption
<1>2. w <= v
  BY <1>1, TimesMonotone
<1>3. v \in Nat /\ w \in Nat
  BY <1>1
<1>4. v < ToArchive \/ count < MinAccess \/ v < ToUpgrade
  BY DEF Sunk
<1>. HIDE DEF v, w
<1>5. w < ToArchive \/ count < MinAccess \/ w < ToUpgrade
  BY <1>1, <1>2, <1>3, <1>4
<1>. QED  BY <1>5 DEF Sunk, w

\* A decision does not raise a row that has sunk, and lowers none that has not.
LEMMA DecisionOfSunk ==
    ASSUME NEW m \in Row, NEW level \in Decide(m)
    PROVE  /\ Sunk(m.idle, m.count) => level <= m.level
           /\ level < m.level => Sunk(m.idle, m.count)
<1>1. /\ m.level \in Levels /\ m.count \in 0..MaxCount /\ m.idle \in Ages
      /\ MaxCount \in Nat
  BY RetentionAssumption DEF Row
<1>2. /\ Retained[m.idle] \in Nat /\ Bonus[m.count] \in Nat
      /\ {ToL1, ToL0, ToArchive, ToUpgrade, MinAccess} \subseteq Nat
      /\ ToUpgrade > ToL1
  BY <1>1, RetentionAssumption
<1>. DEFINE w == Retained[m.idle] * Bonus[m.count]
<1>3. w \in Nat
  BY <1>2
<1>4. Weight(m) = w /\ (Sunk(m.idle, m.count) <=>
                            w < ToArchive \/ m.count < MinAccess \/ w < ToUpgrade)
  BY DEF Weight, Sunk
<1>. HIDE DEF w
<1>5. CASE w < ToArchive
  <2>1. level = -1
    BY <1>4, <1>5 DEF Decide
  <2>. QED  BY <1>1, <1>4, <1>5, <2>1 DEF Levels
<1>6. CASE ~(w < ToArchive) /\ Promotes(m)
  <2>1. level = m.level + 1
    BY <1>4, <1>6 DEF Decide
  <2>2. m.count >= MinAccess /\ w >= ToUpgrade
    BY <1>4, <1>6 DEF Promotes
  <2>. QED  BY <1>1, <1>2, <1>3, <1>4, <1>6, <2>1, <2>2 DEF Levels
<1>7. CASE ~(w < ToArchive) /\ ~Promotes(m)
  <2>1. Demotes(m) /\ level = m.level - 1
    BY <1>4, <1>7 DEF Decide
  <2>2. (m.level = 2 /\ w < ToL1) \/ (m.level = 1 /\ w < ToL0)
    BY <1>3, <1>4, <2>1 DEF Demotes
  <2>3. m.level = 2 => w < ToUpgrade
    BY <1>2, <1>3, <2>2
  <2>4. m.level = 1 => m.count < MinAccess \/ w < ToUpgrade
    BY <1>1, <1>2, <1>3, <1>4, <1>7 DEF Promotes
  <2>. QED  BY <1>1, <1>4, <2>1, <2>2, <2>3, <2>4 DEF Levels
<1>. QED  BY <1>5, <1>6, <1>7

LEMMA QueueTypes ==
    ASSUME TypeOK, NEW t \in Ticks
    PROVE  /\ queue[t] \in Seq(Listing) /\ batch[t] \in Seq(Decision)
           /\ \A i \in DOMAIN queue[t] : /\ queue[t][i].id \in Ids
                                         /\ queue[t][i].idle \in Ages
           /\ \A j \in DOMAIN batch[t] : /\ batch[t][j].id \in Ids
                                         /\ batch[t][j].level \in Levels
<1>1. queue[t] \in Seq(Listing) /\ batch[t] \in Seq(Decision)
  BY DEF TypeOK, Listing, Decision
<1>2. /\ \A i \in DOMAIN queue[t] : queue[t][i] \in Listing
      /\ \A j \in DOMAIN batch[t] : batch[t][j] \in Decision
  BY <1>1
<1>. QED  BY <1>1, <1>2 DEF Listing, Decision

\* Steps that decide nothing: a row that stays keeps its level and its count and
\* gets no younger, and one that comes is new.
LEMMA CalmKeepsFalling ==
    ASSUME TypeOK, TypeOK', NEW t \in Ticks, Falling(t),
           queue'[t] = queue[t], batch'[t] = batch[t], fallen' = fallen,
           pc[t] = "read" => pc'[t] = "read",
           issued \subseteq issued',
           \A id \in Ids : Present(id)' =>
               \/ id \notin issued /\ id \in issued'
               \/ /\ Present(id)
                  /\ rows'[id].level = rows[id].level /\ rows'[id].count = rows[id].count
                  /\ rows[id].idle <= rows'[id].idle
    PROVE  Falling(t)'
<1>1. \A id \in Ids : Present(id) =>
          /\ rows[id].idle \in Ages /\ rows[id].count \in 0..MaxCount
          /\ rows[id].level \in Levels
  BY PresentRow DEF Row
<1>2. \A id \in Ids : Present(id)' => rows'[id].idle \in Ages
  BY DEF TypeOK, Present, Row
<1>3. \A i \in DOMAIN queue[t] : /\ queue[t][i].id \in Ids
                                 /\ queue[t][i].idle \in Ages
  BY QueueTypes
<1>4. \A j \in DOMAIN batch[t] : batch[t][j].id \in Ids
  BY QueueTypes
<1>5. \A i \in DOMAIN queue'[t] : rows'[queue'[t][i].id] # NoRow =>
          /\ queue'[t][i].idle <= rows'[queue'[t][i].id].idle
          /\ queue'[t][i].id \in fallen' =>
                    Sunk(queue'[t][i].idle, rows'[queue'[t][i].id].count)
  <2>. TAKE i \in DOMAIN queue'[t]
  <2>. HAVE rows'[queue'[t][i].id] # NoRow
  <2>. DEFINE id == queue[t][i].id
  <2>1. id \in Ids /\ id \in issued /\ queue[t][i].idle \in Ages /\ rows'[id] # NoRow
    BY <1>3 DEF Falling, Present
  <2>2. /\ Present(id) /\ rows'[id].count = rows[id].count
        /\ rows[id].idle <= rows'[id].idle
    BY <2>1 DEF Present
  <2>3. /\ queue[t][i].idle <= rows[id].idle
        /\ id \in fallen => Sunk(queue[t][i].idle, rows[id].count)
    BY <2>2 DEF Falling
  <2>4. rows[id].idle \in Ages /\ rows'[id].idle \in Ages
    BY <1>1, <1>2, <2>1, <2>2 DEF Present
  <2>. HIDE DEF id
  <2>5. queue[t][i].idle <= rows'[id].idle
    <3>1. queue[t][i].idle \in Nat /\ rows[id].idle \in Nat /\ rows'[id].idle \in Nat
      BY <2>1, <2>4, Zero
    <3>. QED  BY <2>2, <2>3, <3>1
  <2>. QED  BY <2>2, <2>3, <2>5 DEF id
<1>6. \A id \in fallen' : Present(id)' => Sunk(rows'[id].idle, rows'[id].count)
  <2>. SUFFICES ASSUME NEW id \in fallen, Present(id)'
                PROVE  Sunk(rows'[id].idle, rows'[id].count)
    OBVIOUS
  <2>1. id \in Ids /\ id \in issued
    BY DEF Falling, TypeOK
  <2>2. /\ Present(id) /\ rows'[id].count = rows[id].count
        /\ rows[id].idle <= rows'[id].idle
    BY <2>1
  <2>3. Sunk(rows[id].idle, rows[id].count)
    BY <2>2 DEF Falling
  <2>. QED  BY <1>1, <1>2, <2>1, <2>2, <2>3, SunkStays
<1>7. \A j \in DOMAIN batch'[t] :
          batch'[t][j].id \in fallen' /\ rows'[batch'[t][j].id] # NoRow =>
            batch'[t][j].level <= rows'[batch'[t][j].id].level
  <2>. TAKE j \in DOMAIN batch'[t]
  <2>. HAVE batch'[t][j].id \in fallen' /\ rows'[batch'[t][j].id] # NoRow
  <2>1. batch[t][j].id \in Ids /\ batch[t][j].id \in issued /\ rows'[batch[t][j].id] # NoRow
    BY <1>4 DEF Falling, Present
  <2>2. /\ Present(batch[t][j].id)
        /\ rows'[batch[t][j].id].level = rows[batch[t][j].id].level
    BY <2>1 DEF Present
  <2>. QED  BY <2>2 DEF Falling
<1>8. \A id \in Ids : Present(id)' => id \in issued'
  BY DEF Falling
<1>9. /\ pc'[t] # "read" => queue'[t] = <<>> /\ batch'[t] = <<>>
      /\ fallen' \subseteq issued'
      /\ \A i \in DOMAIN queue'[t] : queue'[t][i].id \in issued'
      /\ \A j \in DOMAIN batch'[t] : batch'[t][j].id \in issued'
      /\ \A i, j \in DOMAIN queue'[t] : queue'[t][i].id = queue'[t][j].id => i = j
      /\ \A i, j \in DOMAIN batch'[t] : batch'[t][i].id = batch'[t][j].id => i = j
      /\ \A i \in DOMAIN queue'[t], j \in DOMAIN batch'[t] :
            queue'[t][i].id # batch'[t][j].id
  BY DEF Falling
<1>. QED  BY <1>5, <1>6, <1>7, <1>8, <1>9 DEF Falling, Present

\* What the head and the tail of a list have.
LEMMA HeadTail ==
    ASSUME NEW S, NEW s \in Seq(S), s # <<>>
    PROVE  /\ 1 \in DOMAIN s /\ Head(s) = s[1] /\ Tail(s) \in Seq(S)
           /\ \A i \in DOMAIN Tail(s) : /\ i + 1 \in DOMAIN s /\ i + 1 # 1
                                        /\ Tail(s)[i] = s[i + 1]
           /\ \A i, j \in DOMAIN Tail(s) : i + 1 = j + 1 => i = j
<1>1. Len(s) \in Nat /\ Len(s) > 0 /\ DOMAIN s = 1..Len(s)
  OBVIOUS
<1>2. Len(Tail(s)) = Len(s) - 1 /\ DOMAIN Tail(s) = 1..(Len(s) - 1) /\ Tail(s) \in Seq(S)
  BY <1>1
<1>3. \A i \in 1..(Len(s) - 1) : Tail(s)[i] = s[i + 1] /\ i + 1 \in 1..Len(s) /\ i + 1 # 1
  BY <1>1
<1>4. Head(s) = s[1]
  OBVIOUS
<1>. QED  BY <1>1, <1>2, <1>3, <1>4

LEMMA PassFalling ==
    ASSUME IInv, IInv', NEW t \in Ticks, Falling(t), Pass
    PROVE  Falling(t)'
<1>1. ASSUME NEW id \in Ids, Present(id)'
      PROVE  /\ Present(id)
             /\ rows'[id].level = rows[id].level /\ rows'[id].count = rows[id].count
             /\ rows[id].idle <= rows'[id].idle
  <2>1. Present(id)
    BY <1>1 DEF Pass, Present
  <2>2. rows'[id] = [rows[id] EXCEPT !.idle = Older(@), !.still = Older(@),
                        !.invalid = IF @ = Valid THEN Valid ELSE Older(@)]
    BY <2>1 DEF Pass
  <2>3. rows[id] \in Row
    BY <2>1, PresentRow DEF IInv
  <2>4. rows[id].idle <= Older(rows[id].idle)
    BY <2>3, RetentionAssumption DEF Row, Ages, Older
  <2>. QED  BY <2>1, <2>2, <2>3, <2>4 DEF Row
<1>2. /\ queue'[t] = queue[t] /\ batch'[t] = batch[t] /\ fallen' = fallen
      /\ pc' = pc /\ issued' = issued
  BY DEF Pass, local
<1>. QED  BY <1>1, <1>2, CalmKeepsFalling DEF IInv

\* Calls of others but an access, and the deletions of a tick.
LEMMA OtherFalling ==
    ASSUME IInv, IInv', NEW t \in Ticks, Falling(t),
           \/ \E id \in Ids : Insert(id) \/ Touch(id) \/ Invalidate(id) \/ Delete(id)
           \/ \E ok \in BOOLEAN : DeleteArchived(t, ok) \/ PurgeInvalidated(t, ok)
           \/ UNCHANGED vars
    PROVE  Falling(t)'
<1>1. ASSUME NEW id \in Ids, Present(id)
      PROVE  rows[id] \in Row /\ rows[id].idle \in Nat
  <2>1. rows[id] \in Row
    BY <1>1, PresentRow DEF IInv
  <2>. QED  BY <2>1, Zero DEF Row
<1>2. CASE \E id \in Ids : Touch(id) \/ Invalidate(id)
  <2>1. PICK id \in Ids : Touch(id) \/ Invalidate(id)
    BY <1>2
  <2>2. Present(id) /\ rows[id] \in Row
    BY <1>1, <2>1 DEF Touch, Invalidate
  <2>3. /\ rows' = [rows EXCEPT ![id] = rows'[id]]
        /\ rows'[id].level = rows[id].level /\ rows'[id].count = rows[id].count
        /\ rows'[id].idle = rows[id].idle
    BY <2>1, <2>2 DEF Touch, Invalidate, Row, IInv, TypeOK
  <2>4. \A x \in Ids : Present(x)' => Present(x) /\ (x = id \/ rows'[x] = rows[x])
    BY <2>2, <2>3 DEF Present, IInv, TypeOK
  <2>5. /\ queue'[t] = queue[t] /\ batch'[t] = batch[t] /\ fallen' = fallen
        /\ pc' = pc /\ issued' = issued
    BY <2>1 DEF Touch, Invalidate, local, history
  <2>. QED  BY <1>1, <2>3, <2>4, <2>5, CalmKeepsFalling DEF IInv
<1>3. CASE \E id \in Ids : Insert(id)
  <2>1. PICK id \in Ids : Insert(id)
    BY <1>3
  <2>2. \A x \in Ids : Present(x)' => \/ x = id /\ id \notin issued /\ id \in issued'
                                      \/ Present(x) /\ rows'[x] = rows[x]
    BY <2>1 DEF Insert, Present, IInv, TypeOK
  <2>3. /\ queue'[t] = queue[t] /\ batch'[t] = batch[t] /\ fallen' = fallen
        /\ pc' = pc /\ issued \subseteq issued'
    BY <2>1 DEF Insert, local, history
  <2>. QED  BY <1>1, <2>2, <2>3, CalmKeepsFalling DEF IInv
<1>4. CASE \/ \E id \in Ids : Delete(id)
           \/ \E ok \in BOOLEAN : DeleteArchived(t, ok) \/ PurgeInvalidated(t, ok)
           \/ UNCHANGED vars
  <2>1. \A x \in Ids : Present(x)' => Present(x) /\ rows'[x] = rows[x]
    BY <1>4 DEF Delete, DeleteArchived, PurgeInvalidated, Without, Present, IInv, TypeOK, vars
  <2>2. /\ queue'[t] = queue[t] /\ batch'[t] = batch[t] /\ fallen' = fallen
        /\ pc[t] = "read" => pc'[t] = "read"
        /\ issued' = issued
    BY <1>4 DEF Delete, DeleteArchived, PurgeInvalidated, local, history, vars
  <2>. QED  BY <1>1, <2>1, <2>2, CalmKeepsFalling DEF IInv
<1>. QED  BY <1>2, <1>3, <1>4

\* An access takes the id out of fallen, and the listing for younger with it.
LEMMA AccessFalling ==
    ASSUME IInv, IInv', NEW t \in Ticks, Falling(t), NEW id \in Ids, Access(id)
    PROVE  Falling(t)'
<1>1. rows[id] \in Row /\ Present(id)
  BY PresentRow DEF IInv, Access
<1>2. /\ \A x \in Ids : (Present(x)' <=> Present(x)) /\ (x # id => rows'[x] = rows[x])
      /\ rows'[id].idle = 0
  <2>1. rows'[id] \in Row /\ rows'[id].idle = 0
    <3>1. rows'[id] \in Row \cup {NoRow}
      BY DEF IInv, TypeOK
    <3>2. DOMAIN rows'[id] = DOMAIN rows[id] /\ rows'[id].idle = 0
      BY <1>1 DEF Access, IInv, TypeOK, Row
    <3>3. rows'[id] # NoRow
      <4>. DEFINE count == IF rows[id].count = MaxCount THEN MaxCount ELSE rows[id].count + 1
                  row   == [rows[id] EXCEPT !.idle = 0, !.count = count]
      <4>1. rows'[id] = row
        BY <1>1 DEF IInv, TypeOK, Access, Row
      <4>2. rows[id].count \in 0..MaxCount
        BY <1>1 DEF Row
      <4>3. count \in 0..MaxCount
        BY <4>2, CountStays
      <4>4. row \in Row
        BY <1>1, <4>3, Zero DEF Row
      <4>. QED  BY <4>1, <4>4, RetentionAssumption
    <3>. QED  BY <3>1, <3>2, <3>3
  <2>2. \A x \in Ids : x # id => rows'[x] = rows[x]
    BY DEF Access, IInv, TypeOK
  <2>. QED  BY <1>1, <2>1, <2>2, RetentionAssumption DEF Present
<1>3. /\ batch' = batch /\ fallen' = fallen \ {id} /\ pc' = pc /\ issued' = issued
  BY DEF Access
<1>4. /\ DOMAIN queue'[t] = DOMAIN queue[t]
      /\ \A i \in DOMAIN queue[t] :
            /\ queue'[t][i].id = queue[t][i].id
            /\ queue[t][i].id = id => queue'[t][i].idle = 0
            /\ queue[t][i].id # id => queue'[t][i] = queue[t][i]
  <2>1. queue'[t] = [i \in DOMAIN queue[t] |->
                        IF queue[t][i].id = id THEN [queue[t][i] EXCEPT !.idle = 0]
                        ELSE queue[t][i]]
    BY DEF Access
  <2>2. \A i \in DOMAIN queue[t] : queue[t][i] \in Listing
    <3>1. queue[t] \in Seq(Listing)
      BY QueueTypes DEF IInv
    <3>. QED  BY <3>1
  <2>3. \A e \in Listing : [e EXCEPT !.idle = 0].id = e.id /\ [e EXCEPT !.idle = 0].idle = 0
    BY DEF Listing
  <2>. QED  BY <2>1, <2>2, <2>3
<1>5. queue[t] = <<>> => queue'[t] = <<>>
  <2>1. queue'[t] \in Seq(Listing) /\ queue[t] \in Seq(Listing)
    BY QueueTypes DEF IInv, TypeOK, Listing
  <2>2. queue[t] = <<>> => DOMAIN queue'[t] = {}
    BY <1>4
  <2>3. DOMAIN queue'[t] = 1..Len(queue'[t]) /\ Len(queue'[t]) \in Nat
    BY <2>1
  <2>4. Len(queue'[t]) # 0 => 1 \in 1..Len(queue'[t])
    BY <2>3
  <2>5. queue[t] = <<>> => Len(queue'[t]) = 0
    BY <2>2, <2>3, <2>4
  <2>. QED  BY <2>1, <2>5
<1>6. \A i \in DOMAIN queue[t] : queue[t][i].id \in Ids
  BY QueueTypes DEF IInv
<1>7. \A j \in DOMAIN batch[t] : batch[t][j].id \in Ids
  BY QueueTypes DEF IInv
<1>8. \A i \in DOMAIN queue'[t] : rows'[queue'[t][i].id] # NoRow =>
          /\ queue'[t][i].idle <= rows'[queue'[t][i].id].idle
          /\ queue'[t][i].id \in fallen' =>
                    Sunk(queue'[t][i].idle, rows'[queue'[t][i].id].count)
  BY <1>2, <1>3, <1>4, <1>6 DEF Falling, Present
<1>9. \A x \in fallen' : rows'[x] # NoRow => Sunk(rows'[x].idle, rows'[x].count)
  BY <1>2, <1>3 DEF Falling, Present, IInv, TypeOK
<1>10. \A j \in DOMAIN batch'[t] :
          batch'[t][j].id \in fallen' /\ rows'[batch'[t][j].id] # NoRow =>
            batch'[t][j].level <= rows'[batch'[t][j].id].level
  BY <1>2, <1>3, <1>7 DEF Falling, Present
<1>11. /\ pc'[t] # "read" => queue'[t] = <<>> /\ batch'[t] = <<>>
       /\ \A x \in Ids : rows'[x] # NoRow => x \in issued'
       /\ fallen' \subseteq issued'
       /\ \A i \in DOMAIN queue'[t] : queue'[t][i].id \in issued'
       /\ \A j \in DOMAIN batch'[t] : batch'[t][j].id \in issued'
  BY <1>2, <1>3, <1>4, <1>5 DEF Falling, Present
<1>12. /\ \A i, j \in DOMAIN queue'[t] : queue'[t][i].id = queue'[t][j].id => i = j
       /\ \A i, j \in DOMAIN batch'[t] : batch'[t][i].id = batch'[t][j].id => i = j
       /\ \A i \in DOMAIN queue'[t], j \in DOMAIN batch'[t] :
            queue'[t][i].id # batch'[t][j].id
  BY <1>3, <1>4 DEF Falling
<1>. QED  BY <1>8, <1>9, <1>10, <1>11, <1>12 DEF Falling, Present

\* A listing names each listed row once, with its age.
LEMMA ListFalling ==
    ASSUME IInv, IInv', NEW t \in Ticks, Falling(t), List(t)
    PROVE  Falling(t)'
<1>1. PICK n \in 0..BatchSize : \E s \in [1..n -> Listed] :
        /\ \A i, j \in 1..n : i < j => s[i] # s[j] /\ rows[s[i]].idle >= rows[s[j]].idle
        /\ \A id \in Listed \ {s[i] : i \in 1..n} :
            /\ n = BatchSize
            /\ \A i \in 1..n : rows[s[i]].idle >= rows[id].idle
        /\ queue' = [queue EXCEPT ![t] =
                [i \in 1..n |-> [id |-> s[i], idle |-> rows[s[i]].idle]]]
  BY Zenon DEF List
<1>2. PICK s \in [1..n -> Listed] :
        /\ \A i, j \in 1..n : i < j => s[i] # s[j] /\ rows[s[i]].idle >= rows[s[j]].idle
        /\ queue' = [queue EXCEPT ![t] =
                [i \in 1..n |-> [id |-> s[i], idle |-> rows[s[i]].idle]]]
  BY <1>1, Zenon
<1>3. n \in Nat
  BY RetentionAssumption
<1>4. \A i, j \in 1..n : s[i] = s[j] => i = j
  BY <1>2, <1>3
<1>5. queue'[t] = [i \in 1..n |-> [id |-> s[i], idle |-> rows[s[i]].idle]]
  BY <1>2 DEF IInv, TypeOK
<1>6. DOMAIN queue'[t] = 1..n
      /\ \A i \in 1..n : queue'[t][i].id = s[i] /\ queue'[t][i].idle = rows[s[i]].idle
  BY <1>5
<1>7. /\ rows' = rows /\ issued' = issued /\ batch' = batch /\ fallen' = fallen
      /\ pc'[t] = "read" /\ batch[t] = <<>>
  BY DEF List, Goto, history, IInv, TypeOK, Falling
<1>8. \A i \in 1..n : s[i] \in Ids /\ Present(s[i]) /\ rows[s[i]].idle \in Nat
  <2>1. \A i \in 1..n : s[i] \in Ids /\ Present(s[i])
    BY DEF Listed
  <2>. QED  BY <2>1, PresentRow, Zero DEF IInv, Row
<1>9. DOMAIN batch'[t] = {}
  BY <1>7
<1>10. \A i \in DOMAIN queue'[t] : rows'[queue'[t][i].id] # NoRow =>
          /\ queue'[t][i].idle <= rows'[queue'[t][i].id].idle
          /\ queue'[t][i].id \in fallen' =>
                    Sunk(queue'[t][i].idle, rows'[queue'[t][i].id].count)
  BY <1>6, <1>7, <1>8 DEF Falling
<1>11. /\ \A i \in DOMAIN queue'[t] : queue'[t][i].id \in issued'
       /\ \A i, j \in DOMAIN queue'[t] : queue'[t][i].id = queue'[t][j].id => i = j
  BY <1>4, <1>6, <1>7, <1>8 DEF Falling
<1>12. /\ \A x \in fallen' : rows'[x] # NoRow => Sunk(rows'[x].idle, rows'[x].count)
       /\ \A x \in Ids : rows'[x] # NoRow => x \in issued'
       /\ fallen' \subseteq issued'
  BY <1>7 DEF Falling, Present
<1>. QED  BY <1>7, <1>9, <1>10, <1>11, <1>12 DEF Falling, Present

\* Steps of the tick that leave the rows and the history alone.
LEMMA DropFalling ==
    ASSUME IInv, IInv', NEW t \in Ticks, Falling(t), ListingFails(t) \/ Abort(t) \/ Applied(t)
    PROVE  Falling(t)'
<1>1. /\ rows' = rows /\ issued' = issued /\ fallen' = fallen
      /\ queue'[t] = <<>> /\ batch'[t] = <<>>
  BY DEF ListingFails, Abort, Applied, history, IInv, TypeOK
<1>2. DOMAIN queue'[t] = {} /\ DOMAIN batch'[t] = {}
  BY <1>1
<1>. QED  BY <1>1, <1>2 DEF Falling, Present

\* A read takes the head of the listing and may put its decision behind the
\* others.
LEMMA ReadFalling ==
    ASSUME IInv, IInv', NEW t \in Ticks, Falling(t), Read(t)
    PROVE  Falling(t)'
<1>. DEFINE id == queue[t][1].id
            m  == [rows[id] EXCEPT !.idle = queue[t][1].idle]
<1>1. /\ queue[t] \in Seq(Listing) /\ queue[t] # <<>> /\ batch[t] \in Seq(Decision)
      /\ pc[t] = "read" /\ pc' = pc /\ rows' = rows /\ issued' = issued
      /\ queue'[t] = Tail(queue[t])
  BY QueueTypes DEF IInv, TypeOK, Read
<1>2. /\ 1 \in DOMAIN queue[t] /\ Head(queue[t]) = queue[t][1]
      /\ \A i \in DOMAIN queue'[t] : /\ i + 1 \in DOMAIN queue[t] /\ i + 1 # 1
                                     /\ queue'[t][i] = queue[t][i + 1]
      /\ \A i, j \in DOMAIN queue'[t] : i + 1 = j + 1 => i = j
  BY <1>1, HeadTail
<1>3. id \in Ids /\ queue[t][1].idle \in Ages /\ id \in issued
  BY <1>2, QueueTypes DEF IInv, Falling
<1>4. \A i \in DOMAIN queue'[t] : queue'[t][i].id # id
  BY <1>2 DEF Falling
<1>5. Present(id) =>
        /\ rows[id] \in Row /\ m \in Row /\ m.level = rows[id].level
        /\ m.count = rows[id].count /\ m.idle = queue[t][1].idle
        /\ queue[t][1].idle <= rows[id].idle
        /\ id \in fallen => Sunk(queue[t][1].idle, rows[id].count)
  <2>. SUFFICES ASSUME Present(id)
                PROVE  /\ rows[id] \in Row /\ m \in Row /\ m.level = rows[id].level
                       /\ m.count = rows[id].count /\ m.idle = queue[t][1].idle
                       /\ queue[t][1].idle <= rows[id].idle
                       /\ id \in fallen => Sunk(queue[t][1].idle, rows[id].count)
    OBVIOUS
  <2>1. rows[id] \in Row
    BY <1>3, PresentRow DEF IInv
  <2>2. m \in Row /\ m.level = rows[id].level /\ m.count = rows[id].count
        /\ m.idle = queue[t][1].idle
    BY <1>3, <2>1 DEF Row
  <2>3. queue[t][1].idle <= rows[id].idle
        /\ (id \in fallen => Sunk(queue[t][1].idle, rows[id].count))
    BY <1>2 DEF Falling
  <2>. QED  BY <2>1, <2>2, <2>3
\* What the listing and the rows say stays true, also of an id that falls now.
<1>6. ASSUME fallen' \subseteq fallen \cup {id}, fallen \subseteq fallen',
             Present(id) /\ id \in fallen' => Sunk(rows[id].idle, rows[id].count)
      PROVE  /\ \A i \in DOMAIN queue'[t] : rows'[queue'[t][i].id] # NoRow =>
                    /\ queue'[t][i].idle <= rows'[queue'[t][i].id].idle
                    /\ queue'[t][i].id \in fallen' =>
                            Sunk(queue'[t][i].idle, rows'[queue'[t][i].id].count)
             /\ \A x \in fallen' : rows'[x] # NoRow => Sunk(rows'[x].idle, rows'[x].count)
             /\ \A x \in Ids : rows'[x] # NoRow => x \in issued'
             /\ fallen' \subseteq issued'
             /\ \A i \in DOMAIN queue'[t] : queue'[t][i].id \in issued'
             /\ \A i, j \in DOMAIN queue'[t] : queue'[t][i].id = queue'[t][j].id => i = j
  <2>1. \A i \in DOMAIN queue'[t] : rows'[queue'[t][i].id] # NoRow =>
            /\ queue'[t][i].idle <= rows'[queue'[t][i].id].idle
            /\ queue'[t][i].id \in fallen' =>
                    Sunk(queue'[t][i].idle, rows'[queue'[t][i].id].count)
    <3>. TAKE i \in DOMAIN queue'[t]
    <3>. HAVE rows'[queue'[t][i].id] # NoRow
    <3>1. i + 1 \in DOMAIN queue[t] /\ queue'[t][i] = queue[t][i + 1]
          /\ queue[t][i + 1].id # id
      BY <1>2, <1>4
    <3>2. Present(queue[t][i + 1].id)
      BY <1>1, <3>1 DEF Present
    <3>3. /\ queue[t][i + 1].idle <= rows[queue[t][i + 1].id].idle
          /\ queue[t][i + 1].id \in fallen =>
                    Sunk(queue[t][i + 1].idle, rows[queue[t][i + 1].id].count)
      BY <3>1, <3>2 DEF Falling
    <3>. QED  BY <1>1, <1>6, <3>1, <3>3
  <2>2. \A x \in fallen' : rows'[x] # NoRow => Sunk(rows'[x].idle, rows'[x].count)
    BY <1>1, <1>6 DEF Falling, Present
  <2>3. /\ \A x \in Ids : rows'[x] # NoRow => x \in issued'
        /\ fallen' \subseteq issued'
        /\ \A i \in DOMAIN queue'[t] : queue'[t][i].id \in issued'
    BY <1>1, <1>2, <1>3, <1>6 DEF Falling, Present
  <2>4. \A i, j \in DOMAIN queue'[t] : queue'[t][i].id = queue'[t][j].id => i = j
    BY <1>2 DEF Falling
  <2>. QED  BY <2>1, <2>2, <2>3, <2>4
<1>7. CASE UNCHANGED <<batch, fallen>>
  <2>1. Present(id) /\ id \in fallen' => Sunk(rows[id].idle, rows[id].count)
    BY <1>7 DEF Falling
  <2>2. /\ \A j \in DOMAIN batch'[t] : batch'[t][j].id \in issued'
        /\ \A i, j \in DOMAIN batch'[t] : batch'[t][i].id = batch'[t][j].id => i = j
        /\ \A i \in DOMAIN queue'[t], j \in DOMAIN batch'[t] :
                queue'[t][i].id # batch'[t][j].id
        /\ \A j \in DOMAIN batch'[t] :
                batch'[t][j].id \in fallen' /\ rows'[batch'[t][j].id] # NoRow =>
                    batch'[t][j].level <= rows'[batch'[t][j].id].level
    BY <1>1, <1>2, <1>7 DEF Falling, Present
  <2>3. pc'[t] = "read"
    BY <1>1
  <2>. QED  BY <1>6, <1>7, <2>1, <2>2, <2>3 DEF Falling, Present
<1>8. CASE \E level \in Decide(m) :
              /\ Present(id)
              /\ batch' = [batch EXCEPT ![t] = Append(@, [id |-> id, level |-> level])]
              /\ fallen' = IF level < m.level THEN fallen \cup {id} ELSE fallen
  <2>1. PICK level \in Decide(m) :
              /\ Present(id)
              /\ batch' = [batch EXCEPT ![t] = Append(@, [id |-> id, level |-> level])]
              /\ fallen' = IF level < m.level THEN fallen \cup {id} ELSE fallen
    BY <1>8
  <2>2. /\ rows[id] \in Row /\ m \in Row /\ m.level = rows[id].level
        /\ m.count = rows[id].count /\ m.idle = queue[t][1].idle
        /\ queue[t][1].idle <= rows[id].idle
        /\ id \in fallen => Sunk(m.idle, m.count)
    BY <1>5, <2>1
  <2>3. /\ Sunk(m.idle, m.count) => level <= m.level
        /\ level < m.level => Sunk(m.idle, m.count)
    BY <2>2, DecisionOfSunk
  <2>. HIDE DEF m
  <2>4. id \in fallen' => Sunk(m.idle, m.count) /\ level <= rows[id].level
    BY <2>1, <2>2, <2>3
  <2>5. id \in fallen' => Sunk(rows[id].idle, rows[id].count)
    <3>1. m.idle \in Ages /\ rows[id].idle \in Ages /\ rows[id].count \in 0..MaxCount
      BY <2>2 DEF Row
    <3>. QED  BY <2>2, <2>4, <3>1, SunkStays
  <2>. DEFINE last == Len(batch[t]) + 1
  <2>6. /\ Len(batch[t]) \in Nat /\ DOMAIN batch[t] = 1..Len(batch[t])
        /\ DOMAIN batch'[t] = 1..last
        /\ batch'[t][last] = [id |-> id, level |-> level]
        /\ \A j \in DOMAIN batch[t] : batch'[t][j] = batch[t][j]
    <3>1. batch'[t] = Append(batch[t], [id |-> id, level |-> level])
      BY <2>1 DEF IInv, TypeOK
    <3>2. [id |-> id, level |-> level] \in Decision
      <4>1. level \in Levels
        BY <2>2, DecideLevel
      <4>. QED  BY <1>3, <4>1 DEF Decision
    <3>. HIDE DEF id
    <3>. QED  BY <1>1, <3>1, <3>2
  <2>7. \A j \in DOMAIN batch'[t] : j = last \/ j \in DOMAIN batch[t]
    BY <2>6
  <2>8. batch'[t][last].id = id /\ batch'[t][last].level = level
    BY <2>6
  <2>9. \A j \in DOMAIN batch[t] : batch[t][j].id # id /\ j # last
    BY <1>2, <2>6 DEF Falling
  <2>. HIDE DEF id, last
  <2>10. \A j \in DOMAIN batch'[t] : batch'[t][j].id \in issued'
    BY <1>1, <1>3, <2>6, <2>7, <2>8 DEF Falling
  <2>11. \A i, j \in DOMAIN batch'[t] : batch'[t][i].id = batch'[t][j].id => i = j
    BY <2>6, <2>7, <2>8, <2>9 DEF Falling
  <2>12. \A i \in DOMAIN queue'[t], j \in DOMAIN batch'[t] :
                queue'[t][i].id # batch'[t][j].id
    BY <1>2, <1>4, <2>6, <2>7, <2>8 DEF Falling
  <2>13. \A j \in DOMAIN batch'[t] :
                batch'[t][j].id \in fallen' /\ rows'[batch'[t][j].id] # NoRow =>
                    batch'[t][j].level <= rows'[batch'[t][j].id].level
    <3>. TAKE j \in DOMAIN batch'[t]
    <3>. HAVE batch'[t][j].id \in fallen' /\ rows'[batch'[t][j].id] # NoRow
    <3>1. CASE j = last
      BY <1>1, <2>4, <2>8, <3>1
    <3>2. CASE j \in DOMAIN batch[t]
      <4>1. batch[t][j].id \in fallen /\ Present(batch[t][j].id)
        BY <1>1, <2>1, <2>6, <2>9, <3>2 DEF Present
      <4>. QED  BY <1>1, <2>6, <3>2, <4>1 DEF Falling
    <3>. QED  BY <2>7, <3>1, <3>2
  <2>14. pc'[t] = "read" /\ fallen' \subseteq fallen \cup {id} /\ fallen \subseteq fallen'
    BY <1>1, <2>1
  <2>. QED  BY <1>6, <2>5, <2>10, <2>11, <2>12, <2>13, <2>14 DEF Falling, Present
<1>9. \/ UNCHANGED <<batch, fallen>>
      \/ \E level \in Decide(m) :
              /\ Present(id)
              /\ batch' = [batch EXCEPT ![t] = Append(@, [id |-> id, level |-> level])]
              /\ fallen' = IF level < m.level THEN fallen \cup {id} ELSE fallen
  BY <1>2 DEF Read
<1>. QED  BY <1>7, <1>8, <1>9

LEMMA ApplyFalling ==
    ASSUME IInv, IInv', NEW t \in Ticks, Falling(t), NEW ok \in BOOLEAN, Apply(t, ok)
    PROVE  /\ Falling(t)'
           /\ \A id \in fallen : Present(id) /\ Present(id)' => rows'[id].level <= rows[id].level
<1>. DEFINE id == batch[t][1].id
            level == batch[t][1].level
<1>1. /\ batch[t] \in Seq(Decision) /\ batch[t] # <<>> /\ queue[t] = <<>>
      /\ pc[t] = "read" /\ pc' = pc /\ issued' = issued /\ queue' = queue
      /\ fallen' = fallen /\ batch'[t] = Tail(batch[t])
  BY QueueTypes DEF IInv, TypeOK, Apply
<1>2. /\ 1 \in DOMAIN batch[t] /\ Head(batch[t]) = batch[t][1]
      /\ \A j \in DOMAIN batch'[t] : /\ j + 1 \in DOMAIN batch[t] /\ j + 1 # 1
                                     /\ batch'[t][j] = batch[t][j + 1]
      /\ \A i, j \in DOMAIN batch'[t] : i + 1 = j + 1 => i = j
  BY <1>1, HeadTail
<1>3. id \in Ids /\ level \in Levels /\ DOMAIN queue'[t] = {}
  BY <1>1, <1>2, QueueTypes DEF IInv
<1>4. rows' = IF ok /\ Present(id) THEN WithLevel(id, level) ELSE rows
  BY <1>2 DEF Apply
<1>5. \A x \in Ids : /\ x # id => rows'[x] = rows[x]
                     /\ Present(x)' <=> Present(x)
                     /\ Present(x) => /\ rows[x].level \in Int
                                      /\ rows'[x].idle = rows[x].idle
                                      /\ rows'[x].count = rows[x].count
  <2>. TAKE x \in Ids
  <2>1. Present(x) => rows[x] \in Row /\ rows[x].level \in Int
    BY PresentRow DEF IInv, Row, Levels
  <2>2. CASE ok /\ Present(id) /\ x = id
    <3>. DEFINE row == [rows[id] EXCEPT !.level = level, !.still = 0]
    <3>1. rows'[id] = row
      BY <1>3, <1>4, <2>1, <2>2 DEF WithLevel, IInv, TypeOK, Row
    <3>2. row \in Row /\ row.idle = rows[id].idle /\ row.count = rows[id].count
      BY <1>3, <2>1, <2>2, Zero DEF Row
    <3>. HIDE DEF row
    <3>. QED  BY <2>1, <2>2, <3>1, <3>2, RetentionAssumption DEF Present
  <2>3. CASE ~(ok /\ Present(id) /\ x = id)
    <3>1. rows'[x] = rows[x]
      BY <1>3, <1>4, <2>3 DEF WithLevel, IInv, TypeOK
    <3>. QED  BY <2>1, <3>1 DEF Present
  <2>. QED  BY <2>2, <2>3
<1>6. Present(id) => rows'[id].level \in {level, rows[id].level}
  <2>1. Present(id) => rows[id] \in Row
    BY <1>3, PresentRow DEF IInv
  <2>. QED  BY <1>3, <1>4, <2>1 DEF WithLevel, IInv, TypeOK, Row
<1>7. id \in fallen /\ Present(id) => level <= rows[id].level
  BY <1>2 DEF Falling
<1>8. \A j \in DOMAIN batch'[t] : batch'[t][j].id # id /\ batch'[t][j].id \in Ids
  BY <1>2, QueueTypes DEF Falling, IInv
<1>. HIDE DEF id
<1>9. /\ \A j \in DOMAIN batch'[t] : batch'[t][j].id \in issued'
      /\ \A i, j \in DOMAIN batch'[t] : batch'[t][i].id = batch'[t][j].id => i = j
  BY <1>1, <1>2 DEF Falling
<1>10. \A j \in DOMAIN batch'[t] :
                batch'[t][j].id \in fallen' /\ rows'[batch'[t][j].id] # NoRow =>
                    batch'[t][j].level <= rows'[batch'[t][j].id].level
  <2>. TAKE j \in DOMAIN batch'[t]
  <2>. HAVE batch'[t][j].id \in fallen' /\ rows'[batch'[t][j].id] # NoRow
  <2>1. rows'[batch'[t][j].id] = rows[batch'[t][j].id] /\ batch'[t][j] = batch[t][j + 1]
        /\ j + 1 \in DOMAIN batch[t]
    BY <1>2, <1>5, <1>8
  <2>. QED  BY <1>1, <2>1 DEF Falling, Present
<1>11. /\ \A x \in fallen' : rows'[x] # NoRow => Sunk(rows'[x].idle, rows'[x].count)
       /\ \A x \in Ids : rows'[x] # NoRow => x \in issued'
       /\ fallen' \subseteq issued'
  BY <1>1, <1>5 DEF Falling, Present, IInv, TypeOK
<1>12. Falling(t)'
  BY <1>1, <1>3, <1>9, <1>10, <1>11 DEF Falling, Present
<1>13. \A x \in fallen : Present(x) /\ Present(x)' => rows'[x].level <= rows[x].level
  <2>. SUFFICES ASSUME NEW x \in fallen, Present(x), Present(x)'
                PROVE  rows'[x].level <= rows[x].level
    OBVIOUS
  <2>1. x \in Ids /\ rows[x].level \in Int
    BY <1>5 DEF IInv, TypeOK
  <2>2. CASE x = id
    BY <1>6, <1>7, <2>1, <2>2
  <2>3. CASE x # id
    BY <1>5, <2>1, <2>3
  <2>. QED  BY <2>2, <2>3
<1>. QED  BY <1>12, <1>13

\* Only Apply writes a level.
LEMMA LevelsStay ==
    ASSUME IInv, IInv', NEW t \in Ticks, Ticks = {t}, Falling(t), Next,
           \A ok \in BOOLEAN : ~Apply(t, ok),
           NEW id \in Ids, Present(id), Present(id)'
    PROVE  rows'[id].level = rows[id].level
<1>1. rows[id] \in Row
  BY PresentRow DEF IInv
<1>2. CASE Pass
  <2>1. rows'[id] = [rows[id] EXCEPT !.idle = Older(@), !.still = Older(@),
                        !.invalid = IF @ = Valid THEN Valid ELSE Older(@)]
    BY <1>2 DEF Pass
  <2>. QED  BY <1>1, <2>1 DEF Row
<1>3. ASSUME NEW x \in Ids,
             Insert(x) \/ Access(x) \/ Touch(x) \/ Invalidate(x) \/ Delete(x)
      PROVE  rows'[id].level = rows[id].level
  <2>1. CASE x # id
    BY <1>3, <2>1 DEF Insert, Access, Touch, Invalidate, Delete, IInv, TypeOK
  <2>2. CASE x = id
    <3>1. ~Insert(id) /\ ~Delete(id)
      BY DEF Insert, Delete, Falling, Present, IInv, TypeOK
    <3>2. Access(id) => rows'[id].level = rows[id].level
      BY <1>1 DEF Access, IInv, TypeOK, Row
    <3>3. Touch(id) \/ Invalidate(id) => rows'[id].level = rows[id].level
      BY <1>1 DEF Touch, Invalidate, IInv, TypeOK, Row
    <3>. QED  BY <1>3, <2>2, <3>1, <3>2, <3>3
  <2>. QED  BY <2>1, <2>2
<1>4. CASE Step(t) \/ Abort(t)
  <2>1. CASE List(t) \/ Read(t) \/ ListingFails(t) \/ Applied(t) \/ Abort(t)
    <3>1. rows' = rows
      BY <2>1 DEF List, Read, ListingFails, Applied, Abort
    <3>. QED  BY <3>1
  <2>2. ASSUME NEW ok \in BOOLEAN, DeleteArchived(t, ok) \/ PurgeInvalidated(t, ok)
        PROVE  rows'[id].level = rows[id].level
    BY <2>2, WithoutRows DEF DeleteArchived, PurgeInvalidated, Present, IInv
  <2>. QED  BY <1>4, <2>1, <2>2 DEF Step
<1>. QED  BY <1>2, <1>3, <1>4 DEF Next, Outside

\* Beside any clients and the consolidation tick, a memory that the scheduler's
\* tick has decided to demote or archive rises again only after an access.
THEOREM FallingNeedsDemand ==
    ASSUME NEW t, Ticks = {t}
    PROVE  Spec => RisesOnlyOnDemand
<1>. DEFINE Rises == \A id \in Ids :
                Present(id) /\ Present(id)' /\ rows'[id].level > rows[id].level
                    => id \notin fallen
<1>1. t \in Ticks
  OBVIOUS
<1>2. Init => Falling(t)
  <2>. SUFFICES ASSUME Init PROVE Falling(t)
    OBVIOUS
  <2>1. /\ queue[t] = <<>> /\ batch[t] = <<>> /\ fallen = {}
        /\ \A id \in Ids : Present(id) => id \in issued
    BY <1>1 DEF Init, Present
  <2>2. DOMAIN queue[t] = {} /\ DOMAIN batch[t] = {}
    BY <2>1
  <2>. QED  BY <2>1, <2>2 DEF Falling
<1>3. ASSUME IInv, IInv', Falling(t), [Next]_vars PROVE Falling(t)'
  <2>1. CASE Pass
    BY <1>1, <1>3, <2>1, PassFalling
  <2>2. CASE Outside
    BY <1>1, <1>3, <2>2, OtherFalling, AccessFalling DEF Outside
  <2>3. CASE Step(t) \/ Abort(t)
    BY <1>1, <1>3, <2>3, ListFalling, ReadFalling, DropFalling, ApplyFalling, OtherFalling
       DEF Step
  <2>4. CASE UNCHANGED vars
    BY <1>1, <1>3, <2>4, OtherFalling
  <2>. QED  BY <1>3, <2>1, <2>2, <2>3, <2>4 DEF Next
<1>4. ASSUME IInv, IInv', Falling(t), Next, NEW id \in Ids, Present(id), Present(id)',
             rows'[id].level > rows[id].level
      PROVE  id \notin fallen
  <2>1. rows[id].level \in Int
    BY <1>4, PresentRow DEF IInv, Row, Levels
  <2>2. rows'[id].level # rows[id].level /\ ~(rows'[id].level <= rows[id].level)
    <3>1. rows'[id].level \in Int
      <4>1. rows'[id] \in Row
        BY <1>4 DEF IInv, TypeOK, Present
      <4>. QED  BY <4>1 DEF Row, Levels
    <3>. QED  BY <1>4, <2>1, <3>1
  <2>3. PICK ok \in BOOLEAN : Apply(t, ok)
    BY <1>1, <1>4, <2>2, LevelsStay
  <2>. QED  BY <1>1, <1>4, <2>2, <2>3, ApplyFalling
<1>5. IInv /\ IInv' /\ Falling(t) /\ [Next]_vars => [Rises]_vars
  BY <1>4
<1>. QED  BY <1>2, <1>3, <1>5, Invariance, PTL DEF Spec, RisesOnlyOnDemand
-----------------------------------------------------------------------------
(* The contract of the memories table.                                     *)

Issued == \A id \in Ids : Present(id) => id \in issued

LEMMA StageAt == \A id \in Ids :
    /\ Stage[id] = IF ~Present(id) THEN IF id \in issued THEN "deleted" ELSE "unborn"
                   ELSE IF rows[id].invalid # Valid THEN "invalid"
                   ELSE IF rows[id].level = -1 THEN "archived" ELSE "live"
    /\ Stage'[id] = IF ~Present(id)' THEN IF id \in issued' THEN "deleted" ELSE "unborn"
                    ELSE IF rows'[id].invalid # Valid THEN "invalid"
                    ELSE IF rows'[id].level = -1 THEN "archived" ELSE "live"
BY DEF Stage

LEMMA StageIsMap == Stage = [id \in Ids |-> Stage[id]] /\ Stage' = [id \in Ids |-> Stage'[id]]
BY DEF Stage

LEMMA SameRowStage ==
    ASSUME NEW id \in Ids, rows'[id] = rows[id], id \in issued' <=> id \in issued
    PROVE  Stage'[id] = Stage[id]
BY StageAt DEF Present

\* One memory goes a step on its way, the others stay where they are.
LEMMA OneChanges ==
    ASSUME NEW x \in Ids, \A id \in Ids : id # x => Stage'[id] = Stage[id],
           Stage'[x] = Stage[x] \/ Stage'[x] \in Memories!After(Stage[x])
    PROVE  Stage' = Stage \/ Memories!Change(x)
<1>1. Stage' = [Stage EXCEPT ![x] = Stage'[x]]
  BY StageIsMap
<1>2. CASE Stage'[x] = Stage[x]
  BY <1>2, StageIsMap
<1>3. CASE Stage'[x] \in Memories!After(Stage[x])
  BY <1>1, <1>3 DEF Memories!Change
<1>. QED  BY <1>2, <1>3

\* An UPDATE of one row by its id, which never clears invalid_at.
LEMMA UpdateKeepsStages ==
    ASSUME IInv, Issued, NEW x \in Ids, Present(x), NEW r \in Row,
           rows' = [rows EXCEPT ![x] = r], issued' = issued,
           r.invalid = Valid => rows[x].invalid = Valid
    PROVE  Issued' /\ (Stage' = Stage \/ Memories!Change(x))
<1>1. rows'[x] = r /\ \A id \in Ids : id # x => rows'[id] = rows[id]
  BY DEF IInv, TypeOK
<1>2. Present(x)'
  BY <1>1, RetentionAssumption DEF Present
<1>3. Issued'
  BY <1>1 DEF Issued, Present
<1>4. \A id \in Ids : id # x => Stage'[id] = Stage[id]
  BY <1>1, SameRowStage
<1>5. CASE rows[x].invalid # Valid
  <2>1. Stage[x] = "invalid" /\ Stage'[x] = "invalid"
    BY <1>1, <1>2, <1>5, StageAt
  <2>. QED  BY <1>3, <1>4, <2>1, OneChanges
<1>6. CASE rows[x].invalid = Valid
  <2>1. Stage[x] \in {"live", "archived"} /\ Stage'[x] \in {"live", "archived", "invalid"}
    BY <1>2, <1>6, StageAt
  <2>2. Stage'[x] = Stage[x] \/ Stage'[x] \in Memories!After(Stage[x])
    BY <2>1 DEF Memories!After
  <2>. QED  BY <1>3, <1>4, <2>2, OneChanges
<1>. QED  BY <1>5, <1>6

\* A DELETE of any rows that are there.
LEMMA RemovalKeepsStages ==
    ASSUME IInv, Issued, NEW S \in SUBSET Ids, \A id \in S : Present(id),
           rows' = Without(S), issued' = issued
    PROVE  Issued' /\ Memories!Remove(S)
<1>1. \A id \in Ids : rows'[id] = IF id \in S THEN NoRow ELSE rows[id]
  BY DEF Without
<1>2. \A id \in Ids : id \notin S => Stage'[id] = Stage[id]
  BY <1>1, SameRowStage
<1>3. ASSUME NEW id \in S PROVE Stage[id] \in Memories!Stored /\ Stage'[id] = "deleted"
  <2>1. Present(id) /\ ~Present(id)' /\ id \in issued'
    BY <1>1 DEF Issued, Present
  <2>. QED  BY <2>1, StageAt DEF Memories!Stored
<1>4. Issued'
  BY <1>1 DEF Issued, Present
<1>5. Stage' = [id \in Ids |-> IF id \in S THEN "deleted" ELSE Stage[id]]
  BY <1>2, <1>3, StageIsMap
<1>. QED  BY <1>3, <1>4, <1>5 DEF Memories!Remove

KeepsStages ==
    Issued' /\ (Stage' = Stage \/ Memories!Next)

LEMMA QuietKeepsStages ==
    ASSUME Issued, UNCHANGED <<rows, issued>>
    PROVE  KeepsStages
BY DEF Issued, KeepsStages, Stage, Present

LEMMA PassKeepsStages ==
    ASSUME IInv, Issued, Pass
    PROVE  KeepsStages
<1>1. ASSUME NEW id \in Ids, Present(id)
      PROVE  /\ Present(id)' /\ rows'[id].level = rows[id].level
             /\ rows'[id].invalid = Valid <=> rows[id].invalid = Valid
  <2>1. rows[id] \in Row
    BY <1>1, PresentRow DEF IInv
  <2>2. rows'[id] = [rows[id] EXCEPT !.idle = Older(@), !.still = Older(@),
                        !.invalid = IF @ = Valid THEN Valid ELSE Older(@)]
    BY <1>1 DEF Pass
  <2>3. rows'[id].invalid = IF rows[id].invalid = Valid THEN Valid ELSE Older(rows[id].invalid)
    BY <2>1, <2>2 DEF Row
  <2>4. rows[id].invalid # Valid => Older(rows[id].invalid) \in Nat
    BY <2>1, OlderAge, Zero DEF Row
  <2>5. rows'[id] \in Row /\ rows'[id].level = rows[id].level
    BY <2>1, <2>2, OlderAge DEF Row
  <2>6. \A n \in Nat : n # Valid
    BY DEF Valid
  <2>. QED  BY <2>3, <2>4, <2>5, <2>6, RetentionAssumption DEF Present
<1>2. ASSUME NEW id \in Ids, ~Present(id) PROVE ~Present(id)'
  BY <1>2 DEF Pass, Present
<1>3. issued' = issued
  BY DEF Pass
<1>4. \A id \in Ids : Stage'[id] = Stage[id]
  BY <1>1, <1>2, <1>3, StageAt
<1>5. Stage' = Stage
  BY <1>4, StageIsMap
<1>. QED  BY <1>2, <1>3, <1>5 DEF KeepsStages, Issued

LEMMA OutsideKeepsStages ==
    ASSUME IInv, Issued, Outside
    PROVE  KeepsStages
<1>1. ASSUME NEW x \in Ids, Insert(x) PROVE KeepsStages
  <2>. DEFINE row == [level |-> 2, idle |-> 0, still |-> 0, count |-> 0, invalid |-> Valid]
  <2>1. row \in Row /\ row.level # -1 /\ row.invalid = Valid
    BY RetentionAssumption DEF Row, Levels, Ages, Valid
  <2>2. /\ x \notin issued /\ issued' = issued \cup {x} /\ ~Present(x)
        /\ rows' = [rows EXCEPT ![x] = row]
    BY <1>1 DEF Insert, Issued
  <2>. HIDE DEF row
  <2>3. rows'[x] = row /\ \A id \in Ids : id # x => rows'[id] = rows[id]
    BY <2>2 DEF IInv, TypeOK
  <2>4. Present(x)'
    BY <2>1, <2>3, RetentionAssumption DEF Present
  <2>5. \A id \in Ids : id # x => Stage'[id] = Stage[id]
    BY <2>2, <2>3, SameRowStage
  <2>6. Stage[x] = "unborn" /\ Stage'[x] = "live"
    BY <2>1, <2>2, <2>3, <2>4, StageAt
  <2>7. Memories!Change(x)
    BY <2>5, <2>6, OneChanges DEF Memories!After
  <2>8. Issued'
    BY <2>2, <2>3 DEF Issued, Present
  <2>. QED  BY <2>7, <2>8 DEF KeepsStages, Memories!Next
<1>2. ASSUME NEW x \in Ids, Access(x) PROVE KeepsStages
  <2>. DEFINE count == IF rows[x].count = MaxCount THEN MaxCount ELSE rows[x].count + 1
              row   == [rows[x] EXCEPT !.idle = 0, !.count = count]
  <2>1. Present(x) /\ rows[x] \in Row
    BY <1>2, PresentRow DEF IInv, Access
  <2>2. rows' = [rows EXCEPT ![x] = row] /\ issued' = issued
    BY <1>2, <2>1 DEF IInv, TypeOK, Access, Row
  <2>3. row \in Row /\ row.invalid = rows[x].invalid
    <3>1. rows[x].count \in 0..MaxCount
      BY <2>1 DEF Row
    <3>2. count \in 0..MaxCount
      BY <3>1, CountStays
    <3>. QED  BY <2>1, <3>2, Zero DEF Row
  <2>. HIDE DEF row
  <2>. QED  BY <2>1, <2>2, <2>3, UpdateKeepsStages DEF KeepsStages, Memories!Next
<1>3. ASSUME NEW x \in Ids, Touch(x) PROVE KeepsStages
  <2>. DEFINE row == [rows[x] EXCEPT !.still = 0]
  <2>1. Present(x) /\ rows[x] \in Row
    BY <1>3, PresentRow DEF IInv, Touch
  <2>2. rows' = [rows EXCEPT ![x] = row] /\ issued' = issued
    BY <1>3, <2>1 DEF IInv, TypeOK, Touch, Row
  <2>3. row \in Row /\ row.invalid = rows[x].invalid
    BY <2>1, Zero DEF Row
  <2>. HIDE DEF row
  <2>. QED  BY <2>1, <2>2, <2>3, UpdateKeepsStages DEF KeepsStages, Memories!Next
<1>4. ASSUME NEW x \in Ids, Invalidate(x) PROVE KeepsStages
  <2>. DEFINE row == [rows[x] EXCEPT !.invalid = 0, !.still = 0]
  <2>1. Present(x) /\ rows[x] \in Row /\ rows[x].invalid = Valid
    BY <1>4, PresentRow DEF IInv, Invalidate
  <2>2. rows' = [rows EXCEPT ![x] = row] /\ issued' = issued
    BY <1>4, <2>1 DEF IInv, TypeOK, Invalidate, Row
  <2>3. row \in Row
    BY <2>1, Zero DEF Row
  <2>. HIDE DEF row
  <2>. QED  BY <2>1, <2>2, <2>3, UpdateKeepsStages DEF KeepsStages, Memories!Next
<1>5. ASSUME NEW x \in Ids, Delete(x) PROVE KeepsStages
  <2>1. Present(x) /\ rows' = Without({x}) /\ issued' = issued
    BY <1>5 DEF Delete, Without, IInv, TypeOK
  <2>. QED  BY <2>1, RemovalKeepsStages DEF KeepsStages, Memories!Next
<1>. QED  BY <1>1, <1>2, <1>3, <1>4, <1>5 DEF Outside

LEMMA TickKeepsStages ==
    ASSUME IInv, Issued, NEW t \in Ticks, Step(t) \/ Abort(t)
    PROVE  KeepsStages
<1>1. CASE List(t) \/ Read(t) \/ ListingFails(t) \/ Applied(t) \/ Abort(t)
  BY <1>1, QuietKeepsStages DEF List, Read, ListingFails, Applied, Abort
<1>2. ASSUME NEW ok \in BOOLEAN, Apply(t, ok) PROVE KeepsStages
  <2>. DEFINE x     == Head(batch[t]).id
              level == Head(batch[t]).level
              row   == [rows[x] EXCEPT !.level = level, !.still = 0]
  <2>1. batch[t] \in Seq(Decision) /\ batch[t] # <<>>
    BY <1>2 DEF IInv, TypeOK, Apply, Decision
  <2>2. x \in Ids /\ level \in Levels
    <3>1. Head(batch[t]) \in Decision
      BY <2>1
    <3>. QED  BY <3>1 DEF Decision
  <2>3. CASE ~(ok /\ Present(x))
    BY <1>2, <2>3, QuietKeepsStages DEF Apply
  <2>4. CASE ok /\ Present(x)
    <3>1. rows[x] \in Row
      BY <2>2, <2>4, PresentRow DEF IInv
    <3>2. rows' = [rows EXCEPT ![x].level = level, ![x].still = 0] /\ issued' = issued
      BY <1>2, <2>4 DEF Apply, WithLevel
    <3>. HIDE DEF x, level
    <3>3. rows' = [rows EXCEPT ![x] = row]
      BY <2>2, <3>1, <3>2 DEF IInv, TypeOK, Row
    <3>4. row \in Row /\ row.invalid = rows[x].invalid
      BY <2>2, <3>1, Zero DEF Row
    <3>. HIDE DEF row
    <3>. QED  BY <2>2, <2>4, <3>2, <3>3, <3>4, UpdateKeepsStages DEF KeepsStages, Memories!Next
  <2>. QED  BY <2>3, <2>4
<1>3. ASSUME NEW ok \in BOOLEAN, DeleteArchived(t, ok) \/ PurgeInvalidated(t, ok)
      PROVE  KeepsStages
  <2>1. issued' = issued
    BY <1>3 DEF DeleteArchived, PurgeInvalidated
  <2>2. CASE rows' = rows
    BY <2>1, <2>2, QuietKeepsStages
  <2>3. CASE rows' # rows
    <3>1. \E S \in SUBSET Ids : (\A id \in S : Present(id)) /\ rows' = Without(S)
      BY <1>3, <2>3 DEF DeleteArchived, PurgeInvalidated
    <3>. QED  BY <2>1, <3>1, RemovalKeepsStages DEF KeepsStages, Memories!Next
  <2>. QED  BY <2>2, <2>3
<1>. QED  BY <1>1, <1>2, <1>3 DEF Step

\* Forgetting keeps the contract too: with any number of ticks that decide on rows
\* they read earlier and purge many at a time, an invalidated memory is never valid
\* again, and none comes back.
THEOREM RetentionKeepsLifecycle == Spec => KeepsLifecycle
<1>1. Init => Issued /\ Memories!Init
  <2>1. Stage \in [Ids -> Memories!Status]
    BY DEF Stage, Memories!Status
  <2>. QED  BY <2>1 DEF Init, Issued, Present, Memories!Init
<1>2. IInv /\ Issued /\ [Next]_vars => Issued' /\ [Memories!Next]_Stage
  <2>. SUFFICES ASSUME IInv, Issued, [Next]_vars PROVE KeepsStages
    BY DEF KeepsStages
  <2>1. CASE UNCHANGED vars
    BY <2>1, QuietKeepsStages DEF vars
  <2>2. CASE Next
    BY <2>2, PassKeepsStages, OutsideKeepsStages, TickKeepsStages DEF Next
  <2>. QED  BY <2>1, <2>2
<1>. QED  BY <1>1, <1>2, Invariance, PTL DEF Spec, KeepsLifecycle, Memories!Spec
=============================================================================
