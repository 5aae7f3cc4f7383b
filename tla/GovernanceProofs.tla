-------------------------- MODULE GovernanceProofs --------------------------
(***************************************************************************)
(* Proofs about Governance, for any memories, contents, similarities,      *)
(* limits and number of concurrent ticks: its types, what a tick knows of  *)
(* itself, and from these what it may do to the memories table.            *)
(***************************************************************************)
EXTENDS Governance, FiniteSetTheorems, TLAPS

Table == [Ids -> Row \cup {NoRow}]

-----------------------------------------------------------------------------
(* What the statements do to the table.                                    *)

LEMMA FreshRowType ==
    ASSUME NEW c \in Contents
    PROVE  FreshRow(c) \in Row
BY DEF FreshRow, Row

LEMMA WithContentTable ==
    ASSUME rows \in Table, NEW id \in Ids, Present(id),
           NEW c \in Contents, NEW e \in Contents
    PROVE  WithContent(id, c, e) \in Table
<1>1. rows[id] \in Row
  BY DEF Present, Table
<1>. QED  BY <1>1 DEF WithContent, Table, Row

LEMMA WithInvalidTable ==
    ASSUME rows \in Table, NEW id, NEW into \in Ids \cup {NoId}
    PROVE  WithInvalid(id, into) \in Table
<1>1. CASE id \in Ids /\ Present(id)
  <2>1. rows[id] \in Row
    BY <1>1 DEF Present, Table
  <2>. QED  BY <1>1, <2>1 DEF WithInvalid, Table, Row
<1>2. CASE id \in Ids /\ ~Present(id)
  BY <1>2 DEF WithInvalid
<1>3. CASE id \notin Ids
  BY <1>3 DEF WithInvalid, Table
<1>. QED  BY <1>1, <1>2, <1>3

LEMMA WithMarkedTable ==
    ASSUME rows \in Table, NEW ids
    PROVE  WithMarked(ids) \in Table
<1>1. ASSUME NEW id \in Ids, Present(id)
      PROVE  [rows[id] EXCEPT !.pending = FALSE] \in Row
  BY <1>1 DEF Present, Table, Row
<1>. QED  BY <1>1 DEF WithMarked, Table

-----------------------------------------------------------------------------
(* What a tick knows of itself.  No part mentions the tables, so that only *)
(* the tick's own steps can disturb it.                                    *)

\* What was listed and read fits the batch.
Bounded(t) == Len(queue[t]) + Len(pending[t]) <= BatchSize

Empty(t) == pc[t] = "idle" => queue[t] = <<>> /\ pending[t] = <<>>

\* The LLM's abstracts are about the batch.
AboutBatch(t) == abstracts[t] \subseteq PendingIds(t)

Ungathered(t) ==
    pc[t] \notin {"gather", "absorbing"}
        => \A i \in 1..BatchSize : verdicts[t][i] = NoVerdict("Waiting")

\* A verdict that writes is about a memory whose embedding was fetched, and its
\* candidates are other memories of the bucket.
Grounded(t) ==
    \A i \in DOMAIN pending[t] :
        /\ verdicts[t][i].action \in {"Update", "Delete"}
               => embeddings[t][pending[t][i].id] \in Contents
        /\ \A k \in verdicts[t][i].candidates :
               /\ k.id # pending[t][i].id
               /\ NamespaceOf[k.id] = NamespaceOf[pending[t][i].id]

Halfway(t) ==
    pc[t] = "absorbing" => /\ cursor[t] \in DOMAIN pending[t]
                          /\ Current(t).action = "Update"
                          /\ ~Idles(t)

TickInv(t) == /\ Bounded(t) /\ Empty(t) /\ AboutBatch(t)
              /\ Ungathered(t) /\ Grounded(t) /\ Halfway(t)

IInv == TypeOK /\ \A t \in Ticks : TickInv(t)

LEMMA NoVerdictType ==
    ASSUME NEW a \in Actions
    PROVE  NoVerdict(a) \in Verdict
BY DEF NoVerdict, Verdict

\* A tick whose own state does not change keeps what it knows.
LEMMA Bystander ==
    ASSUME NEW t, TickInv(t),
           pc'[t] = pc[t], queue'[t] = queue[t], pending'[t] = pending[t],
           abstracts'[t] = abstracts[t], embeddings'[t] = embeddings[t],
           verdicts'[t] = verdicts[t], cursor'[t] = cursor[t]
    PROVE  TickInv(t)'
<1>1. Bounded(t)' /\ Empty(t)' /\ Ungathered(t)'
  BY DEF TickInv, Bounded, Empty, Ungathered
<1>2. AboutBatch(t)'
  BY DEF TickInv, AboutBatch, PendingIds
<1>3. Grounded(t)'
  BY DEF TickInv, Grounded
<1>4. Current(t)' = Current(t) /\ Adjudicated(t)' = Adjudicated(t)
  BY DEF Current, Adjudicated
<1>5. Idles(t)' <=> Idles(t)
  BY <1>4 DEF Idles, HasEvidence, Clears
<1>6. Halfway(t)'
  BY <1>4, <1>5 DEF TickInv, Halfway
<1>. QED  BY <1>1, <1>2, <1>3, <1>6 DEF TickInv

LEMMA InitInv == Init => IInv
<1>. SUFFICES ASSUME Init PROVE IInv
  OBVIOUS
<1>1. rows \in Table
  <2>1. PICK seed \in [Ids -> Contents], consolidated \in SUBSET issued :
            rows = [id \in Ids |->
                    IF id \notin issued THEN NoRow
                    ELSE IF id \in consolidated
                    THEN [FreshRow(seed[id]) EXCEPT !.pending = FALSE,
                                                    !.abstract = seed[id]]
                    ELSE FreshRow(seed[id])]
    BY DEF Init
  <2>2. ASSUME NEW c \in Contents
        PROVE  [FreshRow(c) EXCEPT !.pending = FALSE, !.abstract = c] \in Row
    BY DEF FreshRow, Row
  <2>. QED  BY <2>1, <2>2, FreshRowType DEF Table
<1>2. TypeOK
  <2>1. verdicts \in [Ticks -> [1..BatchSize -> Verdict]]
    <3>1. [i \in 1..BatchSize |-> NoVerdict("Waiting")] \in [1..BatchSize -> Verdict]
      BY NoVerdictType DEF Actions
    <3>. QED  BY <3>1 DEF Init
  <2>2. issued \in SUBSET Ids /\ edges \in SUBSET (Ids \X Ids)
    BY DEF Init
  <2>3. /\ pc \in [Ticks -> Labels]
        /\ queue \in [Ticks -> Seq(Ids)] /\ pending \in [Ticks -> Seq(Snapshot)]
        /\ cursor \in [Ticks -> Nat \ {0}] /\ writes \in Nat /\ begun \in Nat
    <3>1. <<>> \in Seq(Ids) /\ <<>> \in Seq(Snapshot)
      OBVIOUS
    <3>2. /\ queue \in [Ticks -> Seq(Ids)]
          /\ pending \in [Ticks -> Seq(Snapshot)]
      BY <3>1 DEF Init
    <3>3. /\ pc = [t \in Ticks |-> "idle"] /\ cursor = [t \in Ticks |-> 1]
          /\ writes = 0 /\ begun = 0
      BY DEF Init
    <3>. QED  BY <3>2, <3>3 DEF Labels
  <2>4. /\ abstracts \in [Ticks -> SUBSET Ids]
        /\ assessments \in [Ticks -> SUBSET Ids]
        /\ proposals \in [Ticks -> SUBSET (Ids \X Ids)]
        /\ done \in [Ticks -> SUBSET Ids]
    BY DEF Init
  <2>5. embeddings \in [Ticks -> [Ids -> Contents \cup {NoContent}]]
    BY DEF Init
  <2>. QED  BY <1>1, <2>1, <2>2, <2>3, <2>4, <2>5 DEF TypeOK, Table
<1>3. ASSUME NEW t \in Ticks
      PROVE  TickInv(t)
  <2>1. /\ pc[t] = "idle" /\ queue[t] = <<>> /\ pending[t] = <<>>
        /\ abstracts[t] = {}
        /\ verdicts[t] = [i \in 1..BatchSize |-> NoVerdict("Waiting")]
    BY DEF Init
  <2>2. Bounded(t) /\ Empty(t) /\ AboutBatch(t) /\ Halfway(t)
    BY <2>1, GovernanceAssumption DEF Bounded, Empty, AboutBatch, Halfway
  <2>3. Ungathered(t)
    BY <2>1 DEF Ungathered
  <2>4. Grounded(t)
    BY <2>1 DEF Grounded
  <2>. QED  BY <2>2, <2>3, <2>4 DEF TickInv
<1>. QED  BY <1>2, <1>3 DEF IInv

-----------------------------------------------------------------------------
(* Clients and the forgetting tick.                                        *)

LEMMA OutsideInv == ASSUME IInv, Outside PROVE IInv'
<1>1. rows \in Table
  BY DEF IInv, TypeOK, Table
<1>2. rows' \in Table
  <2>1. ASSUME NEW id \in Ids, Delete(id)
        PROVE  rows' \in Table
    BY <1>1, <2>1 DEF Delete, Table
  <2>2. ASSUME NEW id \in Ids, SetLevel(id)
        PROVE  rows' \in Table
    <3>1. rows[id] \in Row
      BY <1>1, <2>2 DEF SetLevel, Present, Table
    <3>. QED  BY <1>1, <2>2, <3>1 DEF SetLevel, Table, Row
  <2>3. ASSUME NEW id \in Ids, NEW c \in Contents, Insert(id, c)
        PROVE  rows' \in Table
    BY <1>1, <2>3, FreshRowType DEF Insert, Table
  <2>4. ASSUME NEW id \in Ids, NEW c \in Contents, Put(id, c)
        PROVE  rows' \in Table
    BY <1>1, <2>4, WithContentTable DEF Put
  <2>. QED  BY <2>1, <2>2, <2>3, <2>4 DEF Outside
<1>3. /\ UNCHANGED <<pc, local, begun>>
      /\ issued' \in SUBSET Ids /\ edges' \in SUBSET (Ids \X Ids)
      /\ writes' \in Nat
  BY DEF IInv, TypeOK, Outside, Delete, SetLevel, Insert, Put, CountWrite,
         EdgesWithout
<1>4. TypeOK'
  BY <1>2, <1>3 DEF IInv, TypeOK, Table, local
<1>5. \A t \in Ticks : TickInv(t)'
  BY <1>3, Bystander DEF IInv, local
<1>. QED  BY <1>4, <1>5 DEF IInv
-----------------------------------------------------------------------------
(* The tick.                                                               *)

LEMMA Parts == \A a, b, n \in Nat : a + b <= n => b <= n
OBVIOUS

LEMMA Shift ==
    \A a, b, c, d, n \in Nat :
        a + b <= n /\ c = a - 1 /\ d <= b + 1 => c + d <= n
OBVIOUS

\* The state of the other ticks does not change.
Frame(t) ==
    \A u \in Ticks \ {t} :
        /\ pc'[u] = pc[u] /\ queue'[u] = queue[u] /\ pending'[u] = pending[u]
        /\ abstracts'[u] = abstracts[u] /\ embeddings'[u] = embeddings[u]
        /\ verdicts'[u] = verdicts[u] /\ cursor'[u] = cursor[u]

LEMMA OwnStep ==
    ASSUME IInv, NEW t \in Ticks, Frame(t), TypeOK', TickInv(t)'
    PROVE  IInv'
<1>1. ASSUME NEW u \in Ticks
      PROVE  TickInv(u)'
  <2>1. CASE u = t
    BY <2>1
  <2>2. CASE u # t
    BY <2>2, Bystander DEF Frame, IInv
  <2>. QED  BY <2>1, <2>2
<1>. QED  BY <1>1 DEF IInv

LEMMA ListPendingInv ==
    ASSUME IInv, NEW t \in Ticks, ListPending(t)
    PROVE  IInv'
<1>. PICK n \in 1..BatchSize : \E s \in [1..n -> Listed] :
         queue' = [queue EXCEPT ![t] = s]
  BY DEF ListPending
<1>1. PICK s \in [1..n -> Listed] : queue' = [queue EXCEPT ![t] = s]
  OBVIOUS
<1>2. s \in Seq(Ids) /\ Len(s) = n
  BY <1>1 DEF Listed
<1>3. TypeOK'
  BY <1>1, <1>2 DEF IInv, TypeOK, ListPending, Goto, Labels, store
<1>4. /\ queue'[t] = s /\ pending[t] = <<>> /\ pc'[t] = "read"
      /\ UNCHANGED <<pending, abstracts, embeddings, verdicts, cursor>>
  BY <1>1 DEF IInv, TypeOK, TickInv, Empty, ListPending, Goto
<1>5. TickInv(t)'
  <2>1. Empty(t)' /\ Halfway(t)'
    BY <1>4 DEF Empty, Halfway
  <2>5. Bounded(t)'
    <3>1. pending'[t] = <<>> /\ Len(queue'[t]) = n
      BY <1>2, <1>4
    <3>. QED  BY <3>1, GovernanceAssumption DEF Bounded
  <2>2. AboutBatch(t)' /\ Grounded(t)'
    BY <1>4 DEF IInv, TickInv, AboutBatch, Grounded, PendingIds
  <2>3. Ungathered(t)'
    BY <1>4 DEF IInv, TickInv, Ungathered, ListPending
  <2>. QED  BY <2>1, <2>2, <2>3, <2>5 DEF TickInv
<1>6. Frame(t)
  BY DEF IInv, TypeOK, ListPending, Goto, Frame
<1>. QED  BY <1>3, <1>5, <1>6, OwnStep

LEMMA ReadPendingInv ==
    ASSUME IInv, NEW t \in Ticks, ReadPending(t)
    PROVE  IInv'
<1>. DEFINE id == Head(queue[t])
            read == [id |-> id, content |-> rows[id].content]
<1>1. /\ queue[t] \in Seq(Ids) /\ queue[t] # <<>> /\ pending[t] \in Seq(Snapshot)
      /\ id \in Ids /\ Tail(queue[t]) \in Seq(Ids)
      /\ Len(Tail(queue[t])) = Len(queue[t]) - 1
  BY DEF IInv, TypeOK, ReadPending
<1>2. /\ queue'[t] = Tail(queue[t]) /\ pc'[t] = "read" /\ pc[t] = "read"
      /\ pending'[t] = IF Present(id) THEN Append(pending[t], read) ELSE pending[t]
      /\ UNCHANGED <<pc, abstracts, embeddings, verdicts, cursor>>
  BY DEF IInv, TypeOK, ReadPending
<1>3. Present(id) => read \in Snapshot
  BY <1>1 DEF IInv, TypeOK, Present, Row, Snapshot
<1>4. /\ pending'[t] \in Seq(Snapshot)
      /\ Len(pending'[t]) <= Len(pending[t]) + 1
      /\ \A i \in DOMAIN pending[t] :
            i \in DOMAIN pending'[t] /\ pending'[t][i] = pending[t][i]
  BY <1>1, <1>2, <1>3
<1>5. TypeOK'
  <2>1. queue' \in [Ticks -> Seq(Ids)]
    BY <1>1 DEF IInv, TypeOK, ReadPending
  <2>2. pending' \in [Ticks -> Seq(Snapshot)]
    BY <1>4 DEF IInv, TypeOK, ReadPending
  <2>. QED  BY <2>1, <2>2 DEF IInv, TypeOK, ReadPending, store
<1>6. TickInv(t)'
  <2>1. Bounded(t)'
    <3>1. Len(queue[t]) + Len(pending[t]) <= BatchSize
      BY DEF IInv, TickInv, Bounded
    <3>2. /\ Len(queue'[t]) = Len(queue[t]) - 1
          /\ Len(queue[t]) \in Nat /\ Len(pending[t]) \in Nat
          /\ Len(queue'[t]) \in Nat /\ Len(pending'[t]) \in Nat
      BY <1>1, <1>2, <1>4
    <3>3. BatchSize \in Nat /\ Len(pending'[t]) <= Len(pending[t]) + 1
      BY <1>4, GovernanceAssumption
    <3>4. Len(queue'[t]) + Len(pending'[t]) <= BatchSize
      BY <3>1, <3>2, <3>3, Shift, Zenon
    <3>. QED  BY <3>4 DEF Bounded
  <2>2. Empty(t)' /\ Halfway(t)' /\ Ungathered(t)'
    BY <1>2 DEF IInv, TickInv, Empty, Halfway, Ungathered
  <2>3. AboutBatch(t)'
    BY <1>2, <1>4 DEF IInv, TickInv, AboutBatch, PendingIds
  <2>4. Grounded(t)'
    <3>1. \A i \in 1..BatchSize : verdicts'[t][i] = NoVerdict("Waiting")
      BY <1>2 DEF IInv, TickInv, Ungathered
    <3>2. DOMAIN pending'[t] \subseteq 1..BatchSize
      <4>1. Len(pending'[t]) \in Nat /\ Len(queue'[t]) \in Nat
        BY <1>1, <1>2, <1>4
      <4>2. DOMAIN pending'[t] = 1..Len(pending'[t])
        BY <1>4
      <4>3. BatchSize \in Nat /\ Len(queue'[t]) + Len(pending'[t]) <= BatchSize
        BY <2>1, GovernanceAssumption DEF Bounded
      <4>4. Len(pending'[t]) <= BatchSize
        BY <4>1, <4>3, Parts, Zenon
      <4>. QED  BY <4>1, <4>2, <4>3, <4>4
    <3>. QED  BY <3>1, <3>2 DEF Grounded, NoVerdict
  <2>. QED  BY <2>1, <2>2, <2>3, <2>4 DEF TickInv
<1>7. Frame(t)
  BY DEF IInv, TypeOK, ReadPending, Frame
<1>. QED  BY <1>5, <1>6, <1>7, OwnStep

LEMMA ResetInv ==
    ASSUME IInv, NEW t \in Ticks, Reset(t), UNCHANGED <<store, writes, begun>>
    PROVE  IInv'
<1>1. /\ pc'[t] = "idle" /\ queue'[t] = <<>> /\ pending'[t] = <<>>
      /\ abstracts'[t] = {}
      /\ verdicts'[t] = [i \in 1..BatchSize |-> NoVerdict("Waiting")]
  BY DEF IInv, TypeOK, Reset, Goto
<1>2. TypeOK'
  <2>1. verdicts' \in [Ticks -> [1..BatchSize -> Verdict]]
    <3>1. [i \in 1..BatchSize |-> NoVerdict("Waiting")] \in [1..BatchSize -> Verdict]
      BY NoVerdictType DEF Actions
    <3>. QED  BY <3>1 DEF IInv, TypeOK, Reset
  <2>2. /\ queue' \in [Ticks -> Seq(Ids)] /\ pending' \in [Ticks -> Seq(Snapshot)]
    <3>1. <<>> \in Seq(Ids) /\ <<>> \in Seq(Snapshot)
      OBVIOUS
    <3>. QED  BY <3>1 DEF IInv, TypeOK, Reset
  <2>3. embeddings' \in [Ticks -> [Ids -> Contents \cup {NoContent}]]
    BY DEF IInv, TypeOK, Reset
  <2>. QED  BY <2>1, <2>2, <2>3 DEF IInv, TypeOK, Reset, Goto, Labels, store
<1>3. TickInv(t)'
  <2>1. Bounded(t)' /\ Empty(t)' /\ AboutBatch(t)' /\ Halfway(t)'
    BY <1>1, GovernanceAssumption DEF Bounded, Empty, AboutBatch, Halfway
  <2>2. Ungathered(t)'
    BY <1>1 DEF Ungathered
  <2>3. Grounded(t)'
    BY <1>1 DEF Grounded
  <2>. QED  BY <2>1, <2>2, <2>3 DEF TickInv
<1>4. Frame(t)
  BY DEF IInv, TypeOK, Reset, Goto, Frame
<1>. QED  BY <1>2, <1>3, <1>4, OwnStep

\* Before adjudication the verdicts are untouched.
LEMMA Persisting ==
    ASSUME IInv, NEW t \in Ticks,
           pc[t] \in {"read", "persist", "embed"},
           pc'[t] \in {"persist", "embed", "log"},
           UNCHANGED <<queue, pending, embeddings, verdicts, cursor>>,
           abstracts'[t] \subseteq PendingIds(t)
    PROVE  TickInv(t)'
<1>1. Bounded(t)' /\ Empty(t)' /\ Halfway(t)' /\ Grounded(t)'
  BY DEF IInv, TickInv, Bounded, Empty, Halfway, Grounded
<1>2. AboutBatch(t)'
  BY DEF AboutBatch, PendingIds
<1>3. Ungathered(t)'
  BY DEF IInv, TickInv, Ungathered
<1>. QED  BY <1>1, <1>2, <1>3 DEF TickInv

LEMMA SnapshotType ==
    ASSUME IInv, NEW t \in Ticks, NEW i \in DOMAIN pending[t]
    PROVE  pending[t][i].id \in Ids /\ pending[t][i].content \in Contents
<1>1. pending[t] \in Seq(Snapshot)
  BY DEF IInv, TypeOK
<1>2. pending[t][i] \in Snapshot
  BY <1>1
<1>. QED  BY <1>2 DEF Snapshot

LEMMA ConsolidateInv ==
    ASSUME IInv, NEW t \in Ticks, Consolidate(t)
    PROVE  IInv'
<1>1. PendingIds(t) \subseteq Ids
  BY SnapshotType DEF PendingIds
<1>. PICK abs \in SUBSET PendingIds(t) :
         /\ abstracts' = [abstracts EXCEPT ![t] = abs]
         /\ \E imp \in SUBSET abs : assessments' = [assessments EXCEPT ![t] = imp]
  BY DEF Consolidate
<1>. PICK imp \in SUBSET abs : assessments' = [assessments EXCEPT ![t] = imp]
  OBVIOUS
<1>. PICK new \in SUBSET (PendingIds(t) \X PendingIds(t)) :
         proposals' = [proposals EXCEPT ![t] = new]
  BY DEF Consolidate
<1>2. TypeOK'
  BY <1>1 DEF IInv, TypeOK, Consolidate, Goto, Labels, store
<1>3. TickInv(t)'
  BY <1>1, Persisting DEF IInv, TypeOK, Consolidate, Goto
<1>4. Frame(t)
  BY DEF IInv, TypeOK, Consolidate, Goto, Frame
<1>. QED  BY <1>2, <1>3, <1>4, OwnStep

LEMMA SnapshotOfType ==
    ASSUME IInv, NEW t \in Ticks, NEW id \in PendingIds(t)
    PROVE  SnapshotOf(t, id) \in Contents
<1>1. \E i \in DOMAIN pending[t] : pending[t][i].id = id
  BY DEF PendingIds
<1>2. \A i \in DOMAIN pending[t] : pending[t][i].content \in Contents
  BY SnapshotType
<1>. QED  BY <1>1, <1>2 DEF SnapshotOf

LEMMA UpdateAbstractInv ==
    ASSUME IInv, NEW t \in Ticks, NEW id \in Ids, NEW ok, UpdateAbstract(t, id, ok)
    PROVE  IInv'
<1>1. id \in PendingIds(t)
  BY DEF IInv, TickInv, AboutBatch, UpdateAbstract
<1>2. rows' \in Table
  <2>1. CASE ok /\ Present(id)
    <3>1. rows[id] \in Row
      BY <2>1 DEF IInv, TypeOK, Present
    <3>2. [rows[id] EXCEPT !.abstract = SnapshotOf(t, id)] \in Row
      BY <1>1, <3>1, SnapshotOfType DEF Row
    <3>3. rows' = [rows EXCEPT ![id] = [rows[id] EXCEPT !.abstract = SnapshotOf(t, id)]]
      BY <2>1 DEF UpdateAbstract
    <3>. QED  BY <3>2, <3>3 DEF IInv, TypeOK, Table
  <2>2. CASE ~(ok /\ Present(id))
    BY <2>2 DEF IInv, TypeOK, Table, UpdateAbstract
  <2>. QED  BY <2>1, <2>2
<1>3. TypeOK'
  <2>1. done' \in [Ticks -> SUBSET Ids]
    <3>1. done' = [done EXCEPT ![t] = @ \cup {id}] \/ done' = done
      BY DEF UpdateAbstract
    <3>2. done[t] \cup {id} \in SUBSET Ids
      BY DEF IInv, TypeOK
    <3>. QED  BY <3>1, <3>2 DEF IInv, TypeOK
  <2>2. abstracts' \in [Ticks -> SUBSET Ids]
    BY DEF IInv, TypeOK, UpdateAbstract
  <2>. QED  BY <1>2, <2>1, <2>2 DEF IInv, TypeOK, Table, UpdateAbstract
<1>4. TickInv(t)'
  <2>1. abstracts'[t] \subseteq PendingIds(t)
    BY DEF IInv, TypeOK, TickInv, AboutBatch, UpdateAbstract
  <2>. QED  BY <2>1, Persisting DEF UpdateAbstract
<1>5. Frame(t)
  BY DEF IInv, TypeOK, UpdateAbstract, Frame
<1>. QED  BY <1>3, <1>4, <1>5, OwnStep

LEMMA UpdateImportanceInv ==
    ASSUME IInv, NEW t \in Ticks, NEW id \in Ids, NEW ok, UpdateImportance(t, id, ok)
    PROVE  IInv'
<1>1. rows' \in Table
  <2>1. CASE ok /\ id \in done[t] /\ Present(id)
    <3>1. rows[id] \in Row
      BY <2>1 DEF IInv, TypeOK, Present
    <3>2. [rows[id] EXCEPT !.assessed = TRUE] \in Row
      BY <3>1 DEF Row
    <3>3. rows' = [rows EXCEPT ![id] = [rows[id] EXCEPT !.assessed = TRUE]]
      BY <2>1 DEF UpdateImportance
    <3>. QED  BY <3>2, <3>3 DEF IInv, TypeOK, Table
  <2>2. CASE ~(ok /\ id \in done[t] /\ Present(id))
    BY <2>2 DEF IInv, TypeOK, Table, UpdateImportance
  <2>. QED  BY <2>1, <2>2
<1>2. TypeOK'
  BY <1>1 DEF IInv, TypeOK, Table, UpdateImportance
<1>3. TickInv(t)'
  BY Persisting DEF IInv, TickInv, AboutBatch, UpdateImportance
<1>4. Frame(t)
  BY DEF UpdateImportance, Frame
<1>. QED  BY <1>2, <1>3, <1>4, OwnStep

LEMMA InsertEdgeInv ==
    ASSUME IInv, NEW t \in Ticks, NEW e \in proposals[t], NEW ok, InsertEdge(t, e, ok)
    PROVE  IInv'
<1>1. e \in Ids \X Ids
  BY DEF IInv, TypeOK
<1>2. TypeOK'
  <2>1. proposals' \in [Ticks -> SUBSET (Ids \X Ids)]
    BY DEF IInv, TypeOK, InsertEdge
  <2>2. edges' \in SUBSET (Ids \X Ids)
    BY <1>1 DEF IInv, TypeOK, InsertEdge
  <2>. QED  BY <2>1, <2>2 DEF IInv, TypeOK, InsertEdge
<1>3. TickInv(t)'
  BY Persisting DEF IInv, TickInv, AboutBatch, InsertEdge
<1>4. Frame(t)
  BY DEF InsertEdge, Frame
<1>. QED  BY <1>2, <1>3, <1>4, OwnStep

LEMMA MarkConsolidatedInv ==
    ASSUME IInv, NEW t \in Ticks, NEW ok, MarkConsolidated(t, ok)
    PROVE  IInv'
<1>1. rows' \in Table
  BY WithMarkedTable DEF IInv, TypeOK, Table, MarkConsolidated
<1>2. TypeOK'
  BY <1>1 DEF IInv, TypeOK, Table, MarkConsolidated, Goto, Labels, local
<1>3. TickInv(t)'
  BY Persisting DEF IInv, TypeOK, TickInv, AboutBatch, MarkConsolidated, Goto, local
<1>4. Frame(t)
  BY DEF IInv, TypeOK, MarkConsolidated, Goto, local, Frame
<1>. QED  BY <1>2, <1>3, <1>4, OwnStep

LEMMA BatchSlots ==
    ASSUME IInv, NEW t \in Ticks
    PROVE  DOMAIN pending[t] \subseteq 1..BatchSize
<1>1. queue[t] \in Seq(Ids) /\ pending[t] \in Seq(Snapshot)
  BY DEF IInv, TypeOK
<1>2. Len(queue[t]) \in Nat /\ Len(pending[t]) \in Nat
  BY <1>1
<1>3. BatchSize \in Nat /\ Len(queue[t]) + Len(pending[t]) <= BatchSize
  BY GovernanceAssumption DEF IInv, TickInv, Bounded
<1>4. Len(pending[t]) <= BatchSize
  BY <1>2, <1>3, Parts, Zenon
<1>5. DOMAIN pending[t] = 1..Len(pending[t])
  BY <1>1
<1>. QED  BY <1>2, <1>3, <1>4, <1>5

LEMMA GetEmbeddingsInv ==
    ASSUME IInv, NEW t \in Ticks, NEW ok, GetEmbeddings(t, ok)
    PROVE  IInv'
<1>1. \A id \in Ids : Present(id) => rows[id].embedding \in Contents
  BY DEF IInv, TypeOK, Present, Row
<1>2. TypeOK'
  <2>1. embeddings' \in [Ticks -> [Ids -> Contents \cup {NoContent}]]
    BY <1>1 DEF IInv, TypeOK, GetEmbeddings
  <2>. QED  BY <2>1 DEF IInv, TypeOK, GetEmbeddings, Goto, Labels, store
<1>3. pc[t] = "embed" /\ pc'[t] = "gather"
  BY DEF IInv, TypeOK, GetEmbeddings, Goto
<1>4. TickInv(t)'
  <2>1. Bounded(t)' /\ Empty(t)' /\ AboutBatch(t)' /\ Ungathered(t)' /\ Halfway(t)'
    BY <1>3 DEF IInv, TickInv, Bounded, Empty, AboutBatch, Ungathered, Halfway,
                PendingIds, GetEmbeddings
  <2>2. Grounded(t)'
    <3>1. \A i \in 1..BatchSize : verdicts[t][i] = NoVerdict("Waiting")
      BY <1>3 DEF IInv, TickInv, Ungathered
    <3>2. /\ NoVerdict("Waiting").action \notin {"Update", "Delete"}
          /\ NoVerdict("Waiting").candidates = {}
      BY DEF NoVerdict
    <3>3. UNCHANGED <<pending, verdicts>>
      BY DEF GetEmbeddings
    <3>. QED  BY <3>1, <3>2, <3>3, BatchSlots DEF Grounded
  <2>. QED  BY <2>1, <2>2 DEF TickInv
<1>5. Frame(t)
  BY DEF IInv, TypeOK, GetEmbeddings, Goto, Frame
<1>. QED  BY <1>2, <1>4, <1>5, OwnStep

\* The candidates of a memory are other rows of its bucket, with scores.
LEMMA CandidatesType ==
    ASSUME IInv, NEW id \in Ids, NEW c \in Contents,
           NEW near \in SUBSET {h \in Searchable(NamespaceOf[id]) : IsCandidate(id, c, h)}
    PROVE  \A h \in near : /\ [id |-> h, score |-> Scores(c)[h]] \in Candidate
                           /\ h # id /\ NamespaceOf[h] = NamespaceOf[id]
<1>1. ASSUME NEW h \in near
      PROVE  /\ h \in Ids /\ Present(h)
             /\ h # id /\ NamespaceOf[h] = NamespaceOf[id]
  BY DEF Searchable, IsCandidate, Clears
<1>2. ASSUME NEW h \in near
      PROVE  Scores(c)[h] \in Nat
  <2>1. rows[h].embedding \in Contents
    BY <1>1 DEF IInv, TypeOK, Present, Row
  <2>. QED  BY <1>1, <2>1, GovernanceAssumption DEF Scores
<1>. QED  BY <1>1, <1>2 DEF Candidate

\* What the adjudication of one memory yields.
Sound(id, embedded, v) ==
    /\ v \in Verdict /\ v.action # "Waiting"
    /\ v.action \in {"Update", "Delete"} => embedded
    /\ \A k \in v.candidates : k.id # id /\ NamespaceOf[k.id] = NamespaceOf[id]

LEMMA KeepSound ==
    ASSUME NEW id, NEW embedded
    PROVE  Sound(id, embedded, NoVerdict("Keep"))
BY NoVerdictType DEF Sound, NoVerdict, Actions

LEMMA GatherSound ==
    ASSUME IInv, NEW t \in Ticks, NEW i \in 1..BatchSize, NEW ok, Gather(t, i, ok)
    PROVE  \E v : /\ verdicts' = [verdicts EXCEPT ![t][i] = v]
                  /\ Sound(pending[t][i].id,
                           embeddings[t][pending[t][i].id] \in Contents, v)
<1>. DEFINE id == pending[t][i].id
            c  == embeddings[t][id]
<1>1. id \in Ids
  BY SnapshotType DEF Gather
<1>2. CASE ~ok \/ c = NoContent
  BY <1>2, KeepSound DEF Gather
<1>3. CASE ok /\ c # NoContent
  <2>1. c \in Contents
    BY <1>1, <1>3 DEF IInv, TypeOK
  <2>2. PICK hits \in Nearest(Searchable(NamespaceOf[id]), Candidates + 1, Scores(c)) :
            \E near \in Nearest({h \in hits : IsCandidate(id, c, h)},
                                Candidates, Scores(c)) :
                IF near = {}
                THEN verdicts' = [verdicts EXCEPT ![t][i] = NoVerdict("Keep")]
                ELSE \E v \in Answers(id, {[id |-> h, score |-> Scores(c)[h]] :
                                            h \in near}) :
                        verdicts' = [verdicts EXCEPT ![t][i] = v]
    BY <1>3 DEF Gather
  <2>3. PICK near \in Nearest({h \in hits : IsCandidate(id, c, h)},
                              Candidates, Scores(c)) :
                IF near = {}
                THEN verdicts' = [verdicts EXCEPT ![t][i] = NoVerdict("Keep")]
                ELSE \E v \in Answers(id, {[id |-> h, score |-> Scores(c)[h]] :
                                            h \in near}) :
                        verdicts' = [verdicts EXCEPT ![t][i] = v]
    BY <2>2
  <2>4. near \in SUBSET {h \in Searchable(NamespaceOf[id]) : IsCandidate(id, c, h)}
    BY DEF Nearest
  <2>. DEFINE cands == {[id |-> h, score |-> Scores(c)[h]] : h \in near}
  <2>5. /\ cands \in SUBSET Candidate
        /\ \A k \in cands : /\ k.id \in Ids /\ k.id # id
                             /\ NamespaceOf[k.id] = NamespaceOf[id]
    <3>1. \A h \in near : /\ [id |-> h, score |-> Scores(c)[h]] \in Candidate
                          /\ h # id /\ NamespaceOf[h] = NamespaceOf[id]
      BY <1>1, <2>1, <2>4, CandidatesType
    <3>. QED  BY <3>1 DEF Candidate
  <2>6. ASSUME NEW v \in Answers(id, cands)
        PROVE  Sound(id, c \in Contents, v)
    <3>1. CASE v = NoVerdict("Keep")
      BY <3>1, KeepSound
    <3>2. CASE v \in [action : {"Update", "Delete"},
                       target : {id} \cup {k.id : k \in cands}, candidates : {cands}]
      <4>1. v.target \in Ids
        BY <1>1, <2>5, <3>2
      <4>2. v \in Verdict
        BY <2>5, <3>2, <4>1 DEF Verdict, Actions
      <4>. QED  BY <2>1, <2>5, <3>2, <4>2 DEF Sound
    <3>. QED  BY <3>1, <3>2 DEF Answers
  <2>. QED  BY <2>3, <2>6, KeepSound
<1>. QED  BY <1>2, <1>3

LEMMA GatherInv ==
    ASSUME IInv, NEW t \in Ticks, NEW i \in 1..BatchSize, NEW ok, Gather(t, i, ok)
    PROVE  IInv'
<1>. PICK v : /\ verdicts' = [verdicts EXCEPT ![t][i] = v]
              /\ Sound(pending[t][i].id,
                       embeddings[t][pending[t][i].id] \in Contents, v)
  BY GatherSound
<1>4. /\ pc[t] = "gather"
      /\ UNCHANGED <<pc, queue, pending, abstracts, embeddings, cursor>>
  BY DEF Gather
<1>5. \A j \in 1..BatchSize : verdicts'[t][j] = IF j = i THEN v ELSE verdicts[t][j]
  BY DEF IInv, TypeOK
<1>1. TypeOK'
  <2>1. verdicts' \in [Ticks -> [1..BatchSize -> Verdict]]
    BY DEF IInv, TypeOK, Sound
  <2>. QED  BY <2>1 DEF IInv, TypeOK, Gather, store
<1>2. TickInv(t)'
  <2>1. Bounded(t)' /\ Empty(t)' /\ AboutBatch(t)' /\ Ungathered(t)' /\ Halfway(t)'
    BY <1>4 DEF IInv, TickInv, Bounded, Empty, AboutBatch, Ungathered, Halfway,
                PendingIds
  <2>2. Grounded(t)'
    <3>1. ASSUME NEW j \in DOMAIN pending[t]
          PROVE  /\ verdicts'[t][j].action \in {"Update", "Delete"}
                        => embeddings[t][pending[t][j].id] \in Contents
                 /\ \A k \in verdicts'[t][j].candidates :
                        /\ k.id # pending[t][j].id
                        /\ NamespaceOf[k.id] = NamespaceOf[pending[t][j].id]
      <4>1. j \in 1..BatchSize
        BY BatchSlots
      <4>2. CASE j = i
        BY <1>5, <4>2 DEF Sound
      <4>3. CASE j # i
        <5>1. verdicts'[t][j] = verdicts[t][j]
          BY <1>5, <4>1, <4>3
        <5>. QED  BY <5>1 DEF IInv, TickInv, Grounded
      <4>. QED  BY <4>2, <4>3
    <3>. QED  BY <1>4, <3>1 DEF Grounded
  <2>. QED  BY <2>1, <2>2 DEF TickInv
<1>3. Frame(t)
  BY DEF IInv, TypeOK, Gather, Frame
<1>. QED  BY <1>1, <1>2, <1>3, OwnStep

\* The verdict being executed: its target is a memory of the bucket, and a
\* candidate's recorded score is its evidence.
LEMMA ExecutedVerdict ==
    ASSUME IInv, NEW t \in Ticks, cursor[t] \in DOMAIN pending[t], ~Idles(t)
    PROVE  /\ Current(t) = verdicts[t][cursor[t]]
           /\ Current(t).target \in Ids
           /\ Adjudicated(t).id \in Ids /\ Adjudicated(t).content \in Contents
           /\ embeddings[t][Adjudicated(t).id] \in Contents
           /\ NamespaceOf[Current(t).target] = NamespaceOf[Adjudicated(t).id]
           /\ \E k \in Current(t).candidates :
                 /\ k.score >= Floor
                 /\ k.id # Adjudicated(t).id
                 /\ NamespaceOf[k.id] = NamespaceOf[Adjudicated(t).id]
                 /\ Current(t).target \in {k.id, Adjudicated(t).id}
<1>1. Adjudicated(t).id \in Ids /\ Adjudicated(t).content \in Contents
  BY SnapshotType DEF Adjudicated
<1>2. Current(t) \in Verdict
  <2>1. cursor[t] \in 1..BatchSize
    BY BatchSlots
  <2>2. verdicts[t] \in [1..BatchSize -> Verdict]
    BY DEF IInv, TypeOK
  <2>. QED  BY <2>1, <2>2 DEF Current
<1>3. /\ embeddings[t][Adjudicated(t).id] \in Contents
      /\ \A k \in Current(t).candidates :
            /\ k.id # Adjudicated(t).id
            /\ NamespaceOf[k.id] = NamespaceOf[Adjudicated(t).id]
  BY DEF IInv, TickInv, Grounded, Idles, Current, Adjudicated
<1>4. PICK k \in Current(t).candidates :
          k.score >= Floor /\ Current(t).target \in {k.id, Adjudicated(t).id}
  BY DEF Idles, HasEvidence, Clears
<1>5. k.id \in Ids
  BY <1>2 DEF Verdict, Candidate
<1>. QED  BY <1>1, <1>3, <1>4, <1>5 DEF Current

\* Between the verdicts nothing of the tick changes but the cursor.
LEMMA Adjudicating ==
    ASSUME IInv, NEW t \in Ticks, pc[t] \in {"gather", "absorbing"}, pc'[t] = "gather",
           UNCHANGED <<queue, pending, abstracts, embeddings, verdicts>>
    PROVE  TickInv(t)'
<1>1. Bounded(t)' /\ Empty(t)' /\ Ungathered(t)' /\ Halfway(t)'
  BY DEF IInv, TickInv, Bounded, Empty, Ungathered, Halfway
<1>2. AboutBatch(t)'
  BY DEF IInv, TickInv, AboutBatch, PendingIds
<1>3. Grounded(t)'
  BY DEF IInv, TickInv, Grounded
<1>. QED  BY <1>1, <1>2, <1>3 DEF TickInv

LEMMA AdvanceType ==
    ASSUME IInv, NEW t \in Ticks, Advance(t)
    PROVE  cursor' \in [Ticks -> Nat \ {0}]
<1>1. cursor[t] + 1 \in Nat \ {0}
  BY DEF IInv, TypeOK
<1>. QED  BY <1>1 DEF IInv, TypeOK, Advance

LEMMA SkipInv ==
    ASSUME IInv, NEW t \in Ticks, Skip(t)
    PROVE  IInv'
<1>1. TypeOK'
  BY AdvanceType DEF IInv, TypeOK, Skip, store
<1>2. TickInv(t)'
  BY Adjudicating DEF Skip, Executing
<1>3. Frame(t)
  BY DEF IInv, TypeOK, Skip, Advance, Frame
<1>. QED  BY <1>1, <1>2, <1>3, OwnStep

LEMMA AbsorbInv ==
    ASSUME IInv, NEW t \in Ticks, NEW ok, Absorb(t, ok)
    PROVE  IInv'
<1>. DEFINE target == Current(t).target
            memory == Adjudicated(t)
            taken  == ok /\ Present(target)
<1>1. /\ pc[t] = "gather" /\ cursor[t] \in DOMAIN pending[t] /\ ~Idles(t)
      /\ Current(t).action = "Update"
      /\ UNCHANGED <<issued, edges, queue, pending, abstracts, assessments,
                     proposals, done, embeddings, verdicts, writes, begun>>
  BY DEF Absorb, Executing
<1>2. CASE taken
  <2>1. /\ rows' = WithContent(target, memory.content, embeddings[t][memory.id])
        /\ pc' = [pc EXCEPT ![t] = "absorbing"] /\ cursor' = cursor
    BY <1>2 DEF Absorb, Goto
  <2>2. rows' \in Table
    BY <1>1, <1>2, <2>1, ExecutedVerdict, WithContentTable DEF IInv, TypeOK, Table
  <2>3. TypeOK'
    BY <1>1, <2>1, <2>2 DEF IInv, TypeOK, Table, Labels
  <2>4. TickInv(t)'
    <3>1. pc'[t] = "absorbing"
      BY <2>1 DEF IInv, TypeOK
    <3>2. Bounded(t)' /\ Empty(t)' /\ Ungathered(t)'
      BY <1>1, <3>1 DEF IInv, TickInv, Bounded, Empty, Ungathered
    <3>6. AboutBatch(t)'
      BY <1>1 DEF IInv, TickInv, AboutBatch, PendingIds
    <3>7. Grounded(t)'
      BY <1>1 DEF IInv, TickInv, Grounded
    <3>3. Current(t)' = Current(t) /\ Adjudicated(t)' = Adjudicated(t)
      BY <1>1, <2>1 DEF Current, Adjudicated
    <3>4. Idles(t)' <=> Idles(t)
      BY <3>3 DEF Idles, HasEvidence, Clears
    <3>5. Halfway(t)'
      BY <1>1, <2>1, <3>3, <3>4 DEF Halfway
    <3>. QED  BY <3>2, <3>5, <3>6, <3>7 DEF TickInv
  <2>5. Frame(t)
    BY <1>1, <2>1 DEF IInv, TypeOK, Frame
  <2>. QED  BY <2>3, <2>4, <2>5, OwnStep
<1>3. CASE ~taken
  <2>1. Advance(t) /\ UNCHANGED <<rows, pc>>
    BY <1>3 DEF Absorb
  <2>2. TypeOK'
    BY <1>1, <2>1, AdvanceType DEF IInv, TypeOK
  <2>3. TickInv(t)'
    BY <1>1, <2>1, Adjudicating
  <2>4. Frame(t)
    BY <1>1, <2>1 DEF IInv, TypeOK, Advance, Frame
  <2>. QED  BY <2>2, <2>3, <2>4, OwnStep
<1>. QED  BY <1>2, <1>3

LEMMA InvalidateAbsorbedInv ==
    ASSUME IInv, NEW t \in Ticks, NEW ok, InvalidateAbsorbed(t, ok)
    PROVE  IInv'
<1>1. cursor[t] \in DOMAIN pending[t] /\ ~Idles(t)
  BY DEF IInv, TickInv, Halfway, InvalidateAbsorbed
<1>2. rows' \in Table
  BY <1>1, ExecutedVerdict, WithInvalidTable DEF IInv, TypeOK, Table, InvalidateAbsorbed
<1>3. TypeOK'
  BY <1>2, AdvanceType DEF IInv, TypeOK, Table, InvalidateAbsorbed, Goto, Labels
<1>4. TickInv(t)'
  BY Adjudicating DEF IInv, TypeOK, InvalidateAbsorbed, Goto
<1>5. Frame(t)
  BY DEF IInv, TypeOK, InvalidateAbsorbed, Goto, Advance, Frame
<1>. QED  BY <1>3, <1>4, <1>5, OwnStep

LEMMA InvalidateLoserInv ==
    ASSUME IInv, NEW t \in Ticks, NEW ok, InvalidateLoser(t, ok)
    PROVE  IInv'
<1>1. rows' \in Table
  BY WithInvalidTable DEF IInv, TypeOK, Table, InvalidateLoser
<1>2. TypeOK'
  BY <1>1, AdvanceType DEF IInv, TypeOK, Table, InvalidateLoser
<1>3. TickInv(t)'
  BY Adjudicating DEF InvalidateLoser, Executing
<1>4. Frame(t)
  BY DEF IInv, TypeOK, InvalidateLoser, Advance, Frame
<1>. QED  BY <1>2, <1>3, <1>4, OwnStep

LEMMA NextInv == IInv /\ [Next]_vars => IInv'
<1>. SUFFICES ASSUME IInv, [Next]_vars PROVE IInv'
  OBVIOUS
<1>1. CASE Outside
  BY <1>1, OutsideInv
<1>2. ASSUME NEW t \in Ticks, ListPending(t) \/ Abort(t)
      PROVE  IInv'
  BY <1>2, ListPendingInv, ResetInv DEF Abort
<1>3. ASSUME NEW t \in Ticks, Step(t)
      PROVE  IInv'
  <2>1. CASE ReadPending(t) \/ Consolidate(t) \/ Skip(t) \/ Return(t)
    BY <2>1, ReadPendingInv, ConsolidateInv, SkipInv, ResetInv DEF Return
  <2>2. ASSUME NEW ok \in BOOLEAN, NEW id \in Ids,
               UpdateAbstract(t, id, ok) \/ UpdateImportance(t, id, ok)
        PROVE  IInv'
    BY <2>2, UpdateAbstractInv, UpdateImportanceInv
  <2>3. ASSUME NEW ok \in BOOLEAN, NEW e \in proposals[t], InsertEdge(t, e, ok)
        PROVE  IInv'
    BY <2>3, InsertEdgeInv
  <2>4. ASSUME NEW ok \in BOOLEAN, MarkConsolidated(t, ok) \/ GetEmbeddings(t, ok)
        PROVE  IInv'
    BY <2>4, MarkConsolidatedInv, GetEmbeddingsInv
  <2>5. ASSUME NEW ok \in BOOLEAN, NEW i \in 1..BatchSize, Gather(t, i, ok)
        PROVE  IInv'
    BY <2>5, GatherInv
  <2>6. ASSUME NEW ok \in BOOLEAN,
               Absorb(t, ok) \/ InvalidateAbsorbed(t, ok) \/ InvalidateLoser(t, ok)
        PROVE  IInv'
    BY <2>6, AbsorbInv, InvalidateAbsorbedInv, InvalidateLoserInv
  <2>. QED  BY <1>3, <2>1, <2>2, <2>3, <2>4, <2>5, <2>6 DEF Step
<1>4. CASE UNCHANGED vars
  <2>1. TypeOK'
    BY <1>4 DEF IInv, TypeOK, vars, store, local
  <2>2. \A t \in Ticks : TickInv(t)'
    BY <1>4, Bystander DEF IInv, vars, local
  <2>. QED  BY <2>1, <2>2 DEF IInv
<1>. QED  BY <1>1, <1>2, <1>3, <1>4 DEF Next

\* The tables and the state of every tick keep their types, however many ticks
\* run, whatever fails and whatever the clients do meanwhile.
THEOREM TypeCorrect == Spec => []TypeOK
<1>1. IInv => TypeOK
  BY DEF IInv
<1>. QED  BY <1>1, InitInv, NextInv, PTL DEF Spec

-----------------------------------------------------------------------------
(* One call seen from one row.                                             *)

\* The row keeps its invalidation, nothing comes back, and a new row has not
\* been absorbed.
Kept(id) ==
    /\ Present(id)' /\ ~Present(id)
           => id \notin issued /\ rows'[id].absorbed_into = NoId
    /\ Present(id) /\ Present(id)'
           => /\ rows'[id].invalid = rows[id].invalid
              /\ rows'[id].absorbed_into = rows[id].absorbed_into

\* The row's progress through consolidation is not touched, except that it may
\* be queued again.
Steady(id) ==
    Present(id)' =>
        /\ Present(id)
        /\ rows'[id].abstract = rows[id].abstract
        /\ rows[id].pending => rows'[id].pending
        /\ rows'[id].assessed = rows[id].assessed

\* invalidate_memory, where it takes effect.
Invalidates(id, into) == rows' = WithInvalid(id, into)

LEMMA WithContentEffect ==
    ASSUME IInv, NEW x \in Ids, Present(x), NEW c \in Contents, NEW e \in Contents,
           rows' = WithContent(x, c, e)
    PROVE  \A id \in Ids : Kept(id) /\ Steady(id)
<1>1. rows[x] \in Row /\ NoRow \notin Row
  BY GovernanceAssumption DEF IInv, TypeOK, Present
<1>2. ASSUME NEW id \in Ids
      PROVE  Kept(id) /\ Steady(id)
  <2>1. CASE id = x
    BY <1>1, <2>1 DEF IInv, TypeOK, WithContent, Kept, Steady, Present, Row
  <2>2. CASE id # x
    <3>1. rows'[id] = rows[id]
      BY <2>2 DEF IInv, TypeOK, WithContent
    <3>. QED  BY <3>1 DEF Kept, Steady, Present
  <2>. QED  BY <2>1, <2>2
<1>. QED  BY <1>2

LEMMA UnchangedEffect ==
    ASSUME rows' = rows
    PROVE  \A id \in Ids : Kept(id) /\ Steady(id)
BY DEF Kept, Steady, Present

LEMMA WithInvalidEffect ==
    ASSUME IInv, NEW x \in Ids, NEW into \in Ids \cup {NoId}, Invalidates(x, into)
    PROVE  \A id \in Ids :
              /\ Steady(id)
              /\ Present(id) => Present(id)'
              /\ id # x \/ (Present(id) /\ rows[id].invalid) => Kept(id)
              /\ Present(id)' => Present(id)
              /\ Kept(id) \/ rows'[id].absorbed_into = into
<1>1. CASE Present(x) /\ ~rows[x].invalid
  <2>1. rows' = [rows EXCEPT ![x].invalid = TRUE, ![x].absorbed_into = into]
    BY <1>1 DEF Invalidates, WithInvalid
  <2>2. rows[x] \in Row /\ NoRow \notin Row
    BY <1>1, GovernanceAssumption DEF IInv, TypeOK, Present
  <2>3. rows' \in Table
    BY WithInvalidTable DEF Invalidates, IInv, TypeOK, Table
  <2>4. /\ rows'[x].abstract = rows[x].abstract
        /\ rows'[x].pending = rows[x].pending
        /\ rows'[x].assessed = rows[x].assessed
        /\ rows'[x].absorbed_into = into
        /\ rows'[x] \in Row
    BY <2>1, <2>2 DEF IInv, TypeOK, Row
  <2>5. ASSUME NEW id \in Ids, id # x
        PROVE  rows'[id] = rows[id]
    BY <2>1, <2>5 DEF IInv, TypeOK
  <2>. QED  BY <1>1, <2>2, <2>4, <2>5 DEF Steady, Kept, Present
<1>2. CASE ~(Present(x) /\ ~rows[x].invalid)
  BY <1>2, UnchangedEffect DEF Invalidates, WithInvalid, Steady, Present
<1>. QED  BY <1>1, <1>2

\* An UPDATE of one row that leaves its invalidation alone.
LEMMA FieldEffect ==
    ASSUME IInv, NEW x \in Ids, Present(x), NEW r \in Row,
           r.invalid = rows[x].invalid, r.absorbed_into = rows[x].absorbed_into,
           rows' = [rows EXCEPT ![x] = r]
    PROVE  /\ rows'[x] = r
           /\ \A id \in Ids : Kept(id) /\ (id # x => rows'[id] = rows[id])
<1>1. rows'[x] = r /\ \A id \in Ids : id # x => rows'[id] = rows[id]
  BY DEF IInv, TypeOK
<1>2. r # NoRow
  BY GovernanceAssumption
<1>. QED  BY <1>1, <1>2 DEF Kept, Present

LEMMA UpdateAbstractEffect ==
    ASSUME IInv, NEW t \in Ticks, NEW x \in Ids, NEW ok, UpdateAbstract(t, x, ok)
    PROVE  \/ /\ Present(x)
              /\ done' = [done EXCEPT ![t] = @ \cup {x}]
              /\ rows'[x].abstract \in Contents
              /\ rows'[x].assessed = rows[x].assessed
              /\ \A id \in Ids : Kept(id) /\ (id # x => rows'[id] = rows[id])
           \/ UNCHANGED <<rows, done>>
<1>1. CASE ok /\ Present(x)
  <2>. DEFINE r == [rows[x] EXCEPT !.abstract = SnapshotOf(t, x)]
  <2>1. SnapshotOf(t, x) \in Contents
    BY SnapshotOfType DEF IInv, TickInv, AboutBatch, UpdateAbstract
  <2>2. rows[x] \in Row
    BY <1>1 DEF IInv, TypeOK, Present
  <2>3. /\ r \in Row /\ r.abstract \in Contents /\ r.assessed = rows[x].assessed
        /\ r.invalid = rows[x].invalid /\ r.absorbed_into = rows[x].absorbed_into
    BY <2>1, <2>2 DEF Row
  <2>4. rows' = [rows EXCEPT ![x] = r] /\ done' = [done EXCEPT ![t] = @ \cup {x}]
    BY <1>1 DEF UpdateAbstract
  <2>. HIDE DEF r
  <2>. QED  BY <1>1, <2>3, <2>4, FieldEffect
<1>2. CASE ~(ok /\ Present(x))
  BY <1>2 DEF UpdateAbstract
<1>. QED  BY <1>1, <1>2

LEMMA UpdateImportanceEffect ==
    ASSUME IInv, NEW t \in Ticks, NEW x \in Ids, NEW ok, UpdateImportance(t, x, ok)
    PROVE  \/ /\ Present(x) /\ x \in done[t]
              /\ rows'[x].abstract = rows[x].abstract
              /\ rows'[x].pending = rows[x].pending
              /\ \A id \in Ids : Kept(id) /\ (id # x => rows'[id] = rows[id])
           \/ UNCHANGED rows
<1>1. CASE ok /\ x \in done[t] /\ Present(x)
  <2>. DEFINE r == [rows[x] EXCEPT !.assessed = TRUE]
  <2>1. rows[x] \in Row
    BY <1>1 DEF IInv, TypeOK, Present
  <2>2. /\ r \in Row /\ r.abstract = rows[x].abstract /\ r.pending = rows[x].pending
        /\ r.invalid = rows[x].invalid /\ r.absorbed_into = rows[x].absorbed_into
    BY <2>1 DEF Row
  <2>3. rows' = [rows EXCEPT ![x] = r]
    BY <1>1 DEF UpdateImportance
  <2>. HIDE DEF r
  <2>. QED  BY <1>1, <2>2, <2>3, FieldEffect
<1>2. CASE ~(ok /\ x \in done[t] /\ Present(x))
  BY <1>2 DEF UpdateImportance
<1>. QED  BY <1>1, <1>2

LEMMA MarkConsolidatedEffect ==
    ASSUME IInv, NEW t \in Ticks, NEW ok, MarkConsolidated(t, ok)
    PROVE  \A id \in Ids :
              /\ Kept(id)
              /\ id \notin done[t] => rows'[id] = rows[id]
              /\ Present(id)' <=> Present(id)
              /\ Present(id) => /\ rows'[id].abstract = rows[id].abstract
                               /\ rows'[id].assessed = rows[id].assessed
<1>1. CASE ok
  <2>1. ASSUME NEW id \in Ids, id \in done[t], Present(id)
        PROVE  /\ rows'[id] \in Row
               /\ rows'[id].abstract = rows[id].abstract
               /\ rows'[id].assessed = rows[id].assessed
               /\ rows'[id].invalid = rows[id].invalid
               /\ rows'[id].absorbed_into = rows[id].absorbed_into
    <3>1. rows[id] \in Row
      BY <2>1 DEF IInv, TypeOK, Present
    <3>2. rows'[id] = [rows[id] EXCEPT !.pending = FALSE]
      BY <1>1, <2>1 DEF MarkConsolidated, WithMarked
    <3>. QED  BY <3>1, <3>2 DEF Row
  <2>2. ASSUME NEW id \in Ids, ~(id \in done[t] /\ Present(id))
        PROVE  rows'[id] = rows[id]
    BY <1>1, <2>2 DEF MarkConsolidated, WithMarked
  <2>. QED  BY <2>1, <2>2, GovernanceAssumption DEF Kept, Present
<1>2. CASE ~ok
  BY <1>2 DEF MarkConsolidated, Kept, Present
<1>. QED  BY <1>1, <1>2

-----------------------------------------------------------------------------
(* Clients and the forgetting tick.                                        *)

LEMMA SetLevelEffect ==
    ASSUME IInv, NEW x \in Ids, SetLevel(x)
    PROVE  \A id \in Ids : Kept(id) /\ Steady(id)
<1>. DEFINE r == [rows[x] EXCEPT !.archived = ~@]
<1>1. rows[x] \in Row /\ Present(x)
  BY DEF IInv, TypeOK, Present, SetLevel
<1>2. /\ r \in Row /\ r.abstract = rows[x].abstract /\ r.pending = rows[x].pending
      /\ r.assessed = rows[x].assessed
      /\ r.invalid = rows[x].invalid /\ r.absorbed_into = rows[x].absorbed_into
  BY <1>1 DEF Row
<1>3. rows' = [rows EXCEPT ![x] = r]
  BY DEF SetLevel
<1>. HIDE DEF r
<1>4. /\ rows'[x] = r
      /\ \A id \in Ids : Kept(id) /\ (id # x => rows'[id] = rows[id])
  BY <1>1, <1>2, <1>3, FieldEffect
<1>. QED  BY <1>1, <1>2, <1>4 DEF Steady, Present

LEMMA DeleteEffect ==
    ASSUME IInv, NEW x \in Ids, Delete(x)
    PROVE  \A id \in Ids : Kept(id) /\ Steady(id)
<1>1. \A id \in Ids : rows'[id] = IF id = x THEN NoRow ELSE rows[id]
  BY DEF IInv, TypeOK, Delete
<1>. QED  BY <1>1 DEF Kept, Steady, Present

LEMMA InsertEffect ==
    ASSUME IInv, NEW x \in Ids, NEW c \in Contents, Insert(x, c)
    PROVE  /\ x \notin issued /\ issued' = issued \cup {x}
           /\ rows'[x] = FreshRow(c)
           /\ \A id \in Ids : id # x => rows'[id] = rows[id]
BY DEF IInv, TypeOK, Insert

-----------------------------------------------------------------------------
(* The invariant of the memories table.                                    *)

Issued == \A id \in Ids : Present(id) => id \in issued

\* The ids a tick is going to mark carry an abstract, or are gone for good.
DonePersisted ==
    \A t \in Ticks : \A id \in done[t] :
        id \in issued /\ (Present(id) => rows[id].abstract # NoContent)

RowsInv == /\ Issued /\ DonePersisted
           /\ ConsolidatedHasAbstract /\ ImportanceFollowsAbstract

LEMMA InitRows == Init => RowsInv
<1>. SUFFICES ASSUME Init PROVE RowsInv
  OBVIOUS
<1>1. PICK seed \in [Ids -> Contents], consolidated \in SUBSET issued :
          rows = [id \in Ids |->
                    IF id \notin issued THEN NoRow
                    ELSE IF id \in consolidated
                    THEN [FreshRow(seed[id]) EXCEPT !.pending = FALSE,
                                                    !.abstract = seed[id]]
                    ELSE FreshRow(seed[id])]
  BY DEF Init
<1>2. ASSUME NEW id \in Ids, Present(id)
      PROVE  /\ id \in issued
             /\ rows[id].pending \/ rows[id].abstract \in Contents
             /\ ~rows[id].assessed
  <2>1. id \in issued
    BY <1>1, <1>2 DEF Present
  <2>2. seed[id] \in Contents
    OBVIOUS
  <2>3. CASE id \in consolidated
    BY <1>1, <2>1, <2>2, <2>3 DEF FreshRow
  <2>4. CASE id \notin consolidated
    BY <1>1, <2>1, <2>4 DEF FreshRow
  <2>. QED  BY <2>1, <2>3, <2>4
<1>3. DonePersisted
  BY DEF Init, DonePersisted
<1>. QED
  BY <1>2, <1>3, GovernanceAssumption DEF RowsInv, Issued, ConsolidatedHasAbstract,
                                          ImportanceFollowsAbstract

\* Nothing is consolidated by a call that leaves the rows steady.
LEMMA SteadyRows ==
    ASSUME RowsInv, \A id \in Ids : Steady(id), issued' = issued,
           IInv, \A t \in Ticks : done'[t] \subseteq done[t]
    PROVE  RowsInv'
<1>1. Issued' /\ ConsolidatedHasAbstract' /\ ImportanceFollowsAbstract'
  BY DEF RowsInv, Issued, ConsolidatedHasAbstract, ImportanceFollowsAbstract, Steady,
         Present
<1>2. DonePersisted'
  <2>1. ASSUME NEW t \in Ticks, NEW id \in done'[t]
        PROVE  id \in issued' /\ (Present(id)' => rows'[id].abstract # NoContent)
    <3>1. id \in done[t] /\ id \in Ids
      BY DEF IInv, TypeOK
    <3>. QED  BY <3>1 DEF RowsInv, DonePersisted, Steady
  <2>. QED  BY <2>1 DEF DonePersisted
<1>. QED  BY <1>1, <1>2 DEF RowsInv

LEMMA InsertRows ==
    ASSUME IInv, RowsInv, NEW x \in Ids, NEW c \in Contents, Insert(x, c)
    PROVE  RowsInv' /\ \A id \in Ids : Kept(id)
<1>1. /\ x \notin issued /\ issued' = issued \cup {x} /\ ~Present(x)
      /\ rows'[x] = FreshRow(c)
      /\ \A id \in Ids : id # x => rows'[id] = rows[id]
  BY InsertEffect DEF RowsInv, Issued
<1>2. rows'[x].pending /\ ~rows'[x].assessed
  BY <1>1 DEF FreshRow
<1>3. done' = done
  BY DEF Insert, local
<1>4. Issued' /\ ConsolidatedHasAbstract' /\ ImportanceFollowsAbstract'
  BY <1>1, <1>2 DEF RowsInv, Issued, ConsolidatedHasAbstract,
                    ImportanceFollowsAbstract, Present
<1>5. DonePersisted'
  <2>1. ASSUME NEW t \in Ticks, NEW id \in done[t]
        PROVE  id \in issued' /\ (Present(id)' => rows'[id].abstract # NoContent)
    <3>1. id \in issued /\ id \in Ids /\ id # x
      BY <1>1 DEF IInv, TypeOK, RowsInv, DonePersisted
    <3>. QED  BY <1>1, <3>1 DEF RowsInv, DonePersisted, Present
  <2>. QED  BY <1>3, <2>1 DEF DonePersisted
<1>6. \A id \in Ids : Kept(id)
  BY <1>1 DEF Kept, Present, FreshRow
<1>. QED  BY <1>4, <1>5, <1>6 DEF RowsInv

LEMMA OutsideRows ==
    ASSUME IInv, RowsInv, Outside
    PROVE  RowsInv' /\ \A id \in Ids : Kept(id)
<1>1. ASSUME NEW x \in Ids, Delete(x) \/ SetLevel(x)
      PROVE  RowsInv' /\ \A id \in Ids : Kept(id)
  <2>1. \A id \in Ids : Kept(id) /\ Steady(id)
    BY <1>1, DeleteEffect, SetLevelEffect
  <2>2. UNCHANGED <<issued, done>>
    BY <1>1 DEF Delete, SetLevel, local
  <2>. QED  BY <2>1, <2>2, SteadyRows
<1>2. ASSUME NEW x \in Ids, NEW c \in Contents, Put(x, c)
      PROVE  RowsInv' /\ \A id \in Ids : Kept(id)
  <2>1. \A id \in Ids : Kept(id) /\ Steady(id)
    BY <1>2, WithContentEffect DEF Put
  <2>2. UNCHANGED <<issued, done>>
    BY <1>2 DEF Put, local
  <2>. QED  BY <2>1, <2>2, SteadyRows
<1>. QED  BY <1>1, <1>2, InsertRows DEF Outside

LEMMA UpdateAbstractRows ==
    ASSUME IInv, RowsInv, NEW t \in Ticks, NEW x \in Ids, NEW ok,
           UpdateAbstract(t, x, ok)
    PROVE  RowsInv' /\ \A id \in Ids : Kept(id)
<1>0. issued' = issued
  BY DEF UpdateAbstract
<1>1. CASE UNCHANGED <<rows, done>>
  BY <1>0, <1>1, UnchangedEffect, SteadyRows
<1>2. CASE /\ Present(x)
           /\ done' = [done EXCEPT ![t] = @ \cup {x}]
           /\ rows'[x].abstract \in Contents
           /\ rows'[x].assessed = rows[x].assessed
           /\ \A id \in Ids : Kept(id) /\ (id # x => rows'[id] = rows[id])
  <2>1. rows'[x].abstract # NoContent /\ x \in issued
    BY <1>2, GovernanceAssumption DEF RowsInv, Issued
  <2>2. Issued' /\ ConsolidatedHasAbstract' /\ ImportanceFollowsAbstract'
    BY <1>0, <1>2, <2>1 DEF RowsInv, Issued, ConsolidatedHasAbstract,
                            ImportanceFollowsAbstract, Present
  <2>3. DonePersisted'
    <3>1. ASSUME NEW u \in Ticks, NEW id \in done'[u]
          PROVE  id \in issued' /\ (Present(id)' => rows'[id].abstract # NoContent)
      <4>1. CASE id = x
        BY <1>0, <2>1, <4>1
      <4>2. CASE id # x
        <5>1. id \in done[u] /\ id \in Ids
          BY <1>2, <4>2 DEF IInv, TypeOK
        <5>. QED  BY <1>0, <1>2, <4>2, <5>1 DEF RowsInv, DonePersisted, Present
      <4>. QED  BY <4>1, <4>2
    <3>. QED  BY <3>1 DEF DonePersisted
  <2>. QED  BY <1>2, <2>2, <2>3 DEF RowsInv
<1>. QED  BY <1>1, <1>2, UpdateAbstractEffect

LEMMA UpdateImportanceRows ==
    ASSUME IInv, RowsInv, NEW t \in Ticks, NEW x \in Ids, NEW ok,
           UpdateImportance(t, x, ok)
    PROVE  RowsInv' /\ \A id \in Ids : Kept(id)
<1>0. UNCHANGED <<issued, done>>
  BY DEF UpdateImportance
<1>1. CASE UNCHANGED rows
  BY <1>0, <1>1, UnchangedEffect, SteadyRows
<1>2. CASE /\ Present(x) /\ x \in done[t]
           /\ rows'[x].abstract = rows[x].abstract
           /\ rows'[x].pending = rows[x].pending
           /\ \A id \in Ids : Kept(id) /\ (id # x => rows'[id] = rows[id])
  <2>1. rows'[x].abstract # NoContent
    BY <1>2 DEF RowsInv, DonePersisted
  <2>2. Issued' /\ ConsolidatedHasAbstract' /\ ImportanceFollowsAbstract'
    BY <1>0, <1>2, <2>1 DEF RowsInv, Issued, ConsolidatedHasAbstract,
                            ImportanceFollowsAbstract, Present
  <2>3. DonePersisted'
    <3>1. ASSUME NEW u \in Ticks, NEW id \in done[u]
          PROVE  id \in issued /\ (Present(id)' => rows'[id].abstract # NoContent)
      <4>1. id \in Ids
        BY DEF IInv, TypeOK
      <4>. QED  BY <1>2, <2>1, <4>1 DEF RowsInv, DonePersisted, Present
    <3>. QED  BY <1>0, <3>1 DEF DonePersisted
  <2>. QED  BY <1>2, <2>2, <2>3 DEF RowsInv
<1>. QED  BY <1>1, <1>2, UpdateImportanceEffect

LEMMA MarkConsolidatedRows ==
    ASSUME IInv, RowsInv, NEW t \in Ticks, NEW ok, MarkConsolidated(t, ok)
    PROVE  RowsInv' /\ \A id \in Ids : Kept(id)
<1>1. \A id \in Ids :
          /\ Kept(id)
          /\ id \notin done[t] => rows'[id] = rows[id]
          /\ Present(id)' <=> Present(id)
          /\ Present(id) => /\ rows'[id].abstract = rows[id].abstract
                           /\ rows'[id].assessed = rows[id].assessed
  BY MarkConsolidatedEffect
<1>2. UNCHANGED <<issued, done>>
  BY DEF MarkConsolidated, local
<1>3. Issued' /\ ImportanceFollowsAbstract'
  BY <1>1, <1>2 DEF RowsInv, Issued, ImportanceFollowsAbstract
<1>4. ConsolidatedHasAbstract'
  <2>1. ASSUME NEW id \in Ids, Present(id)', ~rows'[id].pending
        PROVE  rows'[id].abstract # NoContent
    <3>1. CASE id \in done[t]
      BY <1>1, <2>1, <3>1 DEF RowsInv, DonePersisted
    <3>2. CASE id \notin done[t]
      BY <1>1, <2>1, <3>2 DEF RowsInv, ConsolidatedHasAbstract
    <3>. QED  BY <3>1, <3>2
  <2>. QED  BY <2>1 DEF ConsolidatedHasAbstract
<1>5. DonePersisted'
  <2>1. ASSUME NEW u \in Ticks, NEW id \in done[u]
        PROVE  id \in issued /\ (Present(id)' => rows'[id].abstract # NoContent)
    <3>1. id \in Ids
      BY DEF IInv, TypeOK
    <3>. QED  BY <1>1, <3>1 DEF RowsInv, DonePersisted
  <2>. QED  BY <1>2, <2>1 DEF DonePersisted
<1>. QED  BY <1>1, <1>3, <1>4, <1>5 DEF RowsInv

-----------------------------------------------------------------------------
(* The calls that invalidate.                                              *)

Invalidating(t) ==
    \E ok \in BOOLEAN : InvalidateAbsorbed(t, ok) \/ InvalidateLoser(t, ok)

\* id lost against a memory of its bucket that is near enough.
Evidence(t, id) ==
    \E k \in Current(t).candidates :
        /\ k.score >= Floor
        /\ NamespaceOf[k.id] = NamespaceOf[Adjudicated(t).id]
        /\ k.id # Adjudicated(t).id
        /\ id \in {k.id, Adjudicated(t).id}

LEMMA InvalidatingEffect ==
    ASSUME IInv, NEW t \in Ticks, Invalidating(t)
    PROVE  /\ cursor'[t] = cursor[t] + 1
           /\ UNCHANGED <<issued, done, edges>>
           /\ \E x \in Ids, into \in Ids \cup {NoId} :
                 /\ rows' = rows \/ Invalidates(x, into)
                 /\ into # NoId => NamespaceOf[into] = NamespaceOf[x]
                 /\ Evidence(t, x)
<1>. PICK ok \in BOOLEAN : InvalidateAbsorbed(t, ok) \/ InvalidateLoser(t, ok)
  BY DEF Invalidating
<1>1. cursor[t] \in DOMAIN pending[t] /\ ~Idles(t)
  BY DEF IInv, TickInv, Halfway, InvalidateAbsorbed, InvalidateLoser, Executing
<1>2. Advance(t) /\ UNCHANGED <<issued, done, edges>>
  BY DEF InvalidateAbsorbed, InvalidateLoser
<1>3. /\ Current(t).target \in Ids /\ Adjudicated(t).id \in Ids
      /\ NamespaceOf[Current(t).target] = NamespaceOf[Adjudicated(t).id]
      /\ Evidence(t, Current(t).target)
      /\ Evidence(t, Adjudicated(t).id)
  BY <1>1, ExecutedVerdict DEF Evidence
<1>4. cursor'[t] = cursor[t] + 1
  BY <1>2 DEF IInv, TypeOK, Advance
<1>5. CASE InvalidateAbsorbed(t, ok)
  <2>1. rows' = rows \/ Invalidates(Adjudicated(t).id, Current(t).target)
    BY <1>5 DEF InvalidateAbsorbed, Invalidates
  <2>. QED  BY <1>2, <1>3, <1>4, <2>1
<1>6. CASE InvalidateLoser(t, ok)
  <2>1. rows' = rows \/ Invalidates(Current(t).target, NoId)
    BY <1>6 DEF InvalidateLoser, Invalidates
  <2>. QED  BY <1>2, <1>3, <1>4, <2>1
<1>. QED  BY <1>5, <1>6

LEMMA InvalidatingRows ==
    ASSUME IInv, RowsInv, NEW t \in Ticks, Invalidating(t)
    PROVE  RowsInv'
<1>1. \A id \in Ids : Steady(id)
  BY InvalidatingEffect, WithInvalidEffect, UnchangedEffect
<1>. QED  BY <1>1, InvalidatingEffect, SteadyRows

\* Every other call of a tick.
LEMMA StepRows ==
    ASSUME IInv, RowsInv, NEW t \in Ticks, ListPending(t) \/ Step(t) \/ Abort(t)
    PROVE  \/ RowsInv' /\ \A id \in Ids : Kept(id)
           \/ Invalidating(t)
<1>1. ASSUME rows' = rows, issued' = issued, \A u \in Ticks : done'[u] \subseteq done[u]
      PROVE  RowsInv' /\ \A id \in Ids : Kept(id)
  BY <1>1, UnchangedEffect, SteadyRows
<1>2. CASE ListPending(t) \/ ReadPending(t) \/ Consolidate(t) \/ Skip(t)
  BY <1>1, <1>2 DEF ListPending, ReadPending, Consolidate, Skip, store
<1>3. CASE Return(t) \/ Abort(t)
  <2>1. done' = [done EXCEPT ![t] = {}]
    BY <1>3 DEF Return, Abort, Reset
  <2>2. UNCHANGED <<rows, issued>>
    BY <1>3 DEF Return, Abort, store
  <2>3. \A u \in Ticks : done'[u] \subseteq done[u]
    BY <2>1 DEF IInv, TypeOK
  <2>. QED  BY <1>1, <2>2, <2>3
<1>4. ASSUME NEW ok \in BOOLEAN, NEW id \in Ids,
             UpdateAbstract(t, id, ok) \/ UpdateImportance(t, id, ok)
      PROVE  RowsInv' /\ \A x \in Ids : Kept(x)
  BY <1>4, UpdateAbstractRows, UpdateImportanceRows
<1>5. ASSUME NEW ok \in BOOLEAN, NEW e \in proposals[t], InsertEdge(t, e, ok)
      PROVE  RowsInv' /\ \A id \in Ids : Kept(id)
  BY <1>1, <1>5 DEF InsertEdge
<1>6. ASSUME NEW ok \in BOOLEAN, MarkConsolidated(t, ok)
      PROVE  RowsInv' /\ \A id \in Ids : Kept(id)
  BY <1>6, MarkConsolidatedRows
<1>7. ASSUME NEW ok \in BOOLEAN, GetEmbeddings(t, ok)
      PROVE  RowsInv' /\ \A id \in Ids : Kept(id)
  BY <1>1, <1>7 DEF GetEmbeddings, store
<1>8. ASSUME NEW ok \in BOOLEAN, NEW i \in 1..BatchSize, Gather(t, i, ok)
      PROVE  RowsInv' /\ \A id \in Ids : Kept(id)
  BY <1>1, <1>8 DEF Gather, store
<1>9. ASSUME NEW ok \in BOOLEAN, Absorb(t, ok)
      PROVE  RowsInv' /\ \A id \in Ids : Kept(id)
  <2>1. UNCHANGED <<issued, done>>
    BY <1>9 DEF Absorb
  <2>2. CASE rows' = rows
    BY <1>1, <2>1, <2>2
  <2>3. CASE rows' # rows
    <3>1. /\ cursor[t] \in DOMAIN pending[t] /\ ~Idles(t) /\ Present(Current(t).target)
          /\ rows' = WithContent(Current(t).target, Adjudicated(t).content,
                                 embeddings[t][Adjudicated(t).id])
      BY <1>9, <2>3 DEF Absorb, Executing
    <3>2. \A id \in Ids : Kept(id) /\ Steady(id)
      BY <3>1, ExecutedVerdict, WithContentEffect
    <3>. QED  BY <2>1, <3>2, SteadyRows
  <2>. QED  BY <2>2, <2>3
<1>10. ASSUME NEW ok \in BOOLEAN, InvalidateAbsorbed(t, ok) \/ InvalidateLoser(t, ok)
       PROVE  Invalidating(t)
  BY <1>10 DEF Invalidating
<1>. QED
  BY <1>2, <1>3, <1>4, <1>5, <1>6, <1>7, <1>8, <1>9, <1>10 DEF Step

\* A step invalidates by a verdict, or leaves every invalidation as it is.
LEMMA StepKinds ==
    ASSUME IInv, RowsInv, [Next]_vars
    PROVE  /\ RowsInv'
           /\ (\A id \in Ids : Kept(id)) \/ (\E t \in Ticks : Invalidating(t))
<1>1. CASE UNCHANGED vars
  BY <1>1, UnchangedEffect, SteadyRows DEF vars, store, local
<1>2. CASE Next
  BY <1>2, OutsideRows, StepRows, InvalidatingRows DEF Next
<1>. QED  BY <1>1, <1>2

LEMMA AlwaysRowsInv == Spec => [](IInv /\ RowsInv)
<1>1. Init => IInv /\ RowsInv
  BY InitInv, InitRows
<1>2. IInv /\ RowsInv /\ [Next]_vars => (IInv /\ RowsInv)'
  BY NextInv, StepKinds
<1>. QED  BY <1>1, <1>2, PTL DEF Spec

-----------------------------------------------------------------------------
(* The theorems.                                                           *)

\* A row leaves the pending queue only with an abstract in place.
THEOREM OnlyPersistedIsConsolidated == Spec => []ConsolidatedHasAbstract
<1>1. RowsInv => ConsolidatedHasAbstract
  BY DEF RowsInv
<1>. QED  BY <1>1, AlwaysRowsInv, PTL

\* Importance is written only where the abstract was.
THEOREM OnlyPersistedIsAssessed == Spec => []ImportanceFollowsAbstract
<1>1. RowsInv => ImportanceFollowsAbstract
  BY DEF RowsInv
<1>. QED  BY <1>1, AlwaysRowsInv, PTL

\* The first invalidation of a row is the last.
THEOREM InvalidationIsIdempotent == Spec => FirstInvalidationWins
<1>. DEFINE Wins == \A id \in Ids :
        Present(id) /\ rows[id].invalid /\ Present(id)'
            => /\ rows'[id].invalid
               /\ rows'[id].absorbed_into = rows[id].absorbed_into
<1>1. IInv /\ RowsInv /\ [Next]_vars => Wins
  <2>. SUFFICES ASSUME IInv, RowsInv, [Next]_vars,
                       NEW id \in Ids, Present(id), rows[id].invalid, Present(id)'
                PROVE  Kept(id)
    BY DEF Kept
  <2>1. CASE \E t \in Ticks : Invalidating(t)
    BY <2>1, InvalidatingEffect, WithInvalidEffect, UnchangedEffect
  <2>. QED  BY <2>1, StepKinds
<1>2. IInv /\ RowsInv /\ [Next]_vars => [Wins]_vars
  BY <1>1
<1>. QED  BY <1>2, AlwaysRowsInv, PTL DEF Spec, FirstInvalidationWins

\* No call writes a deleted row back.
THEOREM DeletionIsFinal == Spec => DeletedStaysDeleted
<1>. DEFINE Final == \A id \in issued : ~Present(id) => ~Present(id)'
<1>1. IInv /\ RowsInv /\ [Next]_vars => Final
  <2>. SUFFICES ASSUME IInv, RowsInv, [Next]_vars,
                       NEW id \in issued, ~Present(id), Present(id)'
                PROVE  FALSE
    OBVIOUS
  <2>1. id \in Ids
    BY DEF IInv, TypeOK
  <2>2. CASE \A x \in Ids : Kept(x)
    BY <2>1, <2>2 DEF Kept
  <2>3. CASE \E t \in Ticks : Invalidating(t)
    BY <2>1, <2>3, InvalidatingEffect, WithInvalidEffect, UnchangedEffect DEF Kept
  <2>. QED  BY <2>2, <2>3, StepKinds
<1>2. IInv /\ RowsInv /\ [Next]_vars => [Final]_vars
  BY <1>1
<1>. QED  BY <1>2, AlwaysRowsInv, PTL DEF Spec, DeletedStaysDeleted

\* The dual-signal rule: no row is invalidated without a near memory of its
\* bucket on the other side of the verdict.
THEOREM DualSignal == Spec => InvalidationHasEvidence
<1>. DEFINE Evident == \A id \in Ids :
        Present(id) /\ ~rows[id].invalid /\ Present(id)' /\ rows'[id].invalid
            => \E t \in Ticks :
                /\ cursor'[t] = cursor[t] + 1
                /\ \E k \in Current(t).candidates :
                    /\ k.score >= Floor
                    /\ NamespaceOf[k.id] = NamespaceOf[Adjudicated(t).id]
                    /\ k.id # Adjudicated(t).id
                    /\ id \in {k.id, Adjudicated(t).id}
<1>1. IInv /\ RowsInv /\ [Next]_vars => Evident
  <2>. SUFFICES ASSUME IInv, RowsInv, [Next]_vars, NEW id \in Ids,
                       Present(id), ~rows[id].invalid, Present(id)', rows'[id].invalid
                PROVE  \E t \in Ticks : cursor'[t] = cursor[t] + 1 /\ Evidence(t, id)
    BY DEF Evidence
  <2>1. ~Kept(id)
    BY DEF Kept
  <2>2. PICK t \in Ticks : Invalidating(t)
    BY <2>1, StepKinds
  <2>3. PICK x \in Ids, into \in Ids \cup {NoId} :
            (rows' = rows \/ Invalidates(x, into)) /\ Evidence(t, x)
    BY <2>2, InvalidatingEffect
  <2>4. id = x
    BY <2>1, <2>3, UnchangedEffect, WithInvalidEffect
  <2>. QED  BY <2>2, <2>3, <2>4, InvalidatingEffect
<1>2. IInv /\ RowsInv /\ [Next]_vars => [Evident]_vars
  BY <1>1
<1>. QED  BY <1>2, AlwaysRowsInv, PTL DEF Spec, InvalidationHasEvidence

\* No memory is absorbed across buckets.
THEOREM BucketsStayApart == Spec => []AbsorptionStaysInBucket
<1>1. Init => AbsorptionStaysInBucket
  <2>. SUFFICES ASSUME Init, NEW id \in Ids, Present(id)
                PROVE  rows[id].absorbed_into = NoId
    BY DEF AbsorptionStaysInBucket
  <2>1. PICK seed \in [Ids -> Contents], consolidated \in SUBSET issued :
            rows = [x \in Ids |->
                      IF x \notin issued THEN NoRow
                      ELSE IF x \in consolidated
                      THEN [FreshRow(seed[x]) EXCEPT !.pending = FALSE,
                                                     !.abstract = seed[x]]
                      ELSE FreshRow(seed[x])]
    BY DEF Init
  <2>2. id \in issued
    BY <2>1 DEF Present
  <2>3. CASE id \in consolidated
    BY <2>1, <2>2, <2>3 DEF FreshRow
  <2>4. CASE id \notin consolidated
    BY <2>1, <2>2, <2>4 DEF FreshRow
  <2>. QED  BY <2>3, <2>4
<1>2. IInv /\ RowsInv /\ AbsorptionStaysInBucket /\ [Next]_vars
          => AbsorptionStaysInBucket'
  <2>. SUFFICES ASSUME IInv, RowsInv, AbsorptionStaysInBucket, [Next]_vars,
                       NEW id \in Ids, Present(id)', rows'[id].absorbed_into # NoId
                PROVE  NamespaceOf[rows'[id].absorbed_into] = NamespaceOf[id]
    BY DEF AbsorptionStaysInBucket
  <2>1. CASE Kept(id)
    BY <2>1 DEF Kept, AbsorptionStaysInBucket
  <2>2. CASE ~Kept(id)
    <3>1. PICK t \in Ticks : Invalidating(t)
      BY <2>2, StepKinds
    <3>2. PICK x \in Ids, into \in Ids \cup {NoId} :
              /\ rows' = rows \/ Invalidates(x, into)
              /\ into # NoId => NamespaceOf[into] = NamespaceOf[x]
      BY <3>1, InvalidatingEffect
    <3>3. Invalidates(x, into)
      BY <2>2, <3>2, UnchangedEffect
    <3>4. id = x /\ rows'[id].absorbed_into = into
      BY <2>2, <3>3, WithInvalidEffect DEF Kept
    <3>. QED  BY <3>2, <3>4
  <2>. QED  BY <2>1, <2>2
<1>. QED  BY <1>1, <1>2, AlwaysRowsInv, PTL DEF Spec

-----------------------------------------------------------------------------
(* Edges.                                                                  *)

Lasting == \A id \in Ids : Present(id) => Present(id)'

LEMMA WriteLasts ==
    ASSUME IInv, NEW x \in Ids, NEW r, r # NoRow, rows' = [rows EXCEPT ![x] = r]
    PROVE  Lasting
BY DEF IInv, TypeOK, Lasting, Present

\* Every row a tick touches is still there, and a new edge joins two rows that
\* are there.
LEMMA TickLasts ==
    ASSUME IInv, NEW t \in Ticks, ListPending(t) \/ Step(t) \/ Abort(t)
    PROVE  /\ Lasting
           /\ \A e \in edges' : e \in edges \/ (Present(e[1]) /\ Present(e[2]))
<1>0. \A id \in Ids : Present(id) => rows[id] \in Row
  BY DEF IInv, TypeOK, Present
<1>1. ASSUME UNCHANGED <<rows, edges>>
      PROVE  Lasting /\ edges' = edges
  BY <1>1 DEF Lasting, Present
<1>2. CASE \/ ListPending(t) \/ ReadPending(t) \/ Consolidate(t) \/ Skip(t)
           \/ Return(t) \/ Abort(t)
  BY <1>1, <1>2 DEF ListPending, ReadPending, Consolidate, Skip, Return, Abort, store
<1>3. ASSUME NEW ok \in BOOLEAN, NEW x \in Ids, UpdateAbstract(t, x, ok)
      PROVE  Lasting /\ edges' = edges
  <2>1. CASE ok /\ Present(x)
    <3>. DEFINE r == [rows[x] EXCEPT !.abstract = SnapshotOf(t, x)]
    <3>1. r \in Row
      BY <1>0, <1>3, <2>1, SnapshotOfType
         DEF IInv, TickInv, AboutBatch, UpdateAbstract, Row
    <3>2. rows' = [rows EXCEPT ![x] = r] /\ edges' = edges
      BY <1>3, <2>1 DEF UpdateAbstract
    <3>. HIDE DEF r
    <3>. QED  BY <3>1, <3>2, WriteLasts, GovernanceAssumption
  <2>2. CASE ~(ok /\ Present(x))
    BY <1>1, <1>3, <2>2 DEF UpdateAbstract
  <2>. QED  BY <2>1, <2>2
<1>4. ASSUME NEW ok \in BOOLEAN, NEW x \in Ids, UpdateImportance(t, x, ok)
      PROVE  Lasting /\ edges' = edges
  <2>1. CASE ok /\ x \in done[t] /\ Present(x)
    <3>. DEFINE r == [rows[x] EXCEPT !.assessed = TRUE]
    <3>1. r \in Row
      BY <1>0, <2>1 DEF Row
    <3>2. rows' = [rows EXCEPT ![x] = r] /\ edges' = edges
      BY <1>4, <2>1 DEF UpdateImportance
    <3>. HIDE DEF r
    <3>. QED  BY <3>1, <3>2, WriteLasts, GovernanceAssumption
  <2>2. CASE ~(ok /\ x \in done[t] /\ Present(x))
    BY <1>1, <1>4, <2>2 DEF UpdateImportance
  <2>. QED  BY <2>1, <2>2
<1>5. ASSUME NEW ok \in BOOLEAN, NEW e \in proposals[t], InsertEdge(t, e, ok)
      PROVE  /\ Lasting
             /\ \A f \in edges' : f \in edges \/ (Present(f[1]) /\ Present(f[2]))
  BY <1>5 DEF InsertEdge, Lasting, Present
<1>6. ASSUME NEW ok \in BOOLEAN, MarkConsolidated(t, ok)
      PROVE  Lasting /\ edges' = edges
  BY <1>6, MarkConsolidatedEffect DEF MarkConsolidated, Lasting
<1>7. ASSUME NEW ok \in BOOLEAN,
             GetEmbeddings(t, ok) \/ (\E i \in 1..BatchSize : Gather(t, i, ok))
      PROVE  Lasting /\ edges' = edges
  BY <1>1, <1>7 DEF GetEmbeddings, Gather, store
<1>8. ASSUME NEW ok \in BOOLEAN, Absorb(t, ok)
      PROVE  Lasting /\ edges' = edges
  <2>1. CASE rows' = rows
    BY <1>1, <1>8, <2>1 DEF Absorb
  <2>2. CASE rows' # rows
    <3>. DEFINE x == Current(t).target
                c == Adjudicated(t).content
                e == embeddings[t][Adjudicated(t).id]
    <3>1. /\ cursor[t] \in DOMAIN pending[t] /\ ~Idles(t) /\ Present(x)
          /\ rows' = WithContent(x, c, e) /\ edges' = edges
      BY <1>8, <2>2 DEF Absorb, Executing
    <3>2. x \in Ids /\ c \in Contents /\ e \in Contents
      BY <3>1, ExecutedVerdict
    <3>. HIDE DEF x, c, e
    <3>3. rows'[x] # NoRow /\ \A id \in Ids : id # x => rows'[id] = rows[id]
      <4>1. rows'[x] = [rows[x] EXCEPT !.content = c, !.embedding = e, !.pending = TRUE]
        BY <3>1, <3>2 DEF WithContent, IInv, TypeOK
      <4>2. rows'[x] \in Row
        BY <1>0, <3>1, <3>2, <4>1 DEF Row
      <4>. QED
        BY <3>1, <3>2, <4>2, GovernanceAssumption DEF WithContent, IInv, TypeOK
    <3>. QED  BY <3>1, <3>2, <3>3 DEF Lasting, Present
  <2>. QED  BY <2>1, <2>2
<1>9. CASE Invalidating(t)
  <2>1. PICK x \in Ids, into \in Ids \cup {NoId} : rows' = rows \/ Invalidates(x, into)
    BY <1>9, InvalidatingEffect
  <2>2. Lasting
    BY <2>1, WithInvalidEffect DEF Lasting, Present
  <2>. QED  BY <1>9, <2>2, InvalidatingEffect
<1>10. ASSUME NEW ok \in BOOLEAN, InvalidateAbsorbed(t, ok) \/ InvalidateLoser(t, ok)
       PROVE  Invalidating(t)
  BY <1>10 DEF Invalidating
<1>. QED
  BY <1>2, <1>3, <1>4, <1>5, <1>6, <1>7, <1>8, <1>9, <1>10 DEF Step

LEMMA OutsideEdges ==
    ASSUME IInv, RowsInv, EdgesHaveEndpoints, Outside
    PROVE  EdgesHaveEndpoints'
<1>. \A e \in edges : e \in Ids \X Ids
  BY DEF IInv, TypeOK
<1>1. ASSUME NEW x \in Ids, Delete(x)
      PROVE  EdgesHaveEndpoints'
  BY <1>1 DEF Delete, EdgesWithout, EdgesHaveEndpoints, Present, IInv, TypeOK
<1>2. ASSUME NEW x \in Ids, SetLevel(x)
      PROVE  Lasting /\ edges' = edges
  <2>. DEFINE r == [rows[x] EXCEPT !.archived = ~@]
  <2>1. rows[x] \in Row
    BY <1>2 DEF IInv, TypeOK, Present, SetLevel
  <2>2. r \in Row
    BY <2>1 DEF Row
  <2>3. rows' = [rows EXCEPT ![x] = r] /\ edges' = edges
    BY <1>2 DEF SetLevel
  <2>. HIDE DEF r
  <2>. QED  BY <2>2, <2>3, WriteLasts, GovernanceAssumption
<1>3. ASSUME NEW x \in Ids, NEW c \in Contents, Insert(x, c)
      PROVE  Lasting /\ edges' = edges
  <2>1. FreshRow(c) # NoRow /\ rows' = [rows EXCEPT ![x] = FreshRow(c)]
    BY <1>3, FreshRowType, GovernanceAssumption DEF Insert
  <2>. QED  BY <1>3, <2>1, WriteLasts DEF Insert
<1>4. ASSUME NEW x \in Ids, NEW c \in Contents, Put(x, c)
      PROVE  Lasting /\ edges' = edges
  <2>. DEFINE r == [rows[x] EXCEPT !.content = c, !.embedding = c, !.pending = TRUE]
  <2>1. rows[x] \in Row
    BY <1>4 DEF IInv, TypeOK, Present, Put
  <2>2. r \in Row
    BY <2>1 DEF Row
  <2>3. rows'[x] = r /\ \A id \in Ids : id # x => rows'[id] = rows[id]
    BY <1>4 DEF Put, WithContent, IInv, TypeOK
  <2>. HIDE DEF r
  <2>. QED  BY <1>4, <2>2, <2>3, GovernanceAssumption DEF Put, Lasting, Present
<1>5. ASSUME Lasting, edges' = edges
      PROVE  EdgesHaveEndpoints'
  BY <1>5 DEF Lasting, EdgesHaveEndpoints, IInv, TypeOK
<1>. QED  BY <1>1, <1>2, <1>3, <1>4, <1>5 DEF Outside

\* An edge never outlives a memory it joins.
THEOREM NoDanglingEdge == Spec => []EdgesHaveEndpoints
<1>1. Init => EdgesHaveEndpoints
  BY DEF Init, EdgesHaveEndpoints
<1>2. IInv /\ RowsInv /\ EdgesHaveEndpoints /\ [Next]_vars => EdgesHaveEndpoints'
  <2>. SUFFICES ASSUME IInv, RowsInv, EdgesHaveEndpoints, [Next]_vars
                PROVE  EdgesHaveEndpoints'
    OBVIOUS
  <2>1. CASE UNCHANGED vars
    BY <2>1 DEF vars, store, EdgesHaveEndpoints, Present
  <2>2. ASSUME NEW t \in Ticks, ListPending(t) \/ Step(t) \/ Abort(t)
        PROVE  EdgesHaveEndpoints'
    <3>1. edges' \subseteq Ids \X Ids
      BY <2>2, NextInv DEF Next, IInv, TypeOK
    <3>. QED  BY <2>2, <3>1, TickLasts DEF Lasting, EdgesHaveEndpoints
  <2>. QED  BY <2>1, <2>2, OutsideEdges DEF Next
<1>. QED  BY <1>1, <1>2, AlwaysRowsInv, PTL DEF Spec

-----------------------------------------------------------------------------
(* The two calls of an UPDATE.                                             *)

\* A memory is listed once and read once, so that it has one snapshot.
Single(t) ==
    /\ \A i, j \in DOMAIN queue[t] : queue[t][i] = queue[t][j] => i = j
    /\ \A i, j \in DOMAIN pending[t] :
           pending[t][i].id = pending[t][j].id => i = j
    /\ \A i \in DOMAIN pending[t], j \in DOMAIN queue[t] :
           pending[t][i].id # queue[t][j]

\* Between the two calls the target holds the content of the listing.
Copied(t) ==
    pc[t] = "absorbing"
        => /\ Present(Current(t).target)
           /\ rows[Current(t).target].content = Adjudicated(t).content

LEMMA ReadPendingSingle ==
    ASSUME IInv, NEW t \in Ticks, Single(t), ReadPending(t)
    PROVE  Single(t)'
<1>. DEFINE q == queue[t]
            p == pending[t]
            read == [id |-> Head(q), content |-> rows[Head(q)].content]
<1>1. q \in Seq(Ids) /\ q # <<>> /\ p \in Seq(Snapshot)
  BY DEF IInv, TypeOK, ReadPending
<1>2. queue'[t] = Tail(q)
  BY DEF IInv, TypeOK, ReadPending
<1>3. pending'[t] = p \/ pending'[t] = Append(p, read)
  BY DEF IInv, TypeOK, ReadPending
<1>4. /\ DOMAIN q = 1..Len(q) /\ Len(q) \in Nat \ {0}
      /\ DOMAIN Tail(q) = 1..(Len(q) - 1)
      /\ \A i \in DOMAIN Tail(q) : Tail(q)[i] = q[i + 1]
      /\ Head(q) = q[1]
  BY <1>1
<1>5. /\ DOMAIN p = 1..Len(p) /\ Len(p) \in Nat
      /\ DOMAIN Append(p, read) = 1..(Len(p) + 1)
      /\ \A i \in DOMAIN p : Append(p, read)[i] = p[i]
      /\ Append(p, read)[Len(p) + 1] = read
  BY <1>1
<1>6. /\ \A i, j \in DOMAIN q : q[i] = q[j] => i = j
      /\ \A i, j \in DOMAIN p : p[i].id = p[j].id => i = j
      /\ \A i \in DOMAIN p, j \in DOMAIN q : p[i].id # q[j]
  BY DEF Single
<1>7. read.id = q[1] /\ 1 \in DOMAIN q
  BY <1>4
<1>. HIDE DEF read, q, p
<1>8. \A i \in DOMAIN Tail(q) : i + 1 \in DOMAIN q /\ i + 1 # 1
  BY <1>4
<1>9. \A i, j \in DOMAIN Tail(q) : Tail(q)[i] = Tail(q)[j] => i = j
  <2>. SUFFICES ASSUME NEW i \in DOMAIN Tail(q), NEW j \in DOMAIN Tail(q),
                       Tail(q)[i] = Tail(q)[j]
                PROVE  i = j
    OBVIOUS
  <2>1. q[i + 1] = q[j + 1]
    BY <1>4
  <2>2. i + 1 = j + 1
    BY <1>6, <1>8, <2>1
  <2>. QED  BY <1>4, <2>2
<1>10. \A j \in DOMAIN Tail(q) :
          /\ Tail(q)[j] # q[1]
          /\ \A i \in DOMAIN p : p[i].id # Tail(q)[j]
  BY <1>4, <1>6, <1>7, <1>8
<1>11. CASE pending'[t] = p
  BY <1>2, <1>6, <1>9, <1>10, <1>11 DEF Single
<1>12. CASE pending'[t] = Append(p, read)
  <2>. DEFINE a == Append(p, read)
  <2>1. ASSUME NEW i \in DOMAIN a
        PROVE  \/ i \in DOMAIN p /\ a[i] = p[i]
               \/ i = Len(p) + 1 /\ a[i].id = q[1]
    BY <1>5, <1>7, <2>1
  <2>. HIDE DEF a
  <2>2. \A i, j \in DOMAIN a : a[i].id = a[j].id => i = j
    BY <1>6, <1>7, <2>1
  <2>3. \A i \in DOMAIN a, j \in DOMAIN Tail(q) : a[i].id # Tail(q)[j]
    BY <1>10, <2>1
  <2>. QED  BY <1>2, <1>9, <1>12, <2>2, <2>3 DEF Single, a
<1>. QED  BY <1>3, <1>11, <1>12

LEMMA ListPendingSingle ==
    ASSUME IInv, NEW t \in Ticks, ListPending(t)
    PROVE  Single(t)'
<1>1. pending'[t] = <<>>
  BY DEF IInv, TickInv, Empty, ListPending
<1>. PICK n \in 1..BatchSize :
         \E s \in [1..n -> Listed] :
            /\ \A i, j \in 1..n : s[i] = s[j] => i = j
            /\ queue' = [queue EXCEPT ![t] = s]
  BY DEF ListPending
<1>2. PICK s \in [1..n -> Listed] :
          /\ \A i, j \in 1..n : s[i] = s[j] => i = j
          /\ queue' = [queue EXCEPT ![t] = s]
  OBVIOUS
<1>3. queue'[t] = s
  BY <1>2 DEF IInv, TypeOK
<1>. QED  BY <1>1, <1>2, <1>3 DEF Single

LEMMA ResetSingle ==
    ASSUME IInv, NEW t \in Ticks, Reset(t)
    PROVE  Single(t)'
<1>1. queue'[t] = <<>> /\ pending'[t] = <<>>
  BY DEF IInv, TypeOK, Reset
<1>. QED  BY <1>1 DEF Single

LEMMA SingleInv ==
    ASSUME IInv, [Next]_vars, NEW t \in Ticks, Single(t)
    PROVE  Single(t)'
<1>1. ASSUME queue'[t] = queue[t], pending'[t] = pending[t]
      PROVE  Single(t)'
  BY <1>1 DEF Single
<1>2. CASE UNCHANGED vars \/ Outside
  BY <1>1, <1>2 DEF vars, local, Outside, Insert, Put, Delete, SetLevel
<1>3. ASSUME NEW u \in Ticks, ListPending(u)
      PROVE  Single(t)'
  BY <1>1, <1>3, ListPendingSingle DEF ListPending, IInv, TypeOK
<1>4. ASSUME NEW u \in Ticks, ReadPending(u)
      PROVE  Single(t)'
  BY <1>1, <1>4, ReadPendingSingle DEF ReadPending, IInv, TypeOK
<1>5. ASSUME NEW u \in Ticks, Return(u) \/ Abort(u)
      PROVE  Single(t)'
  BY <1>1, <1>5, ResetSingle DEF Return, Abort, Reset, IInv, TypeOK
<1>6. ASSUME NEW u \in Ticks, Consolidate(u) \/ Skip(u)
      PROVE  Single(t)'
  BY <1>1, <1>6 DEF Consolidate, Skip
<1>7. ASSUME NEW u \in Ticks, NEW ok \in BOOLEAN,
             \/ \E id \in Ids : UpdateAbstract(u, id, ok) \/ UpdateImportance(u, id, ok)
             \/ \E e \in proposals[u] : InsertEdge(u, e, ok)
             \/ MarkConsolidated(u, ok)
             \/ GetEmbeddings(u, ok)
             \/ \E i \in 1..BatchSize : Gather(u, i, ok)
             \/ Absorb(u, ok)
             \/ InvalidateAbsorbed(u, ok)
             \/ InvalidateLoser(u, ok)
      PROVE  Single(t)'
  BY <1>1, <1>7 DEF UpdateAbstract, UpdateImportance, InsertEdge, MarkConsolidated,
     GetEmbeddings, Gather, Absorb, InvalidateAbsorbed, InvalidateLoser, local
<1>. QED  BY <1>2, <1>3, <1>4, <1>5, <1>6, <1>7 DEF Next, Step

LEMMA AbsorbCopies ==
    ASSUME IInv, NEW t \in Ticks, NEW ok \in BOOLEAN, Absorb(t, ok)
    PROVE  Copied(t)'
<1>. DEFINE x == Current(t).target
            c == Adjudicated(t).content
            e == embeddings[t][Adjudicated(t).id]
<1>1. pc[t] = "gather" /\ cursor[t] \in DOMAIN pending[t] /\ ~Idles(t)
  BY DEF Absorb, Executing
<1>2. CASE ok /\ Present(x)
  <2>1. rows' = WithContent(x, c, e) /\ UNCHANGED <<cursor, verdicts, pending>>
    BY <1>2 DEF Absorb
  <2>2. Current(t)' = Current(t) /\ Adjudicated(t)' = Adjudicated(t)
    BY <2>1 DEF Current, Adjudicated
  <2>3. x \in Ids /\ c \in Contents /\ e \in Contents
    BY <1>1, ExecutedVerdict
  <2>4. rows[x] \in Row
    BY <1>2, <2>3 DEF IInv, TypeOK, Present
  <2>5. x' = x /\ c' = c
    BY <2>2
  <2>. HIDE DEF x, c, e
  <2>6. rows'[x] = [rows[x] EXCEPT !.content = c, !.embedding = e, !.pending = TRUE]
    BY <2>1, <2>3 DEF WithContent, IInv, TypeOK
  <2>7. rows'[x] \in Row /\ rows'[x].content = c
    BY <2>3, <2>4, <2>6 DEF Row
  <2>8. rows'[x] # NoRow
    BY <2>7, GovernanceAssumption
  <2>. QED  BY <2>5, <2>7, <2>8 DEF Copied, Present, x, c
<1>3. CASE ~(ok /\ Present(x))
  BY <1>1, <1>3 DEF Absorb, Copied
<1>. QED  BY <1>2, <1>3

\* Nothing but the tick itself can change what it copied.
LEMMA CopiedInv ==
    ASSUME NEW t, Ticks = {t}, MaxWrites = 0, IInv, [Next]_vars, Copied(t)
    PROVE  Copied(t)'
<1>0. t \in Ticks
  OBVIOUS
<1>1. ASSUME UNCHANGED vars
      PROVE  Copied(t)'
  BY <1>1 DEF vars, store, local, Copied, Current, Adjudicated, Present
<1>2. ~Outside
  BY DEF Outside, Insert, Put, Delete, SetLevel, CountWrite, IInv, TypeOK
<1>3. ASSUME pc'[t] # "absorbing"
      PROVE  Copied(t)'
  BY <1>3 DEF Copied
<1>4. CASE ListPending(t) \/ Return(t) \/ Abort(t)
  BY <1>0, <1>3, <1>4 DEF ListPending, Return, Abort, Reset, Goto, IInv, TypeOK
<1>5. CASE ReadPending(t) \/ Consolidate(t) \/ Skip(t)
  BY <1>0, <1>3, <1>5
     DEF ReadPending, Consolidate, Skip, Executing, Goto, IInv, TypeOK
<1>6. ASSUME NEW ok \in BOOLEAN,
             \/ \E id \in Ids : UpdateAbstract(t, id, ok) \/ UpdateImportance(t, id, ok)
             \/ \E e \in proposals[t] : InsertEdge(t, e, ok)
             \/ \E i \in 1..BatchSize : Gather(t, i, ok)
             \/ InvalidateLoser(t, ok)
      PROVE  Copied(t)'
  BY <1>3, <1>6
     DEF UpdateAbstract, UpdateImportance, InsertEdge, Gather, InvalidateLoser, Executing
<1>7. ASSUME NEW ok \in BOOLEAN,
             MarkConsolidated(t, ok) \/ GetEmbeddings(t, ok) \/ InvalidateAbsorbed(t, ok)
      PROVE  Copied(t)'
  BY <1>0, <1>3, <1>7
     DEF MarkConsolidated, GetEmbeddings, InvalidateAbsorbed, Goto, IInv, TypeOK
<1>8. ASSUME NEW ok \in BOOLEAN, Absorb(t, ok)
      PROVE  Copied(t)'
  BY <1>0, <1>8, AbsorbCopies
<1>. QED
  BY <1>1, <1>2, <1>4, <1>5, <1>6, <1>7, <1>8 DEF Next, Step

\* With no other writer (one tick, no client call), a memory is absorbed only
\* after its content stands in the memory its audit pointer names.
THEOREM AbsorptionLosesNothing ==
    ASSUME NEW tick, Ticks = {tick}, MaxWrites = 0
    PROVE  Spec => AbsorbedAfterCopied
<1>0. tick \in Ticks
  OBVIOUS
<1>. DEFINE I == IInv /\ RowsInv /\ Single(tick) /\ Copied(tick)
            After == \A id \in Ids : \A t \in Ticks :
                Present(id) /\ Present(id)' /\ id \in PendingIds(t)
                /\ rows[id].absorbed_into = NoId /\ rows'[id].absorbed_into # NoId
                    => /\ Present(rows'[id].absorbed_into)
                       /\ rows[rows'[id].absorbed_into].content = SnapshotOf(t, id)
<1>1. Init => Single(tick) /\ Copied(tick)
  <2>. SUFFICES ASSUME Init PROVE Single(tick) /\ Copied(tick)
    OBVIOUS
  <2>1. queue[tick] = <<>> /\ pending[tick] = <<>> /\ pc[tick] = "idle"
    BY <1>0 DEF Init
  <2>2. DOMAIN queue[tick] = {} /\ DOMAIN pending[tick] = {}
    BY <2>1
  <2>. QED  BY <2>1, <2>2 DEF Single, Copied
<1>2. I /\ [Next]_vars => I'
  BY <1>0, NextInv, StepKinds, SingleInv, CopiedInv
<1>3. I /\ [Next]_vars => After
  <2>. SUFFICES ASSUME I, [Next]_vars, NEW id \in Ids, Present(id), Present(id)',
                       rows[id].absorbed_into = NoId, rows'[id].absorbed_into # NoId
                PROVE  /\ Present(rows'[id].absorbed_into)
                       /\ rows[rows'[id].absorbed_into].content = SnapshotOf(tick, id)
    OBVIOUS
  <2>1. ~Kept(id)
    BY DEF Kept
  <2>2. PICK ok \in BOOLEAN : InvalidateAbsorbed(tick, ok) \/ InvalidateLoser(tick, ok)
    BY <2>1, StepKinds DEF Invalidating
  <2>3. cursor[tick] \in DOMAIN pending[tick] /\ ~Idles(tick)
    BY <1>0, <2>2 DEF IInv, TickInv, Halfway, InvalidateAbsorbed, InvalidateLoser, Executing
  <2>4. Current(tick).target \in Ids /\ Adjudicated(tick).id \in Ids
    BY <1>0, <2>3, ExecutedVerdict
  <2>5. CASE InvalidateLoser(tick, ok)
    <3>1. rows' = rows \/ Invalidates(Current(tick).target, NoId)
      BY <2>5 DEF InvalidateLoser, Invalidates
    <3>. QED  BY <2>1, <2>4, <3>1, UnchangedEffect, WithInvalidEffect
  <2>6. CASE InvalidateAbsorbed(tick, ok)
    <3>1. rows' = rows \/ Invalidates(Adjudicated(tick).id, Current(tick).target)
      BY <2>6 DEF InvalidateAbsorbed, Invalidates
    <3>2. Invalidates(Adjudicated(tick).id, Current(tick).target)
      BY <2>1, <3>1, UnchangedEffect
    <3>3. id = Adjudicated(tick).id /\ rows'[id].absorbed_into = Current(tick).target
      BY <2>1, <2>4, <3>2, WithInvalidEffect
    <3>4. /\ Present(Current(tick).target)
          /\ rows[Current(tick).target].content = Adjudicated(tick).content
      BY <2>6 DEF InvalidateAbsorbed, Copied
    <3>5. \A i \in DOMAIN pending[tick] : pending[tick][i].id = id <=> i = cursor[tick]
      BY <2>3, <3>3 DEF Single, Adjudicated
    <3>6. SnapshotOf(tick, id) = Adjudicated(tick).content
      <4>1. (CHOOSE i \in DOMAIN pending[tick] : pending[tick][i].id = id) = cursor[tick]
        BY <2>3, <3>5
      <4>. QED  BY <4>1 DEF SnapshotOf, Adjudicated
    <3>. QED  BY <3>3, <3>4, <3>6
  <2>. QED  BY <2>2, <2>5, <2>6
<1>4. Init => I
  BY <1>1, InitInv, InitRows
<1>5. I /\ [Next]_vars => [After]_vars
  BY <1>3
<1>. QED  BY <1>2, <1>4, <1>5, PTL DEF Spec, AbsorbedAfterCopied

-----------------------------------------------------------------------------
(* The calls a tick has left.                                              *)

\* What the LLM's report leaves to write is finite, and the cursor is at a
\* verdict or just past the last, at the first until they are gathered.
Measured(t) ==
    /\ IsFiniteSet(abstracts[t]) /\ IsFiniteSet(assessments[t])
    /\ IsFiniteSet(proposals[t])
    /\ pc[t] \notin {"gather", "absorbing"} => cursor[t] = 1
    /\ cursor[t] <= Len(pending[t]) + 1

\* An own step of t leaves it measured and with fewer calls.
Shrinks(t) == Measured(t)' /\ CallsLeft(t)' \in 0..(CallsLeft(t) - 1)

LEMMA Bounds ==
    /\ BatchSize \in Nat /\ MaxAbstracts \in Nat /\ MaxProposals \in Nat
BY GovernanceAssumption

\* The arithmetic of the bound.
LEMMA Begun ==
    \A q, m, p, n \in Nat :
        /\ q + 2 * m + p + 3 * n + 4 \in Nat
        /\ q + 2 * m + p + 3 * n + 4 # 0
        /\ q <= n => q + 2 * m + p + 3 * n + 4 <= 4 * n + 2 * m + p + 4
OBVIOUS

LEMMA OneRowLess ==
    \A q, r, m, p, n \in Nat :
        r = q - 1 => r + 2 * m + p + 3 * n + 4 \in 0..((q + 2 * m + p + 3 * n + 4) - 1)
OBVIOUS

LEMMA Searching ==
    \A w, l, q, n \in Nat :
        q + l <= n /\ w <= l => w + 2 * (l + 1 - 1) + 1 \in 0..((3 * n + 2) - 1)
OBVIOUS

\* The sizes CallsLeft adds up.
LEMMA Sizes ==
    ASSUME IInv, NEW t \in Ticks, Measured(t)
    PROVE  /\ Len(queue[t]) \in Nat /\ Len(pending[t]) \in Nat
           /\ Len(queue[t]) + Len(pending[t]) <= BatchSize
           /\ Cardinality(abstracts[t]) \in Nat /\ Cardinality(assessments[t]) \in Nat
           /\ Cardinality(proposals[t]) \in Nat
           /\ IsFiniteSet(Unanswered(t))
           /\ Cardinality(Unanswered(t)) \in 0..Len(pending[t])
           /\ cursor[t] \in 1..(Len(pending[t]) + 1)
           /\ DOMAIN pending[t] = 1..Len(pending[t])
<1>1. queue[t] \in Seq(Ids) /\ pending[t] \in Seq(Snapshot) /\ cursor[t] \in Nat \ {0}
  BY DEF IInv, TypeOK
<1>2. /\ Len(queue[t]) \in Nat /\ Len(pending[t]) \in Nat
      /\ DOMAIN pending[t] = 1..Len(pending[t])
  BY <1>1
<1>3. Len(queue[t]) + Len(pending[t]) <= BatchSize
  BY DEF IInv, TickInv, Bounded
<1>4. /\ Cardinality(abstracts[t]) \in Nat /\ Cardinality(assessments[t]) \in Nat
      /\ Cardinality(proposals[t]) \in Nat
  BY FS_CardinalityType DEF Measured
<1>5. IsFiniteSet(1..Len(pending[t])) /\ Cardinality(1..Len(pending[t])) = Len(pending[t])
  BY <1>2, FS_Interval
<1>6. Unanswered(t) \in SUBSET (1..Len(pending[t]))
  BY <1>2 DEF Unanswered
<1>7. /\ IsFiniteSet(Unanswered(t))
      /\ Cardinality(Unanswered(t)) <= Len(pending[t])
      /\ Cardinality(Unanswered(t)) \in Nat
  BY <1>5, <1>6, FS_Subset, FS_CardinalityType
<1>8. cursor[t] \in 1..(Len(pending[t]) + 1)
  BY <1>1, <1>2 DEF Measured
<1>9. Cardinality(Unanswered(t)) \in 0..Len(pending[t])
  BY <1>2, <1>7
<1>. QED  BY <1>2, <1>3, <1>4, <1>7, <1>8, <1>9, Zenon

LEMMA BatchIsFinite ==
    ASSUME IInv, NEW t \in Ticks
    PROVE  IsFiniteSet(PendingIds(t))
<1>. DEFINE f == [i \in DOMAIN pending[t] |-> pending[t][i].id]
<1>1. f \in Surjection(DOMAIN pending[t], PendingIds(t))
  BY DEF Surjection, PendingIds
<1>2. IsFiniteSet(DOMAIN pending[t])
  <2>1. pending[t] \in Seq(Snapshot)
    BY DEF IInv, TypeOK
  <2>2. DOMAIN pending[t] = 1..Len(pending[t]) /\ Len(pending[t]) \in Nat
    BY <2>1
  <2>. QED  BY <2>2, FS_Interval
<1>. QED  BY <1>1, <1>2, FS_Surjection

LEMMA ReadPendingShrinks ==
    ASSUME IInv, NEW t \in Ticks, Measured(t), ReadPending(t)
    PROVE  Shrinks(t)
<1>1. /\ pc[t] = "read" /\ pc'[t] = "read"
      /\ UNCHANGED <<abstracts, assessments, proposals, cursor>>
  BY DEF ReadPending
<1>2. Len(queue'[t]) = Len(queue[t]) - 1 /\ Len(queue'[t]) \in Nat
  <2>1. queue[t] \in Seq(Ids) /\ queue[t] # <<>> /\ queue'[t] = Tail(queue[t])
    BY DEF IInv, TypeOK, ReadPending
  <2>. QED  BY <2>1
<1>3. Len(pending'[t]) \in Nat
  <2>1. pending'[t] \in Seq(Snapshot)
    BY ReadPendingInv DEF IInv, TypeOK
  <2>. QED  BY <2>1
<1>4. Measured(t)'
  BY <1>1, <1>3 DEF Measured
<1>5. /\ CallsLeft(t) = Len(queue[t]) + 2 * MaxAbstracts + MaxProposals + 3 * BatchSize + 4
      /\ CallsLeft(t)' = Len(queue'[t]) + 2 * MaxAbstracts + MaxProposals + 3 * BatchSize + 4
  BY <1>1 DEF CallsLeft
<1>6. Len(queue[t]) \in Nat
  BY Sizes, Zenon
<1>7. CallsLeft(t)' \in 0..(CallsLeft(t) - 1)
  <2>1. Len(queue'[t]) + 2 * MaxAbstracts + MaxProposals + 3 * BatchSize + 4
          \in 0..((Len(queue[t]) + 2 * MaxAbstracts + MaxProposals + 3 * BatchSize + 4) - 1)
    BY <1>2, <1>6, OneRowLess, Bounds, Zenon
  <2>. QED  BY <1>5, <2>1, Zenon
<1>. QED  BY <1>4, <1>7 DEF Shrinks

LEMMA ConsolidateShrinks ==
    ASSUME IInv, NEW t \in Ticks, Measured(t), Consolidate(t)
    PROVE  Shrinks(t)
<1>. DEFINE B == PendingIds(t)
<1>1. PICK abs \in SUBSET B :
         /\ Cardinality(abs) <= MaxAbstracts
         /\ abstracts' = [abstracts EXCEPT ![t] = abs]
         /\ \E imp \in SUBSET abs : assessments' = [assessments EXCEPT ![t] = imp]
  BY DEF Consolidate
<1>2. PICK imp \in SUBSET abs : assessments' = [assessments EXCEPT ![t] = imp]
  BY <1>1
<1>3. PICK new \in SUBSET (B \X B) :
         Cardinality(new) <= MaxProposals /\ proposals' = [proposals EXCEPT ![t] = new]
  BY DEF Consolidate
<1>4. abstracts'[t] = abs /\ assessments'[t] = imp /\ proposals'[t] = new
  BY <1>1, <1>2, <1>3 DEF IInv, TypeOK
<1>5. /\ pc[t] = "read" /\ pc'[t] = "persist" /\ queue[t] = <<>>
      /\ UNCHANGED <<pending, cursor>>
  BY DEF Consolidate, Goto, IInv, TypeOK
<1>6. IsFiniteSet(B) /\ IsFiniteSet(B \X B)
  BY BatchIsFinite, FS_Product
<1>. HIDE DEF B
<1>7. /\ IsFiniteSet(abs) /\ IsFiniteSet(imp) /\ IsFiniteSet(new)
      /\ Cardinality(imp) <= Cardinality(abs)
  BY <1>6, FS_Subset
<1>8. Cardinality(abs) \in Nat /\ Cardinality(imp) \in Nat /\ Cardinality(new) \in Nat
  BY <1>7, FS_CardinalityType
<1>9. Measured(t)'
  BY <1>4, <1>5, <1>7 DEF Measured
<1>10. /\ CallsLeft(t) = 0 + 2 * MaxAbstracts + MaxProposals + 3 * BatchSize + 4
       /\ CallsLeft(t)' = Cardinality(abs) + Cardinality(imp) + Cardinality(new)
                              + 3 * BatchSize + 3
  BY <1>4, <1>5 DEF CallsLeft, ToWrite
<1>. QED  BY <1>1, <1>3, <1>7, <1>8, <1>9, <1>10, Bounds DEF Shrinks

\* A step that takes one abstract, importance or edge off the report.
LEMMA ReportShrinks ==
    ASSUME IInv, NEW t \in Ticks, Measured(t), pc[t] = "persist",
           UNCHANGED <<pc, pending, cursor>>, NEW x,
           \/ /\ x \in abstracts[t] /\ abstracts'[t] = abstracts[t] \ {x}
              /\ UNCHANGED <<assessments, proposals>>
           \/ /\ x \in assessments[t] /\ assessments'[t] = assessments[t] \ {x}
              /\ UNCHANGED <<abstracts, proposals>>
           \/ /\ x \in proposals[t] /\ proposals'[t] = proposals[t] \ {x}
              /\ UNCHANGED <<abstracts, assessments>>
    PROVE  Shrinks(t)
<1>1. /\ IsFiniteSet(abstracts[t]) /\ IsFiniteSet(assessments[t])
      /\ IsFiniteSet(proposals[t])
  BY DEF Measured
<1>2. /\ IsFiniteSet(abstracts'[t]) /\ IsFiniteSet(assessments'[t])
      /\ IsFiniteSet(proposals'[t])
  BY <1>1, FS_RemoveElement
<1>3. ToWrite(t) \in Nat /\ ToWrite(t)' = ToWrite(t) - 1 /\ ToWrite(t)' \in Nat
  <2>1. /\ Cardinality(abstracts[t]) \in Nat /\ Cardinality(assessments[t]) \in Nat
        /\ Cardinality(proposals[t]) \in Nat
        /\ Cardinality(abstracts'[t]) \in Nat /\ Cardinality(assessments'[t]) \in Nat
        /\ Cardinality(proposals'[t]) \in Nat
    BY <1>1, <1>2, FS_CardinalityType
  <2>2. \/ /\ Cardinality(abstracts'[t]) = Cardinality(abstracts[t]) - 1
           /\ UNCHANGED <<assessments, proposals>>
        \/ /\ Cardinality(assessments'[t]) = Cardinality(assessments[t]) - 1
           /\ UNCHANGED <<abstracts, proposals>>
        \/ /\ Cardinality(proposals'[t]) = Cardinality(proposals[t]) - 1
           /\ UNCHANGED <<abstracts, assessments>>
    BY <1>1, FS_RemoveElement
  <2>. QED  BY <2>1, <2>2 DEF ToWrite
<1>4. Measured(t)'
  BY <1>2 DEF Measured
<1>5. /\ CallsLeft(t) = ToWrite(t) + 3 * BatchSize + 3
      /\ CallsLeft(t)' = ToWrite(t)' + 3 * BatchSize + 3
  BY DEF CallsLeft
<1>. QED  BY <1>3, <1>4, <1>5, Bounds DEF Shrinks

LEMMA MarkConsolidatedShrinks ==
    ASSUME IInv, NEW t \in Ticks, Measured(t), NEW ok, MarkConsolidated(t, ok)
    PROVE  Shrinks(t)
<1>1. /\ pc[t] = "persist" /\ pc'[t] \in {"embed", "log"} /\ UNCHANGED local
      /\ abstracts[t] = {} /\ assessments[t] = {} /\ proposals[t] = {}
  BY DEF MarkConsolidated, Goto, IInv, TypeOK
<1>2. Measured(t)'
  BY <1>1 DEF Measured, local
<1>3. CallsLeft(t) = 3 * BatchSize + 3
  BY <1>1, FS_EmptySet, Bounds DEF CallsLeft, ToWrite
<1>4. CallsLeft(t)' \in {3 * BatchSize + 2, 1}
  BY <1>1 DEF CallsLeft
<1>. QED  BY <1>2, <1>3, <1>4, Bounds DEF Shrinks

LEMMA GetEmbeddingsShrinks ==
    ASSUME IInv, NEW t \in Ticks, Measured(t), NEW ok, GetEmbeddings(t, ok)
    PROVE  Shrinks(t)
<1>1. /\ pc[t] = "embed" /\ pc'[t] = "gather" /\ cursor[t] = 1
      /\ UNCHANGED <<queue, pending, abstracts, assessments, proposals, verdicts, cursor>>
  BY DEF GetEmbeddings, Goto, IInv, TypeOK, Measured
<1>2. Measured(t)'
  BY <1>1 DEF Measured
<1>3. Unanswered(t)' = Unanswered(t)
  BY <1>1 DEF Unanswered
<1>4. /\ CallsLeft(t) = 3 * BatchSize + 2
      /\ CallsLeft(t)' = Cardinality(Unanswered(t)) + 2 * (Len(pending[t]) + 1 - 1) + 1
  BY <1>1, <1>3 DEF CallsLeft, ToAdjudicate
<1>5. /\ Len(queue[t]) \in Nat /\ Len(pending[t]) \in Nat
      /\ Len(queue[t]) + Len(pending[t]) <= BatchSize
      /\ Cardinality(Unanswered(t)) \in 0..Len(pending[t])
  BY Sizes, Zenon
<1>6. Cardinality(Unanswered(t)) \in Nat /\ Cardinality(Unanswered(t)) <= Len(pending[t])
  BY <1>5
<1>7. CallsLeft(t)' \in 0..(CallsLeft(t) - 1)
  BY <1>4, <1>5, <1>6, Searching, Bounds, Zenon
<1>. QED  BY <1>2, <1>7 DEF Shrinks

LEMMA GatherShrinks ==
    ASSUME IInv, NEW t \in Ticks, Measured(t), NEW i \in 1..BatchSize, NEW ok,
           Gather(t, i, ok)
    PROVE  Shrinks(t)
<1>1. /\ pc[t] = "gather" /\ i \in DOMAIN pending[t] /\ verdicts[t][i].action = "Waiting"
      /\ UNCHANGED <<pc, queue, pending, abstracts, assessments, proposals, cursor>>
  BY DEF Gather
<1>2. PICK v : verdicts' = [verdicts EXCEPT ![t][i] = v] /\ v.action # "Waiting"
  BY GatherSound DEF Sound
<1>3. \A j \in 1..BatchSize : verdicts'[t][j] = IF j = i THEN v ELSE verdicts[t][j]
  BY <1>2 DEF IInv, TypeOK
<1>4. Unanswered(t)' = Unanswered(t) \ {i} /\ i \in Unanswered(t)
  BY <1>1, <1>2, <1>3, BatchSlots DEF Unanswered
<1>5. Cardinality(Unanswered(t)') = Cardinality(Unanswered(t)) - 1
  BY <1>4, Sizes, FS_RemoveElement
<1>6. Measured(t)'
  BY <1>1 DEF Measured
<1>. DEFINE rest == 2 * (Len(pending[t]) + 1 - cursor[t])
<1>7. /\ CallsLeft(t) = Cardinality(Unanswered(t)) + rest + 1
      /\ CallsLeft(t)' = Cardinality(Unanswered(t)') + rest + 1
  BY <1>1 DEF CallsLeft, ToAdjudicate
<1>8. rest \in Nat
  <2>1. Len(pending[t]) \in Nat /\ cursor[t] \in 1..(Len(pending[t]) + 1)
    BY Sizes, Zenon
  <2>. QED  BY <2>1
<1>9. Cardinality(Unanswered(t)) \in Nat /\ Cardinality(Unanswered(t)') \in Nat
  BY <1>4, Sizes, FS_RemoveElement, FS_CardinalityType
<1>. HIDE DEF rest
<1>. QED  BY <1>5, <1>6, <1>7, <1>8, <1>9 DEF Shrinks

\* A verdict is executed, by one call or the two of an absorption.
LEMMA AdvanceShrinks ==
    ASSUME IInv, NEW t \in Ticks, Measured(t), pc[t] \in {"gather", "absorbing"},
           cursor[t] \in DOMAIN pending[t],
           UNCHANGED <<pending, abstracts, assessments, proposals, verdicts>>,
           \/ cursor'[t] = cursor[t] + 1 /\ pc'[t] = "gather"
           \/ cursor'[t] = cursor[t] /\ pc[t] = "gather" /\ pc'[t] = "absorbing"
    PROVE  Shrinks(t)
<1>1. Unanswered(t)' = Unanswered(t)
  BY DEF Unanswered
<1>. DEFINE W == Cardinality(Unanswered(t))
            L == Len(pending[t])
            c == cursor[t]
<1>2. W \in Nat /\ L \in Nat /\ c \in 1..L
  <2>1. L \in Nat /\ W \in 0..L /\ DOMAIN pending[t] = 1..L
    BY Sizes, Zenon
  <2>. HIDE DEF W, L
  <2>. QED  BY <2>1
<1>3. /\ pc[t] = "gather" => CallsLeft(t) = W + 2 * (L + 1 - c) + 1
      /\ pc[t] = "absorbing" => CallsLeft(t) = W + 2 * (L + 1 - c)
      /\ pc'[t] = "gather" => CallsLeft(t)' = W + 2 * (L + 1 - cursor'[t]) + 1
      /\ pc'[t] = "absorbing" => CallsLeft(t)' = W + 2 * (L + 1 - cursor'[t])
  BY <1>1 DEF CallsLeft, ToAdjudicate
<1>4. Measured(t)'
  BY <1>2 DEF Measured
<1>. HIDE DEF W, L, c
<1>5. CASE cursor'[t] = c + 1 /\ pc'[t] = "gather"
  BY <1>2, <1>3, <1>4, <1>5 DEF Shrinks
<1>6. CASE cursor'[t] = c /\ pc[t] = "gather" /\ pc'[t] = "absorbing"
  BY <1>2, <1>3, <1>4, <1>6 DEF Shrinks
<1>. QED  BY <1>5, <1>6 DEF c

\* While it runs, a tick has its return to make.
LEMMA SomeLeft ==
    ASSUME IInv, NEW t \in Ticks, Measured(t)
    PROVE  CallsLeft(t) \in Nat /\ (pc[t] # "idle" => CallsLeft(t) # 0)
<1>. DEFINE W == Cardinality(Unanswered(t))
            L == Len(pending[t])
            c == cursor[t]
<1>0. L \in Nat /\ W \in 0..L /\ c \in 1..(L + 1) /\ DOMAIN pending[t] = 1..L
  BY Sizes, Zenon
<1>1. W \in Nat /\ L \in Nat /\ c \in 1..(L + 1)
  <2>. HIDE DEF W, L, c
  <2>. QED  BY <1>0
<1>2. pc[t] = "absorbing" => c \in 1..L
  BY <1>0 DEF IInv, TickInv, Halfway
<1>3. /\ pc[t] = "idle" => CallsLeft(t) = 0
      /\ pc[t] = "log" => CallsLeft(t) = 1
      /\ pc[t] = "gather" => CallsLeft(t) = W + 2 * (L + 1 - c) + 1
      /\ pc[t] = "absorbing" => CallsLeft(t) = W + 2 * (L + 1 - c)
      /\ pc[t] = "embed" => CallsLeft(t) = 3 * BatchSize + 2
      /\ pc[t] = "persist" => CallsLeft(t) = ToWrite(t) + 3 * BatchSize + 3
      /\ pc[t] = "read" => CallsLeft(t) = Len(queue[t]) + 2 * MaxAbstracts + MaxProposals
                                              + 3 * BatchSize + 4
  BY DEF CallsLeft, ToAdjudicate
<1>4. ToWrite(t) \in Nat /\ Len(queue[t]) \in Nat
  <2>1. /\ Cardinality(abstracts[t]) \in Nat /\ Cardinality(assessments[t]) \in Nat
        /\ Cardinality(proposals[t]) \in Nat /\ Len(queue[t]) \in Nat
    BY Sizes, Zenon
  <2>. QED  BY <2>1 DEF ToWrite
<1>5. pc[t] \in Labels
  BY DEF IInv, TypeOK
<1>. HIDE DEF W, L, c
<1>6. CASE pc[t] \in {"idle", "log", "gather", "absorbing"}
  BY <1>1, <1>2, <1>3, <1>6
<1>7. CASE pc[t] \in {"embed", "persist"}
  BY <1>3, <1>4, <1>7, Bounds
<1>8. CASE pc[t] = "read"
  <2>1. /\ Len(queue[t]) + 2 * MaxAbstracts + MaxProposals + 3 * BatchSize + 4 \in Nat
        /\ Len(queue[t]) + 2 * MaxAbstracts + MaxProposals + 3 * BatchSize + 4 # 0
    BY <1>4, Begun, Bounds, Zenon
  <2>2. CallsLeft(t) = Len(queue[t]) + 2 * MaxAbstracts + MaxProposals + 3 * BatchSize + 4
    BY <1>3, <1>8, Zenon
  <2>. QED  BY <2>1, <2>2, Zenon
<1>. QED  BY <1>5, <1>6, <1>7, <1>8 DEF Labels

\* A tick that returns or is cut off has none left.
LEMMA ResetShrinks ==
    ASSUME IInv, NEW t \in Ticks, Measured(t), pc[t] # "idle", Reset(t)
    PROVE  Shrinks(t)
<1>1. /\ pc'[t] = "idle" /\ pending'[t] = <<>> /\ cursor'[t] = 1
      /\ abstracts'[t] = {} /\ assessments'[t] = {} /\ proposals'[t] = {}
  BY DEF Reset, Goto, IInv, TypeOK
<1>2. Measured(t)'
  BY <1>1, FS_EmptySet DEF Measured
<1>3. CallsLeft(t)' = 0
  BY <1>1 DEF CallsLeft
<1>. QED  BY <1>2, <1>3, SomeLeft DEF Shrinks

LEMMA StepShrinks ==
    ASSUME IInv, NEW t \in Ticks, Measured(t), Step(t) \/ Abort(t)
    PROVE  pc[t] # "idle" /\ Shrinks(t)
<1>1. CASE ReadPending(t) \/ Consolidate(t)
  BY <1>1, ReadPendingShrinks, ConsolidateShrinks DEF ReadPending, Consolidate
<1>2. CASE Return(t) \/ Abort(t)
  BY <1>2, ResetShrinks DEF Return, Abort
<1>3. ASSUME NEW ok \in BOOLEAN, NEW id \in Ids, UpdateAbstract(t, id, ok)
      PROVE  pc[t] # "idle" /\ Shrinks(t)
  <2>1. /\ pc[t] = "persist" /\ id \in abstracts[t] /\ abstracts'[t] = abstracts[t] \ {id}
        /\ UNCHANGED <<pc, pending, assessments, proposals, cursor>>
    BY <1>3 DEF UpdateAbstract, IInv, TypeOK
  <2>. QED  BY <2>1, ReportShrinks
<1>4. ASSUME NEW ok \in BOOLEAN, NEW id \in Ids, UpdateImportance(t, id, ok)
      PROVE  pc[t] # "idle" /\ Shrinks(t)
  <2>1. /\ pc[t] = "persist" /\ id \in assessments[t]
        /\ assessments'[t] = assessments[t] \ {id}
        /\ UNCHANGED <<pc, pending, abstracts, proposals, cursor>>
    BY <1>4 DEF UpdateImportance, IInv, TypeOK
  <2>. QED  BY <2>1, ReportShrinks
<1>5. ASSUME NEW ok \in BOOLEAN, NEW e \in proposals[t], InsertEdge(t, e, ok)
      PROVE  pc[t] # "idle" /\ Shrinks(t)
  <2>1. /\ pc[t] = "persist" /\ proposals'[t] = proposals[t] \ {e}
        /\ UNCHANGED <<pc, pending, abstracts, assessments, cursor>>
    BY <1>5 DEF InsertEdge, IInv, TypeOK
  <2>. QED  BY <2>1, ReportShrinks
<1>6. ASSUME NEW ok \in BOOLEAN, MarkConsolidated(t, ok) \/ GetEmbeddings(t, ok)
      PROVE  pc[t] # "idle" /\ Shrinks(t)
  BY <1>6, MarkConsolidatedShrinks, GetEmbeddingsShrinks DEF MarkConsolidated, GetEmbeddings
<1>7. ASSUME NEW ok \in BOOLEAN, NEW i \in 1..BatchSize, Gather(t, i, ok)
      PROVE  pc[t] # "idle" /\ Shrinks(t)
  BY <1>7, GatherShrinks DEF Gather
<1>8. CASE Skip(t)
  <2>1. /\ pc[t] = "gather" /\ pc'[t] = "gather" /\ cursor'[t] = cursor[t] + 1
        /\ cursor[t] \in DOMAIN pending[t]
        /\ UNCHANGED <<pending, abstracts, assessments, proposals, verdicts>>
    BY <1>8 DEF Skip, Executing, Advance, IInv, TypeOK
  <2>. QED  BY <2>1, AdvanceShrinks
<1>9. ASSUME NEW ok \in BOOLEAN, Absorb(t, ok) PROVE pc[t] # "idle" /\ Shrinks(t)
  <2>1. /\ pc[t] = "gather" /\ cursor[t] \in DOMAIN pending[t]
        /\ \/ cursor'[t] = cursor[t] + 1 /\ pc'[t] = "gather"
           \/ cursor'[t] = cursor[t] /\ pc'[t] = "absorbing"
        /\ UNCHANGED <<pending, abstracts, assessments, proposals, verdicts>>
    BY <1>9 DEF Absorb, Executing, Advance, Goto, IInv, TypeOK
  <2>. QED  BY <2>1, AdvanceShrinks
<1>10. ASSUME NEW ok \in BOOLEAN, InvalidateAbsorbed(t, ok) PROVE pc[t] # "idle" /\ Shrinks(t)
  <2>1. /\ pc[t] = "absorbing" /\ pc'[t] = "gather" /\ cursor'[t] = cursor[t] + 1
        /\ cursor[t] \in DOMAIN pending[t]
        /\ UNCHANGED <<pending, abstracts, assessments, proposals, verdicts>>
    BY <1>10 DEF InvalidateAbsorbed, Advance, Goto, IInv, TypeOK, TickInv, Halfway
  <2>. QED  BY <2>1, AdvanceShrinks
<1>11. ASSUME NEW ok \in BOOLEAN, InvalidateLoser(t, ok) PROVE pc[t] # "idle" /\ Shrinks(t)
  <2>1. /\ pc[t] = "gather" /\ pc'[t] = "gather" /\ cursor'[t] = cursor[t] + 1
        /\ cursor[t] \in DOMAIN pending[t]
        /\ UNCHANGED <<pending, abstracts, assessments, proposals, verdicts>>
    BY <1>11 DEF InvalidateLoser, Executing, Advance, IInv, TypeOK
  <2>. QED  BY <2>1, AdvanceShrinks
<1>. QED  BY <1>1, <1>2, <1>3, <1>4, <1>5, <1>6, <1>7, <1>8, <1>9, <1>10, <1>11 DEF Step

\* A tick begins with the calls for the rows it has listed.
LEMMA ListPendingBudget ==
    ASSUME IInv, NEW t \in Ticks, Measured(t), ListPending(t)
    PROVE  /\ Measured(t)'
           /\ CallsLeft(t)' <= 4 * BatchSize + 2 * MaxAbstracts + MaxProposals + 4
<1>1. /\ pc[t] = "idle" /\ pc'[t] = "read"
      /\ UNCHANGED <<pending, abstracts, assessments, proposals, cursor>>
  BY DEF ListPending, Goto, IInv, TypeOK
<1>2. Measured(t)'
  BY <1>1 DEF Measured
<1>3. IInv'
  BY ListPendingInv
<1>4. Len(queue'[t]) \in Nat /\ Len(queue'[t]) <= BatchSize
  <2>1. queue'[t] \in Seq(Ids) /\ pending'[t] = <<>>
    BY <1>1, <1>3 DEF IInv, TypeOK, TickInv, Empty
  <2>2. Len(queue'[t]) + Len(pending'[t]) <= BatchSize
    BY <1>3 DEF IInv, TickInv, Bounded
  <2>. QED  BY <2>1, <2>2, Bounds
<1>5. CallsLeft(t)' = Len(queue'[t]) + 2 * MaxAbstracts + MaxProposals + 3 * BatchSize + 4
  BY <1>1 DEF CallsLeft
<1>6. CallsLeft(t)' <= 4 * BatchSize + 2 * MaxAbstracts + MaxProposals + 4
  BY <1>4, <1>5, Begun, Bounds, Zenon
<1>. QED  BY <1>2, <1>6

\* A step of another tick, or of a client, leaves a tick as it is.
LEMMA StateStays ==
    ASSUME IInv, NEW t \in Ticks,
           \/ Outside \/ UNCHANGED vars
           \/ \E u \in Ticks \ {t} : ListPending(u) \/ Step(u) \/ Abort(u)
    PROVE  UNCHANGED TickState(t)
<1>1. CASE Outside \/ UNCHANGED vars
  BY <1>1 DEF Outside, Insert, Put, Delete, SetLevel, vars, local, TickState
<1>2. ASSUME NEW u \in Ticks \ {t}, ListPending(u) \/ Step(u) \/ Abort(u)
      PROVE  UNCHANGED TickState(t)
  <2>0. TypeOK /\ t # u
    BY DEF IInv
  <2>1. CASE ListPending(u) \/ ReadPending(u) \/ Consolidate(u) \/ Skip(u)
    BY <2>0, <2>1 DEF ListPending, ReadPending, Consolidate, Skip, Advance, Goto, TypeOK,
                      TickState
  <2>2. CASE Return(u) \/ Abort(u)
    <3>1. Reset(u)
      BY <2>2 DEF Return, Abort
    <3>. QED  BY <2>0, <3>1 DEF Reset, Goto, TypeOK, TickState
  <2>3. ASSUME NEW ok \in BOOLEAN,
               \/ \E id \in Ids : UpdateAbstract(u, id, ok) \/ UpdateImportance(u, id, ok)
               \/ \E e \in proposals[u] : InsertEdge(u, e, ok)
        PROVE  UNCHANGED TickState(t)
    BY <2>0, <2>3 DEF UpdateAbstract, UpdateImportance, InsertEdge, TypeOK, TickState
  <2>4. ASSUME NEW ok \in BOOLEAN, MarkConsolidated(u, ok) \/ GetEmbeddings(u, ok)
        PROVE  UNCHANGED TickState(t)
    BY <2>0, <2>4 DEF MarkConsolidated, GetEmbeddings, Goto, TypeOK, TickState, local
  <2>5. ASSUME NEW ok \in BOOLEAN, NEW i \in 1..BatchSize, Gather(u, i, ok)
        PROVE  UNCHANGED TickState(t)
    <3>1. PICK v : verdicts' = [verdicts EXCEPT ![u][i] = v]
      BY <2>5, GatherSound
    <3>2. UNCHANGED <<pc, queue, pending, abstracts, assessments, proposals, done,
                      embeddings, cursor>>
      BY <2>5 DEF Gather
    <3>. QED  BY <2>0, <3>1, <3>2 DEF TypeOK, TickState
  <2>6. ASSUME NEW ok \in BOOLEAN,
               Absorb(u, ok) \/ InvalidateAbsorbed(u, ok) \/ InvalidateLoser(u, ok)
        PROVE  UNCHANGED TickState(t)
    BY <2>0, <2>6 DEF Absorb, InvalidateAbsorbed, InvalidateLoser, Advance, Goto, TypeOK,
                      TickState
  <2>. QED  BY <1>2, <2>1, <2>2, <2>3, <2>4, <2>5, <2>6 DEF Step
<1>. QED  BY <1>1, <1>2

\* Each step of a tick leaves it fewer calls, and it begins with a bounded
\* number: for any batch and report, beside any number of ticks and clients.
THEOREM TickRunsOut == Spec => CallsRunOut
<1>. DEFINE AllMeasured == \A t \in Ticks : Measured(t)
            RunsOut == \A t \in Ticks :
                /\ pc[t] = "idle" =>
                      CallsLeft(t)' <= 4 * BatchSize + 2 * MaxAbstracts + MaxProposals + 4
                /\ pc[t] # "idle" =>
                      UNCHANGED TickState(t) \/ CallsLeft(t)' \in 0..(CallsLeft(t) - 1)
<1>1. Init => AllMeasured
  <2>. SUFFICES ASSUME Init, NEW t \in Ticks PROVE Measured(t)
    OBVIOUS
  <2>1. /\ pending[t] = <<>> /\ cursor[t] = 1
        /\ abstracts[t] = {} /\ assessments[t] = {} /\ proposals[t] = {}
    BY DEF Init
  <2>. QED  BY <2>1, FS_EmptySet DEF Measured
<1>2. IInv /\ AllMeasured /\ [Next]_vars => AllMeasured' /\ RunsOut
  <2>. SUFFICES ASSUME IInv, AllMeasured, [Next]_vars, NEW t \in Ticks
                PROVE  /\ Measured(t)'
                       /\ pc[t] = "idle" => CallsLeft(t)' <=
                              4 * BatchSize + 2 * MaxAbstracts + MaxProposals + 4
                       /\ pc[t] # "idle" =>
                             UNCHANGED TickState(t) \/ CallsLeft(t)' \in 0..(CallsLeft(t) - 1)
    OBVIOUS
  <2>1. Measured(t)
    OBVIOUS
  <2>2. CASE ListPending(t)
    BY <2>1, <2>2, ListPendingBudget DEF ListPending
  <2>3. CASE Step(t) \/ Abort(t)
    BY <2>1, <2>3, StepShrinks DEF Shrinks
  <2>4. ASSUME UNCHANGED TickState(t)
        PROVE  /\ Measured(t)'
               /\ pc[t] = "idle" => CallsLeft(t)' <=
                      4 * BatchSize + 2 * MaxAbstracts + MaxProposals + 4
    <3>1. Measured(t)'
      BY <2>1, <2>4 DEF TickState, Measured
    <3>2. pc[t] = "idle" => CallsLeft(t)' = 0
      BY <2>4 DEF TickState, CallsLeft
    <3>. QED  BY <3>1, <3>2, Bounds
  <2>5. CASE \/ Outside \/ UNCHANGED vars
             \/ \E u \in Ticks \ {t} : ListPending(u) \/ Step(u) \/ Abort(u)
    BY <2>4, <2>5, StateStays
  <2>. QED  BY <2>2, <2>3, <2>5 DEF Next
<1>3. RunsOut => [RunsOut]_vars
  OBVIOUS
<1>. QED  BY <1>1, <1>2, InitInv, NextInv, PTL DEF Spec, CallsRunOut
-----------------------------------------------------------------------------
(* The contract of the memories table.                                     *)

\* What a step did to one memory, from its presence and its two flags.
StageKept(id) ==
    /\ Present(id)' = Present(id)
    /\ (id \in issued') = (id \in issued)
    /\ Present(id) => /\ rows'[id].invalid = rows[id].invalid
                      /\ rows'[id].archived = rows[id].archived

LEMMA StageAt == \A id \in Ids :
    /\ Stage[id] = IF ~Present(id) THEN IF id \in issued THEN "deleted" ELSE "unborn"
                   ELSE IF rows[id].invalid THEN "invalid"
                   ELSE IF rows[id].archived THEN "archived" ELSE "live"
    /\ Stage'[id] = IF ~Present(id)' THEN IF id \in issued' THEN "deleted" ELSE "unborn"
                    ELSE IF rows'[id].invalid THEN "invalid"
                    ELSE IF rows'[id].archived THEN "archived" ELSE "live"
BY DEF Stage

LEMMA StageKeptAt == ASSUME NEW id \in Ids, StageKept(id) PROVE Stage'[id] = Stage[id]
BY StageAt DEF StageKept

LEMMA StageIsMap == Stage = [id \in Ids |-> Stage[id]] /\ Stage' = [id \in Ids |-> Stage'[id]]
BY DEF Stage

LEMMA AllKept == ASSUME \A id \in Ids : StageKept(id) PROVE Stage' = Stage
BY StageKeptAt, StageIsMap

\* One memory goes a step on its way, the others stay where they are.
LEMMA OneChanges ==
    ASSUME NEW x \in Ids, \A id \in Ids : id # x => StageKept(id),
           Stage'[x] \in Memories!After(Stage[x])
    PROVE  Memories!Change(x)
<1>1. \A id \in Ids : id # x => Stage'[id] = Stage[id]
  BY StageKeptAt
<1>2. Stage' = [Stage EXCEPT ![x] = Stage'[x]]
  BY <1>1, StageIsMap
<1>. QED  BY <1>2 DEF Memories!Change

LEMMA LevelField ==
    ASSUME IInv, NEW x \in Ids, NEW r, r.archived = rows[x].archived,
           rows' = [rows EXCEPT ![x] = r]
    PROVE  \A id \in Ids : rows'[id].archived = rows[id].archived
BY DEF IInv, TypeOK

\* No call of a consolidation tick touches a level or draws an id.
LEMMA TickLevels ==
    ASSUME IInv, NEW t \in Ticks, ListPending(t) \/ Step(t) \/ Abort(t)
    PROVE  /\ issued' = issued
           /\ \A id \in Ids : Present(id) => rows'[id].archived = rows[id].archived
<1>0. \A id \in Ids : Present(id) => rows[id] \in Row
  BY DEF IInv, TypeOK, Present
<1>. DEFINE Levelled == \A id \in Ids : Present(id) => rows'[id].archived = rows[id].archived
<1>1. CASE \/ ListPending(t) \/ ReadPending(t) \/ Consolidate(t) \/ Skip(t)
           \/ Return(t) \/ Abort(t)
  BY <1>1 DEF ListPending, ReadPending, Consolidate, Skip, Return, Abort, store
<1>2. ASSUME NEW ok \in BOOLEAN,
             GetEmbeddings(t, ok) \/ (\E i \in 1..BatchSize : Gather(t, i, ok))
             \/ (\E e \in proposals[t] : InsertEdge(t, e, ok))
      PROVE  issued' = issued /\ Levelled
  BY <1>2 DEF GetEmbeddings, Gather, InsertEdge, store
<1>3. ASSUME NEW ok \in BOOLEAN, NEW x \in Ids, UpdateAbstract(t, x, ok)
      PROVE  issued' = issued /\ Levelled
  <2>1. CASE ok /\ Present(x)
    <3>. DEFINE r == [rows[x] EXCEPT !.abstract = SnapshotOf(t, x)]
    <3>1. r.archived = rows[x].archived
      BY <1>0, <2>1 DEF Row
    <3>2. rows' = [rows EXCEPT ![x] = r] /\ issued' = issued
      BY <1>3, <2>1 DEF UpdateAbstract
    <3>. HIDE DEF r
    <3>. QED  BY <3>1, <3>2, LevelField
  <2>2. CASE ~(ok /\ Present(x))
    BY <1>3, <2>2 DEF UpdateAbstract
  <2>. QED  BY <2>1, <2>2
<1>4. ASSUME NEW ok \in BOOLEAN, NEW x \in Ids, UpdateImportance(t, x, ok)
      PROVE  issued' = issued /\ Levelled
  <2>1. CASE ok /\ x \in done[t] /\ Present(x)
    <3>. DEFINE r == [rows[x] EXCEPT !.assessed = TRUE]
    <3>1. r.archived = rows[x].archived
      BY <1>0, <2>1 DEF Row
    <3>2. rows' = [rows EXCEPT ![x] = r] /\ issued' = issued
      BY <1>4, <2>1 DEF UpdateImportance
    <3>. HIDE DEF r
    <3>. QED  BY <3>1, <3>2, LevelField
  <2>2. CASE ~(ok /\ x \in done[t] /\ Present(x))
    BY <1>4, <2>2 DEF UpdateImportance
  <2>. QED  BY <2>1, <2>2
<1>5. ASSUME NEW ok \in BOOLEAN, MarkConsolidated(t, ok)
      PROVE  issued' = issued /\ Levelled
  BY <1>0, <1>5 DEF MarkConsolidated, WithMarked, Row
<1>6. ASSUME NEW ok \in BOOLEAN, Absorb(t, ok)
      PROVE  issued' = issued /\ Levelled
  <2>1. CASE rows' = rows
    BY <1>6, <2>1 DEF Absorb
  <2>2. CASE rows' # rows
    <3>. DEFINE x == Current(t).target
                c == Adjudicated(t).content
                e == embeddings[t][Adjudicated(t).id]
                r == [rows[x] EXCEPT !.content = c, !.embedding = e, !.pending = TRUE]
    <3>1. /\ cursor[t] \in DOMAIN pending[t] /\ ~Idles(t) /\ Present(x)
          /\ rows' = WithContent(x, c, e) /\ issued' = issued
      BY <1>6, <2>2 DEF Absorb, Executing
    <3>2. x \in Ids
      BY <3>1, ExecutedVerdict
    <3>. HIDE DEF x, c, e
    <3>3. rows' = [rows EXCEPT ![x] = r]
      BY <3>1 DEF WithContent
    <3>4. r.archived = rows[x].archived
      BY <1>0, <3>1, <3>2 DEF Row
    <3>. HIDE DEF r
    <3>. QED  BY <3>1, <3>2, <3>3, <3>4, LevelField
  <2>. QED  BY <2>1, <2>2
<1>7. CASE Invalidating(t)
  <2>1. PICK x \in Ids, into \in Ids \cup {NoId} : rows' = rows \/ Invalidates(x, into)
    BY <1>7, InvalidatingEffect
  <2>2. CASE rows' = rows
    BY <1>7, <2>2, InvalidatingEffect
  <2>3. CASE Invalidates(x, into) /\ Present(x) /\ ~rows[x].invalid
    <3>. DEFINE r == [rows[x] EXCEPT !.invalid = TRUE, !.absorbed_into = into]
    <3>1. rows' = [rows EXCEPT ![x] = r]
      BY <2>3 DEF Invalidates, WithInvalid
    <3>2. r.archived = rows[x].archived
      BY <1>0, <2>3 DEF Row
    <3>. HIDE DEF r
    <3>. QED  BY <1>7, <3>1, <3>2, LevelField, InvalidatingEffect
  <2>4. CASE Invalidates(x, into) /\ ~(Present(x) /\ ~rows[x].invalid)
    BY <1>7, <2>4, InvalidatingEffect DEF Invalidates, WithInvalid
  <2>. QED  BY <2>1, <2>2, <2>3, <2>4
<1>8. ASSUME NEW ok \in BOOLEAN, InvalidateAbsorbed(t, ok) \/ InvalidateLoser(t, ok)
      PROVE  Invalidating(t)
  BY <1>8 DEF Invalidating
<1>. QED  BY <1>1, <1>2, <1>3, <1>4, <1>5, <1>6, <1>7, <1>8 DEF Step

LEMMA TickKeepsStages ==
    ASSUME IInv, RowsInv, NEW t \in Ticks, ListPending(t) \/ Step(t) \/ Abort(t)
    PROVE  Stage' = Stage \/ \E x \in Ids : Memories!Change(x)
<1>1. RowsInv' /\ (RowsInv' => Issued')
  BY StepRows, InvalidatingRows DEF RowsInv
<1>2. /\ issued' = issued /\ Lasting
      /\ \A id \in Ids : Present(id) => rows'[id].archived = rows[id].archived
  BY TickLevels, TickLasts
<1>3. ASSUME NEW id \in Ids, Kept(id) PROVE StageKept(id)
  <2>1. Present(id)' => Present(id)
    <3>. SUFFICES ASSUME Present(id)', ~Present(id) PROVE FALSE
      OBVIOUS
    <3>1. id \in issued'
      BY <1>1 DEF Issued
    <3>. QED  BY <1>2, <1>3, <3>1 DEF Kept
  <2>2. Present(id) => Present(id)'
    BY <1>2 DEF Lasting
  <2>3. Present(id)' = Present(id)
    BY <2>1, <2>2 DEF Present
  <2>4. Present(id) => /\ rows'[id].invalid = rows[id].invalid
                      /\ rows'[id].archived = rows[id].archived
    BY <1>2, <1>3, <2>2 DEF Kept
  <2>. QED  BY <1>2, <2>3, <2>4 DEF StageKept
<1>4. CASE \A id \in Ids : Kept(id)
  BY <1>3, <1>4, AllKept
<1>5. CASE Invalidating(t)
  <2>1. PICK x \in Ids, into \in Ids \cup {NoId} : rows' = rows \/ Invalidates(x, into)
    BY <1>5, InvalidatingEffect
  <2>2. CASE \A id \in Ids : Kept(id)
    BY <1>4, <2>2
  <2>3. CASE \E id \in Ids : ~Kept(id)
    <3>1. Invalidates(x, into) /\ Present(x) /\ ~rows[x].invalid
      BY <2>1, <2>3, UnchangedEffect, WithInvalidEffect DEF Invalidates, WithInvalid
    <3>2. \A id \in Ids : id # x => Kept(id)
      BY <3>1, WithInvalidEffect
    <3>3. Present(x)' /\ rows'[x].invalid
      <4>1. rows[x] \in Row
        BY <3>1 DEF IInv, TypeOK, Present
      <4>2. rows'[x] = [rows[x] EXCEPT !.invalid = TRUE, !.absorbed_into = into]
        BY <3>1 DEF Invalidates, WithInvalid, IInv, TypeOK
      <4>. QED  BY <1>2, <3>1, <4>1, <4>2 DEF Lasting, Row
    <3>4. Stage[x] \in {"live", "archived"} /\ Stage'[x] = "invalid"
      BY <3>1, <3>3, StageAt
    <3>5. Stage'[x] \in Memories!After(Stage[x])
      BY <3>4 DEF Memories!After
    <3>. QED  BY <1>3, <3>2, <3>5, OneChanges
  <2>. QED  BY <2>2, <2>3
<1>. QED  BY <1>4, <1>5, StepRows

LEMMA OutsideKeepsStages ==
    ASSUME IInv, RowsInv, Outside
    PROVE  \/ Stage' = Stage
           \/ \E x \in Ids : Memories!Change(x)
           \/ \E S \in SUBSET Ids : Memories!Remove(S)
<1>1. ASSUME NEW x \in Ids, Delete(x)
      PROVE  Memories!Remove({x})
  <2>1. issued' = issued /\ Present(x) /\ \A id \in Ids : rows'[id] = IF id = x THEN NoRow ELSE rows[id]
    BY <1>1 DEF Delete, IInv, TypeOK
  <2>2. \A id \in Ids : id # x => StageKept(id)
    BY <2>1 DEF StageKept, Present
  <2>3. x \in issued /\ ~Present(x)'
    BY <2>1 DEF RowsInv, Issued, Present
  <2>4. Stage[x] \in Memories!Stored /\ Stage'[x] = "deleted"
    BY <2>1, <2>3, StageAt DEF Memories!Stored
  <2>5. \A id \in Ids : Stage'[id] = IF id \in {x} THEN "deleted" ELSE Stage[id]
    BY <2>2, <2>4, StageKeptAt
  <2>. QED  BY <2>4, <2>5, StageIsMap DEF Memories!Remove
<1>2. ASSUME NEW x \in Ids, SetLevel(x)
      PROVE  Stage' = Stage \/ Memories!Change(x)
  <2>. DEFINE r == [rows[x] EXCEPT !.archived = ~@]
  <2>1. rows[x] \in Row /\ Present(x) /\ issued' = issued /\ rows' = [rows EXCEPT ![x] = r]
    BY <1>2 DEF SetLevel, Present, IInv, TypeOK
  <2>2. r \in Row /\ r.invalid = rows[x].invalid /\ r.archived = ~rows[x].archived
    BY <2>1 DEF Row
  <2>. HIDE DEF r
  <2>3. rows'[x] = r /\ \A id \in Ids : id # x => rows'[id] = rows[id]
    BY <2>1 DEF IInv, TypeOK
  <2>4. Present(x)'
    BY <2>2, <2>3, GovernanceAssumption DEF Present
  <2>5. \A id \in Ids : id # x => StageKept(id)
    BY <2>1, <2>3 DEF StageKept, Present
  <2>6. CASE rows[x].invalid
    <3>1. Stage[x] = "invalid" /\ Stage'[x] = "invalid"
      BY <2>1, <2>2, <2>3, <2>4, <2>6, StageAt
    <3>. QED  BY <2>5, <3>1, StageKeptAt, StageIsMap
  <2>7. CASE ~rows[x].invalid /\ rows[x].archived
    <3>1. Stage[x] = "archived" /\ Stage'[x] = "live"
      BY <2>1, <2>2, <2>3, <2>4, <2>7, StageAt
    <3>. QED  BY <2>5, <3>1, OneChanges DEF Memories!After
  <2>8. CASE ~rows[x].invalid /\ ~rows[x].archived
    <3>1. Stage[x] = "live" /\ Stage'[x] = "archived"
      BY <2>1, <2>2, <2>3, <2>4, <2>8, StageAt
    <3>. QED  BY <2>5, <3>1, OneChanges DEF Memories!After
  <2>. QED  BY <2>6, <2>7, <2>8
<1>3. ASSUME NEW x \in Ids, NEW c \in Contents, Insert(x, c)
      PROVE  Memories!Change(x)
  <2>1. /\ x \notin issued /\ issued' = issued \cup {x} /\ ~Present(x)
        /\ rows'[x] = FreshRow(c)
        /\ \A id \in Ids : id # x => rows'[id] = rows[id]
    BY <1>3, InsertEffect DEF RowsInv, Issued
  <2>2. Present(x)' /\ ~rows'[x].invalid /\ ~rows'[x].archived
    BY <2>1, FreshRowType, GovernanceAssumption DEF Present, FreshRow
  <2>3. \A id \in Ids : id # x => StageKept(id)
    BY <2>1 DEF StageKept, Present
  <2>4. Stage[x] = "unborn" /\ Stage'[x] = "live"
    BY <2>1, <2>2, StageAt
  <2>. QED  BY <2>3, <2>4, OneChanges DEF Memories!After
<1>4. ASSUME NEW x \in Ids, NEW c \in Contents, Put(x, c)
      PROVE  Stage' = Stage
  <2>. DEFINE r == [rows[x] EXCEPT !.content = c, !.embedding = c, !.pending = TRUE]
  <2>1. rows[x] \in Row /\ Present(x) /\ issued' = issued /\ rows' = [rows EXCEPT ![x] = r]
    BY <1>4 DEF Put, WithContent, Present, IInv, TypeOK
  <2>2. r \in Row /\ r.invalid = rows[x].invalid /\ r.archived = rows[x].archived
    BY <2>1 DEF Row
  <2>. HIDE DEF r
  <2>3. rows'[x] = r /\ \A id \in Ids : id # x => rows'[id] = rows[id]
    BY <2>1 DEF IInv, TypeOK
  <2>4. \A id \in Ids : StageKept(id)
    BY <2>1, <2>2, <2>3, GovernanceAssumption DEF StageKept, Present
  <2>. QED  BY <2>4, AllKept
<1>. QED  BY <1>1, <1>2, <1>3, <1>4 DEF Outside

\* Consolidation keeps the contract: whatever its ticks read long ago and however
\* they are interleaved with each other, with clients and with the levels that
\* forgetting writes, one memory at a time takes one step on its way.
THEOREM GovernanceKeepsLifecycle == Spec => KeepsLifecycle
<1>1. Stage \in [Ids -> Memories!Status]
  BY DEF Stage, Memories!Status
<1>2. Init => Memories!Init
  BY <1>1 DEF Memories!Init
<1>3. IInv /\ RowsInv /\ [Next]_vars => [Memories!Next]_Stage
  <2>. SUFFICES ASSUME IInv, RowsInv, [Next]_vars PROVE [Memories!Next]_Stage
    OBVIOUS
  <2>1. CASE UNCHANGED vars
    BY <2>1 DEF vars, store, Stage, Present
  <2>2. CASE Next
    BY <2>2, TickKeepsStages, OutsideKeepsStages DEF Next, Memories!Next
  <2>. QED  BY <2>1, <2>2
<1>. QED  BY <1>2, <1>3, AlwaysRowsInv, PTL DEF Spec, KeepsLifecycle, Memories!Spec
=============================================================================
