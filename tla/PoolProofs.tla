------------------------------ MODULE PoolProofs ------------------------------
(***************************************************************************)
(* Proofs about Pool: tags and rows stay together for every reader, and a  *)
(* walk over the pages of the listing is exact, for any number of callers, *)
(* connections and memories and any page size.                             *)
(***************************************************************************)
EXTENDS Pool, FiniteSetTheorems, SequenceTheorems, TLAPS

Aimed == {"insert", "delete", "invalidate", "get"}

\* The locals of a call; one about a memory names it.
CallRecord ==
    {c \in [op : Aimed \cup {"none", "expand", "list"}, id : Ids \cup {Nobody},
            stamp : 0..MaxTime, total : Nat, page : Seq(Ids), todo : SUBSET Ids,
            got : SUBSET [id : Ids, tagged : BOOLEAN]] :
        c.op \in Aimed => c.id \in Ids}

WalkRecord == [on : BOOLEAN, offset : Nat, start : SUBSET Ids, seen : Seq(Ids),
               done : BOOLEAN, gained : BOOLEAN, lost : BOOLEAN, split : BOOLEAN]

\* The locals of the calls and of the walk.
LocalTypes == call \in [Callers -> CallRecord] /\ walk \in WalkRecord

\* A call past its first wait holds a connection.
Connected ==
    \A p \in Callers :
        at[p] \in {"begin", "row", "page", "second", "tags"} => held[p] # <<>>

\* Rows and tags are committed and deleted together.
Together == tags = {id \in Ids : Present(id)}

\* The id an insert drew is nobody else's: no row has it, no other insert, no
\* read that is under way or answered.
Own ==
    \A p \in Callers : call[p].op = "insert" =>
        /\ call[p].id \in issued /\ ~Present(call[p].id)
        /\ \A q \in Callers :
            /\ q # p /\ call[q].op = "insert" => call[q].id # call[p].id
            /\ call[p].id \notin call[q].todo
            /\ \A h \in call[q].got : h.id # call[p].id

\* What has a row or is read was issued.
Known ==
    /\ \A id \in Ids : Present(id) => id \in issued
    /\ \A p \in Callers :
        /\ call[p].todo \subseteq issued
        /\ \A h \in call[p].got : h.id \in issued

Writers == \A p \in Callers : at[p] = "row" => call[p].op = "insert"

Safe == Together /\ Own /\ Known /\ Writers /\ TagsAreWhole

IInv == TypeOK /\ LocalTypes /\ Connected /\ Safe

-----------------------------------------------------------------------------
LEMMA IdleRecords == NoCall \in CallRecord /\ NoWalk \in WalkRecord
<1>1. <<>> \in Seq(Ids)
  OBVIOUS
<1>2. 0 \in 0..MaxTime
  BY PoolAssumption
<1>. QED  BY <1>1, <1>2, PoolAssumption DEF NoCall, NoWalk, CallRecord, WalkRecord, Aimed

-----------------------------------------------------------------------------
(* Types.                                                                  *)

Places == {"idle", "first", "begin", "row", "page", "second", "tags"}

\* What an action does to the variables other than the tables.
LocalsFine == LocalTypes /\ at \in [Callers -> Places]
                         /\ held \in [Callers -> Seq(Conns)] /\ Connected

TableFine ==
    /\ rows \in [Ids -> Row \cup {NoRow}]
    /\ tags \subseteq Ids /\ issued \subseteq Ids
    /\ now \in 0..MaxTime
    /\ writer \in Callers \cup {Nobody}
    /\ began \in 0..MaxCalls

LEMMA Parts == TypeOK /\ LocalTypes /\ Connected <=> LocalsFine /\ TableFine
BY DEF TypeOK, LocalsFine, TableFine, Places

LEMMA FinishFine ==
    ASSUME LocalsFine, NEW p \in Callers, NEW answer \in SUBSET [id : Ids, tagged : BOOLEAN],
           Finish(p, answer), walk' \in WalkRecord
    PROVE  LocalsFine'
<1>1. [NoCall EXCEPT !.got = answer] \in CallRecord
  BY IdleRecords DEF CallRecord
<1>2. <<>> \in Seq(Conns)
  OBVIOUS
<1>3. LocalTypes' /\ at' \in [Callers -> Places] /\ held' \in [Callers -> Seq(Conns)]
  BY <1>1, <1>2 DEF Finish, Goto, LocalsFine, LocalTypes, Places
<1>4. Connected'
  BY DEF Finish, Goto, LocalsFine, Connected
<1>. QED  BY <1>3, <1>4 DEF LocalsFine

\* A caller goes on with the connections it has, or with one more.
LEMMA MoveFine ==
    ASSUME LocalsFine, NEW p \in Callers, NEW label \in Places, NEW c \in CallRecord,
           Goto(p, label), call' = [call EXCEPT ![p] = c], walk' \in WalkRecord,
           held' = held \/ \E k \in Conns : held' = [held EXCEPT ![p] = Append(@, k)],
           label \in {"idle", "first"} \/ held'[p] # <<>>
    PROVE  LocalsFine'
<1>1. LocalTypes' /\ at' \in [Callers -> Places]
  BY DEF LocalsFine, LocalTypes, Goto
<1>2. held' \in [Callers -> Seq(Conns)]
  <2>1. \A k \in Conns : Append(held[p], k) \in Seq(Conns)
    BY DEF LocalsFine
  <2>. QED  BY <2>1 DEF LocalsFine
<1>3. Connected'
  BY DEF LocalsFine, Goto, Connected
<1>. QED  BY <1>1, <1>2, <1>3 DEF LocalsFine

LEMMA SameCall ==
    ASSUME LocalTypes, NEW p \in Callers, call' = call
    PROVE  call[p] \in CallRecord /\ call' = [call EXCEPT ![p] = call[p]]
BY DEF LocalTypes

LEMMA TakeFine ==
    ASSUME LocalsFine, NEW p \in Callers, TakeFirst(p) \/ TakeSecond(p)
    PROVE  LocalsFine'
<1>1. PICK k \in Conns : held' = [held EXCEPT ![p] = Append(@, k)]
  BY DEF TakeFirst, TakeSecond, Take, Free
<1>2. PICK label \in {"begin", "tags"} : Goto(p, label)
  BY DEF TakeFirst, TakeSecond
<1>3. UNCHANGED <<call, walk>>
  BY DEF TakeFirst, TakeSecond
<1>4. held'[p] # <<>>
  <2>1. Append(held[p], k) # <<>>
    BY DEF LocalsFine
  <2>. QED  BY <1>1, <2>1 DEF LocalsFine
<1>5. LocalTypes /\ walk' \in WalkRecord /\ label \in Places
  BY <1>3 DEF LocalsFine, LocalTypes, Places
<1>6. call[p] \in CallRecord /\ call' = [call EXCEPT ![p] = call[p]]
  BY <1>3, <1>5, SameCall
<1>. QED  BY <1>1, <1>2, <1>4, <1>5, <1>6, MoveFine

LEMMA StopFine ==
    ASSUME LocalsFine, TableFine, NEW p \in Callers, TimeOut(p) \/ Fail(p) \/ Busy(p)
    PROVE  LocalsFine' /\ TableFine'
<1>1. Finish(p, {}) /\ walk' = walk
  BY DEF TimeOut, Fail, Busy
<1>2. walk' \in WalkRecord
  BY <1>1 DEF LocalsFine, LocalTypes
<1>3. TableFine'
  BY DEF TimeOut, Fail, Busy, TableFine, db
<1>. QED  BY <1>1, <1>2, <1>3, FinishFine

LEMMA WalksFine ==
    ASSUME LocalTypes
    PROVE  Gained \in WalkRecord /\ Lost \in WalkRecord
<1>1. (walk.gained \/ walk.on) \in BOOLEAN /\ (walk.lost \/ walk.on) \in BOOLEAN
      /\ (walk.split \/ at[Browser] = "page") \in BOOLEAN
  OBVIOUS
<1>2. walk \in WalkRecord
  BY DEF LocalTypes
<1>. QED  BY <1>1, <1>2 DEF Gained, Lost, WalkRecord

LEMMA WriteFine ==
    ASSUME LocalsFine, TableFine, Writers, Own, NEW p \in Callers, Write(p)
    PROVE  LocalsFine' /\ TableFine'
<1>. LocalTypes /\ walk \in WalkRecord /\ {} \in SUBSET [id : Ids, tagged : BOOLEAN]
  BY DEF LocalsFine, LocalTypes
<1>0. call[p] \in CallRecord
  BY DEF LocalTypes
<1>1. CASE InsertRow(p)
  <2>1. call' = [call EXCEPT ![p] = call[p]]
    BY <1>1, SameCall DEF InsertRow
  <2>2. "row" \in Places /\ held' = held /\ held'[p] # <<>> /\ Goto(p, "row") /\ walk' = walk
    BY <1>1 DEF InsertRow, LocalsFine, Connected, Places
  <2>3. TableFine'
    BY <1>1 DEF InsertRow, TableFine, db
  <2>. QED  BY <1>0, <2>1, <2>2, <2>3, MoveFine
<1>2. CASE CommitRow(p)
  <2>1. call[p].id \in Ids
    BY <1>2 DEF CommitRow, Writers, Own, TableFine
  <2>2. NewRow(p) \in Row
    BY <1>0 DEF NewRow, Row, CallRecord
  <2>3. TableFine'
    BY <1>2, <2>1, <2>2 DEF CommitRow, TableFine
  <2>. QED  BY <1>2, <2>3, FinishFine, WalksFine DEF CommitRow
<1>3. CASE Delete(p)
  <2>1. rows' \in [Ids -> Row \cup {NoRow}]
    BY <1>3 DEF Delete, TableFine
  <2>2. TableFine'
    BY <1>3, <2>1 DEF Delete, TableFine
  <2>. QED  BY <1>3, <2>2, FinishFine, WalksFine DEF Delete
<1>4. CASE Invalidate(p)
  <2>1. rows' \in [Ids -> Row \cup {NoRow}]
    <3>1. CASE Live(call[p].id) /\ call[p].id \in Ids
      <4>1. rows[call[p].id] \in Row
        BY <3>1 DEF Live, Present, TableFine
      <4>2. [rows[call[p].id] EXCEPT !.live = FALSE] \in Row
        BY <4>1 DEF Row
      <4>. QED  BY <1>4, <3>1, <4>2 DEF Invalidate, TableFine
    <3>. QED  BY <1>4, <3>1 DEF Invalidate, TableFine
  <2>2. TableFine'
    BY <1>4, <2>1 DEF Invalidate, TableFine
  <2>. QED  BY <1>4, <2>2, FinishFine, WalksFine DEF Invalidate
<1>. QED  BY <1>1, <1>2, <1>3, <1>4 DEF Write

LEMMA LiveCount == Cardinality(LiveIds) \in Nat
<1>1. LiveIds \subseteq Ids
  BY DEF LiveIds
<1>2. IsFiniteSet(LiveIds)
  BY <1>1, PoolAssumption, FS_Subset
<1>. QED  BY <1>2, FS_CardinalityType

\* A page is a sequence of listed memories.
LEMMA Pages ==
    ASSUME walk \in WalkRecord, NEW s \in Orders
    PROVE  PageOf(s) \in Seq(LiveIds) /\ Range(PageOf(s)) \subseteq LiveIds
<1>. DEFINE n == Cardinality(LiveIds)
            low == walk.offset + 1
            top == Min({walk.offset + PageSize, Len(s)})
<1>1. n \in Nat
  BY LiveCount
<1>. HIDE DEF n
<1>2. s \in [1..n -> LiveIds]
  BY DEF Orders, SetToSeqs, n
<1>3. s \in Seq(LiveIds) /\ Len(s) = n
  BY <1>1, <1>2
<1>4. low \in Int /\ low >= 1 /\ walk.offset + PageSize \in Int
  BY PoolAssumption DEF WalkRecord
<1>5. \E x \in {walk.offset + PageSize, Len(s)} :
          \A y \in {walk.offset + PageSize, Len(s)} : x =< y
  BY <1>1, <1>3, <1>4
<1>6. top \in {walk.offset + PageSize, Len(s)} /\ top =< Len(s)
  BY <1>5 DEF Min
<1>7. top \in Int
  BY <1>1, <1>3, <1>4, <1>6
<1>. HIDE DEF low, top
<1>8. \A i \in low..top : s[i] \in LiveIds
  BY <1>1, <1>2, <1>3, <1>4, <1>6, <1>7
<1>9. SubSeq(s, low, top) \in Seq(LiveIds)
  BY <1>4, <1>7, <1>8, SubSeqProperties
<1>10. PageOf(s) \in Seq(LiveIds)
  BY <1>9 DEF PageOf, low, top
<1>11. Range(PageOf(s)) \subseteq LiveIds
  BY <1>10, LenProperties DEF Range
<1>. QED  BY <1>10, <1>11

LEMMA ShownFine ==
    ASSUME walk \in WalkRecord, NEW page \in Seq(Ids), NEW total \in Nat
    PROVE  Shown(page, total) \in WalkRecord
<1>1. walk.seen \o page \in Seq(Ids) /\ walk.offset + PageSize \in Nat
  BY PoolAssumption DEF WalkRecord
<1>2. (walk.offset + Len(page) < total) \in BOOLEAN
  OBVIOUS
<1>. QED  BY <1>1, <1>2 DEF Shown, WalkRecord

\* Reads change nothing but the reader.
Untouched == UNCHANGED <<db, issued, now, writer, began>>

LEMMA UntouchedFine ==
    ASSUME TableFine, Untouched
    PROVE  TableFine'
BY DEF TableFine, Untouched, db

LEMMA TaggingFine ==
    ASSUME LocalsFine, NEW p \in Callers, NEW found \in SUBSET Ids, at[p] = "begin",
           Tagging(p, found), walk' = walk
    PROVE  LocalsFine'
<1>. call[p] \in CallRecord /\ walk' \in WalkRecord
  BY DEF LocalsFine, LocalTypes
<1>1. CASE found = {}
  BY <1>1, FinishFine DEF Tagging
<1>2. CASE found # {}
  <2>1. [call[p] EXCEPT !.todo = found] \in CallRecord
    BY DEF CallRecord
  <2>2. call' = [call EXCEPT ![p] = [call[p] EXCEPT !.todo = found]]
    BY <1>2 DEF Tagging
  <2>3. "second" \in Places /\ Goto(p, "second") /\ held' = held /\ held'[p] # <<>>
    BY <1>2 DEF Tagging, Places, LocalsFine, Connected
  <2>. QED  BY <2>1, <2>2, <2>3, MoveFine
<1>. QED  BY <1>1, <1>2

LEMMA BatchesKnown ==
    ASSUME NEW p \in Callers, NEW batch \in Batches(p)
    PROVE  batch \subseteq call[p].todo
BY DEF Batches

\* What the tags statement reads for a batch.
TagsOf(batch) == {[id |-> id, tagged |-> id \in tags] : id \in batch}

LEMMA TagsTyped ==
    ASSUME NEW batch \in SUBSET Ids
    PROVE  TagsOf(batch) \in SUBSET [id : Ids, tagged : BOOLEAN]
<1>1. ASSUME NEW id \in batch
      PROVE  [id |-> id, tagged |-> id \in tags] \in [id : Ids, tagged : BOOLEAN]
  <2>1. id \in Ids /\ (id \in tags) \in BOOLEAN
    OBVIOUS
  <2>. QED  BY <2>1
<1>. QED  BY <1>1 DEF TagsOf

LEMMA ReadFine ==
    ASSUME LocalsFine, TableFine, NEW p \in Callers, Read(p)
    PROVE  LocalsFine' /\ TableFine'
<1>. call[p] \in CallRecord /\ walk \in WalkRecord
  BY DEF LocalsFine, LocalTypes
<1>0. Untouched
  BY DEF Read, ReadRow, ReadNeighborhood, CountRows, SelectPage, ReadTags, Untouched
<1>. SUFFICES LocalsFine'
  BY <1>0, UntouchedFine
<1>1. CASE ReadRow(p)
  <2>1. {id \in {call[p].id} : Present(id)} \in SUBSET Ids
    BY <1>1 DEF ReadRow, CallRecord, Aimed
  <2>. QED  BY <1>1, <2>1, TaggingFine DEF ReadRow
<1>2. CASE ReadNeighborhood(p)
  <2>1. PICK near \in SUBSET LiveIds : Tagging(p, near)
    BY <1>2 DEF ReadNeighborhood
  <2>2. near \in SUBSET Ids
    BY DEF LiveIds
  <2>. QED  BY <1>2, <2>1, <2>2, TaggingFine DEF ReadNeighborhood
<1>3. CASE CountRows(p)
  <2>1. [call[p] EXCEPT !.total = Cardinality(LiveIds)] \in CallRecord
    BY LiveCount DEF CallRecord
  <2>2. call' = [call EXCEPT ![p] = [call[p] EXCEPT !.total = Cardinality(LiveIds)]]
    BY <1>3 DEF CountRows
  <2>3. "page" \in Places /\ Goto(p, "page") /\ held' = held /\ held'[p] # <<>> /\ walk' = walk
    BY <1>3 DEF CountRows, Places, LocalsFine, Connected
  <2>. QED  BY <2>1, <2>2, <2>3, MoveFine
<1>4. CASE SelectPage(p)
  <2>1. PICK s \in Orders :
            IF PageOf(s) = <<>>
            THEN Finish(p, {}) /\ walk' = Shown(<<>>, call[p].total)
            ELSE /\ call' = [call EXCEPT ![p].page = PageOf(s),
                                         ![p].todo = Range(PageOf(s))]
                 /\ Goto(p, "second")
                 /\ UNCHANGED <<held, walk>>
    BY <1>4 DEF SelectPage
  <2>2. CASE PageOf(s) = <<>>
    <3>1. <<>> \in Seq(Ids) /\ call[p].total \in Nat
      BY DEF CallRecord
    <3>. QED  BY <2>1, <2>2, <3>1, ShownFine, FinishFine
  <2>3. CASE PageOf(s) # <<>>
    <3>. DEFINE c == [call[p] EXCEPT !.page = PageOf(s), !.todo = Range(PageOf(s))]
    <3>1. PageOf(s) \in Seq(Ids) /\ Range(PageOf(s)) \in SUBSET Ids
      <4>1. LiveIds \subseteq Ids
        BY DEF LiveIds
      <4>. QED  BY <4>1, Pages
    <3>2. c \in CallRecord
      BY <3>1 DEF CallRecord
    <3>3. call' = [call EXCEPT ![p] = c]
      BY <2>1, <2>3 DEF LocalsFine, LocalTypes
    <3>4. "second" \in Places /\ Goto(p, "second") /\ held' = held /\ held'[p] # <<>> /\ walk' = walk
      BY <1>4, <2>1, <2>3 DEF SelectPage, Places, LocalsFine, Connected
    <3>. HIDE DEF c
    <3>. QED  BY <3>2, <3>3, <3>4, MoveFine
  <2>. QED  BY <2>2, <2>3
<1>5. CASE ReadTags(p)
  <2>. DEFINE rest(batch) == call[p].todo \ batch
              got(batch) == call[p].got \cup TagsOf(batch)
  <2>1. PICK batch \in Batches(p) :
            IF rest(batch) = {}
            THEN /\ Finish(p, got(batch))
                 /\ walk' = IF call[p].op = "list"
                            THEN Shown(call[p].page, call[p].total) ELSE walk
            ELSE /\ Goto(p, "second")
                 /\ held' = [held EXCEPT ![p] = <<@[1]>>]
                 /\ call' = [call EXCEPT ![p].todo = rest(batch), ![p].got = got(batch)]
                 /\ UNCHANGED walk
    BY <1>5 DEF ReadTags, TagsOf
  <2>2. batch \in SUBSET Ids
    BY BatchesKnown DEF CallRecord
  <2>3. TagsOf(batch) \in SUBSET [id : Ids, tagged : BOOLEAN]
    BY <2>2, TagsTyped
  <2>4. got(batch) \in SUBSET [id : Ids, tagged : BOOLEAN] /\ rest(batch) \in SUBSET Ids
    BY <2>3 DEF CallRecord
  <2>. HIDE DEF rest, got
  <2>5. CASE rest(batch) = {}
    <3>1. walk' \in WalkRecord
      BY <2>1, <2>5, ShownFine DEF CallRecord
    <3>. QED  BY <2>1, <2>4, <2>5, <3>1, FinishFine
  <2>6. CASE rest(batch) # {}
    <3>. DEFINE c == [call[p] EXCEPT !.todo = rest(batch), !.got = got(batch)]
    <3>1. c \in CallRecord
      BY <2>4 DEF CallRecord
    <3>2. call' = [call EXCEPT ![p] = c]
      BY <2>1, <2>6 DEF LocalsFine, LocalTypes
    <3>3. held[p] \in Seq(Conns) /\ held[p] # <<>>
      BY <1>5 DEF ReadTags, LocalsFine, Connected
    <3>4. held[p][1] \in Conns
      BY <3>3
    <3>5. <<held[p][1]>> \in Seq(Conns) /\ <<held[p][1]>> # <<>>
      BY <3>4
    <3>6. held' = [held EXCEPT ![p] = <<held[p][1]>>]
      BY <2>1, <2>6
    <3>7. Goto(p, "second") /\ walk' = walk /\ "second" \in Places
      BY <2>1, <2>6 DEF Places
    <3>. HIDE DEF c
    <3>8. LocalTypes' /\ at' \in [Callers -> Places]
      BY <3>1, <3>2, <3>7 DEF LocalsFine, LocalTypes, Goto
    <3>9. held' \in [Callers -> Seq(Conns)]
      BY <3>5, <3>6 DEF LocalsFine
    <3>10. Connected'
      BY <3>5, <3>6, <3>7 DEF LocalsFine, Connected, Goto
    <3>. QED  BY <3>8, <3>9, <3>10 DEF LocalsFine
  <2>. QED  BY <2>5, <2>6
<1>. QED  BY <1>1, <1>2, <1>3, <1>4, <1>5 DEF Read

LEMMA BeginFine ==
    ASSUME LocalsFine, NEW p \in Callers, NEW c \in CallRecord,
           call' = [call EXCEPT ![p] = c], Goto(p, "first"), held' = held,
           walk' \in WalkRecord
    PROVE  LocalsFine'
BY MoveFine DEF Places

LEMMA CountFine ==
    ASSUME TableFine, began < MaxCalls, began' = began + 1
    PROVE  began' \in 0..MaxCalls
BY PoolAssumption DEF TableFine

LEMMA ReadsFine ==
    ASSUME LocalsFine, NEW p \in Callers, NEW op \in {"get", "expand", "list"},
           NEW id \in Ids \cup {Nobody}, op = "get" => id \in Ids,
           BeginRead(p, op, id), held' = held,
           walk' \in WalkRecord
    PROVE  LocalsFine'
<1>1. [NoCall EXCEPT !.op = op, !.id = id] \in CallRecord
  BY IdleRecords DEF CallRecord, Aimed
<1>. QED  BY <1>1, BeginFine DEF BeginRead

LEMMA CallFine ==
    ASSUME LocalsFine, TableFine, NEW p \in Callers \ {Browser}, Call(p)
    PROVE  LocalsFine' /\ TableFine'
<1>. walk \in WalkRecord
  BY DEF LocalsFine, LocalTypes
<1>d. Does[p] \subseteq {"insert", "delete", "invalidate", "get", "expand"}
  BY PoolAssumption
<1>1. ASSUME NEW id \in Ids, NEW stamp \in 0..MaxTime, Insert(p, id, stamp)
      PROVE  LocalsFine' /\ TableFine'
  <2>. DEFINE c == [NoCall EXCEPT !.op = "insert", !.id = id, !.stamp = stamp]
  <2>1. c \in CallRecord
    BY IdleRecords DEF CallRecord, Aimed
  <2>2. TableFine'
    BY <1>1, CountFine DEF Insert, TableFine, db
  <2>3. call' = [call EXCEPT ![p] = c] /\ Goto(p, "first") /\ held' = held /\ walk' = walk
    BY <1>1 DEF Insert
  <2>. HIDE DEF c
  <2>. QED  BY <2>1, <2>2, <2>3, BeginFine
<1>2. ASSUME NEW id \in Ids, NEW op \in {"delete", "invalidate"}, Discard(p, op, id)
      PROVE  LocalsFine' /\ TableFine'
  <2>. DEFINE c == [NoCall EXCEPT !.op = op, !.id = id]
  <2>1. c \in CallRecord
    BY IdleRecords DEF CallRecord, Aimed
  <2>2. TableFine'
    BY <1>2, CountFine DEF Discard, TableFine, db
  <2>3. call' = [call EXCEPT ![p] = c] /\ Goto(p, "first") /\ held' = held /\ walk' = walk
    BY <1>2 DEF Discard
  <2>. HIDE DEF c
  <2>. QED  BY <2>1, <2>2, <2>3, BeginFine
<1>3. ASSUME NEW id \in issued, Get(p, id)
      PROVE  LocalsFine' /\ TableFine'
  <2>1. id \in Ids
    BY DEF TableFine
  <2>2. TableFine'
    BY <1>3, CountFine DEF Get, BeginRead, TableFine, db
  <2>. QED  BY <1>3, <2>1, <2>2, ReadsFine DEF Get
<1>4. CASE Expand(p)
  <2>1. TableFine'
    BY <1>4, CountFine DEF Expand, BeginRead, TableFine, db
  <2>. QED  BY <1>4, <2>1, ReadsFine DEF Expand
<1>. QED  BY <1>1, <1>2, <1>3, <1>4 DEF Call

LEMMA OpenFine ==
    ASSUME LocalsFine, TableFine, OpenList
    PROVE  LocalsFine' /\ TableFine'
<1>1. Browser \in Callers
  BY PoolAssumption
<1>2. walk' \in WalkRecord
  <2>1. [NoWalk EXCEPT !.on = TRUE, !.start = LiveIds] \in WalkRecord
    BY IdleRecords DEF WalkRecord, LiveIds
  <2>. QED  BY <2>1 DEF OpenList, LocalsFine, LocalTypes
<1>3. TableFine'
  BY CountFine DEF OpenList, BeginRead, TableFine, db
<1>. QED  BY <1>1, <1>2, <1>3, ReadsFine DEF OpenList

-----------------------------------------------------------------------------
(* Rows and tags.                                                          *)

\* No memory comes, no insert begins, and what is read of a memory is what its
\* row and tags say together.
Frame ==
    /\ issued' = issued
    /\ \A id \in Ids : Present(id)' => Present(id)
    /\ tags' = {id \in Ids : Present(id)'}
    /\ \A p \in Callers :
        /\ call'[p].op = "insert" => call[p].op = "insert" /\ call'[p].id = call[p].id
        /\ \A id \in call'[p].todo : id \in call[p].todo \/ (id \in Ids /\ Present(id))
        /\ \A h \in call'[p].got :
            \/ h \in call[p].got
            \/ h.id \in call[p].todo /\ (h.tagged \/ ~Present(h.id))

LEMMA Framed ==
    ASSUME TableFine, LocalTypes, Safe, Frame, Writers'
    PROVE  Safe'
<1>1. Together'
  BY DEF Together, Frame
<1>2. Own'
  <2>. SUFFICES ASSUME NEW p \in Callers, call'[p].op = "insert"
                PROVE  /\ call'[p].id \in issued' /\ rows'[call'[p].id] = NoRow
                       /\ \A q \in Callers :
                           /\ q # p /\ call'[q].op = "insert" => call'[q].id # call'[p].id
                           /\ call'[p].id \notin call'[q].todo
                           /\ \A h \in call'[q].got : h.id # call'[p].id
    BY DEF Own, Present
  <2>. DEFINE id == call[p].id
  <2>1. call[p].op = "insert" /\ call'[p].id = id
    BY DEF Frame
  <2>2. id \in issued /\ id \in Ids /\ ~Present(id)
    BY <2>1 DEF Safe, Own, TableFine
  <2>3. \A q \in Callers :
            /\ q # p /\ call[q].op = "insert" => call[q].id # id
            /\ id \notin call[q].todo
            /\ \A h \in call[q].got : h.id # id
    BY <2>1 DEF Safe, Own
  <2>. HIDE DEF id
  <2>4. id \in issued' /\ rows'[id] = NoRow
    BY <2>2 DEF Frame, Present
  <2>5. ASSUME NEW q \in Callers
        PROVE  /\ q # p /\ call'[q].op = "insert" => call'[q].id # id
               /\ id \notin call'[q].todo
               /\ \A h \in call'[q].got : h.id # id
    BY <2>2, <2>3 DEF Frame
  <2>. QED  BY <2>1, <2>4, <2>5
<1>3. Known'
  <2>1. \A id \in Ids : Present(id)' => id \in issued'
    BY DEF Frame, Safe, Known
  <2>2. ASSUME NEW p \in Callers
        PROVE  call'[p].todo \subseteq issued' /\ \A h \in call'[p].got : h.id \in issued'
    BY DEF Frame, Safe, Known
  <2>. QED  BY <2>1, <2>2 DEF Known
<1>4. TagsAreWhole'
  <2>. SUFFICES ASSUME NEW p \in Callers, NEW h \in call'[p].got, ~h.tagged
                PROVE  ~Present(h.id)'
    BY DEF TagsAreWhole
  <2>1. ~Present(h.id)
    BY DEF Frame, Safe, TagsAreWhole
  <2>2. h.id \in Ids
    BY DEF Frame, Safe, Known, TableFine
  <2>. QED  BY <2>1, <2>2 DEF Frame
<1>. QED  BY <1>1, <1>2, <1>3, <1>4 DEF Safe

\* The caller's locals change and its id does not become an insert's.
LEMMA MoveFramed ==
    ASSUME TableFine, LocalTypes, Safe, NEW p \in Callers, NEW c \in CallRecord,
           call' = [call EXCEPT ![p] = c], NEW label, Goto(p, label), at \in [Callers -> Places],
           issued' = issued,
           \A id \in Ids : Present(id)' => Present(id),
           tags' = {id \in Ids : Present(id)'},
           c.op = "insert" => call[p].op = "insert" /\ c.id = call[p].id,
           \A id \in c.todo : id \in call[p].todo \/ (id \in Ids /\ Present(id)),
           \A h \in c.got :
               \/ h \in call[p].got
               \/ h.id \in call[p].todo /\ (h.tagged \/ ~Present(h.id)),
           label = "row" => c.op = "insert"
    PROVE  Safe'
<1>1. call'[p] = c /\ \A q \in Callers \ {p} : call'[q] = call[q]
  BY DEF LocalTypes
<1>2. ASSUME NEW q \in Callers
      PROVE  /\ call'[q].op = "insert" => call[q].op = "insert" /\ call'[q].id = call[q].id
             /\ \A id \in call'[q].todo : id \in call[q].todo \/ (id \in Ids /\ Present(id))
             /\ \A h \in call'[q].got :
                 \/ h \in call[q].got
                 \/ h.id \in call[q].todo /\ (h.tagged \/ ~Present(h.id))
  <2>1. CASE q = p
    BY <1>1, <2>1
  <2>2. CASE q # p
    BY <1>1, <2>2
  <2>. QED  BY <2>1, <2>2
<1>4. Frame
  BY <1>2 DEF Frame
<1>3. Writers'
  BY <1>1 DEF Writers, Safe, Goto
<1>. QED  BY <1>3, <1>4, Framed

LEMMA SameTags ==
    ASSUME Safe, UNCHANGED db
    PROVE  /\ \A id \in Ids : Present(id)' => Present(id)
           /\ tags' = {id \in Ids : Present(id)'}
BY DEF Safe, Together, db, Present

LEMMA FinishFramed ==
    ASSUME TableFine, LocalsFine, Safe, NEW p \in Callers,
           NEW answer \in SUBSET [id : Ids, tagged : BOOLEAN], Finish(p, answer),
           issued' = issued,
           \A id \in Ids : Present(id)' => Present(id),
           tags' = {id \in Ids : Present(id)'},
           \A h \in answer :
               \/ h \in call[p].got
               \/ h.id \in call[p].todo /\ (h.tagged \/ ~Present(h.id))
    PROVE  Safe'
<1>. DEFINE c == [NoCall EXCEPT !.got = answer]
<1>1. c \in CallRecord
  BY IdleRecords DEF CallRecord
<1>2. c.op = "none" /\ c.todo = {} /\ c.got = answer
  BY DEF NoCall
<1>3. call' = [call EXCEPT ![p] = c] /\ Goto(p, "idle") /\ LocalTypes /\ at \in [Callers -> Places]
  BY DEF Finish, LocalsFine
<1>. HIDE DEF c
<1>. QED  BY <1>1, <1>2, <1>3, MoveFramed

LEMMA StillFramed ==
    ASSUME TableFine, LocalsFine, Safe, UNCHANGED <<rows, tags, issued, call>>, Writers'
    PROVE  Safe'
<1>1. /\ \A id \in Ids : Present(id)' => Present(id)
      /\ tags' = {id \in Ids : Present(id)'}
  BY SameTags DEF db
<1>2. Frame
  BY <1>1 DEF Frame
<1>. QED  BY <1>2, Framed DEF LocalsFine

LEMMA TakeSafe ==
    ASSUME TableFine, LocalsFine, Safe, NEW p \in Callers, TakeFirst(p) \/ TakeSecond(p)
    PROVE  Safe'
<1>1. UNCHANGED <<rows, tags, issued, call>>
  BY DEF TakeFirst, TakeSecond, db
<1>2. Writers'
  BY <1>1 DEF TakeFirst, TakeSecond, Writers, Safe, Goto, LocalsFine
<1>. QED  BY <1>1, <1>2, StillFramed

LEMMA StopSafe ==
    ASSUME TableFine, LocalsFine, Safe, NEW p \in Callers, TimeOut(p) \/ Fail(p) \/ Busy(p)
    PROVE  Safe'
<1>1. Finish(p, {}) /\ UNCHANGED <<db, issued>>
  BY DEF TimeOut, Fail, Busy
<1>. QED  BY <1>1, FinishFramed, SameTags

LEMMA WriteSafe ==
    ASSUME TableFine, LocalsFine, Safe, NEW p \in Callers, Write(p)
    PROVE  Safe'
<1>. /\ LocalTypes /\ at \in [Callers -> Places] /\ call[p] \in CallRecord
     /\ tags = {id \in Ids : Present(id)}
  BY DEF LocalsFine, LocalTypes, Safe, Together
<1>1. CASE InsertRow(p)
  <2>1. UNCHANGED <<rows, tags, issued, call>>
    BY <1>1 DEF InsertRow, db
  <2>2. Writers'
    BY <1>1, <2>1 DEF InsertRow, Writers, Safe, Goto
  <2>. QED  BY <2>1, <2>2, StillFramed
<1>2. CASE CommitRow(p)
  <2>. DEFINE id == call[p].id
  <2>1. /\ call[p].op = "insert" /\ id \in issued /\ id \in Ids
        /\ \A q \in Callers :
            /\ q # p /\ call[q].op = "insert" => call[q].id # id
            /\ id \notin call[q].todo
            /\ \A h \in call[q].got : h.id # id
    BY <1>2 DEF CommitRow, Safe, Writers, Own, TableFine
  <2>2. NewRow(p) # NoRow
    <3>1. NewRow(p) \in Row
      BY DEF NewRow, Row, CallRecord
    <3>. QED  BY <3>1, PoolAssumption DEF Row
  <2>3. /\ rows' = [rows EXCEPT ![id] = NewRow(p)] /\ tags' = tags \cup {id}
        /\ issued' = issued /\ Finish(p, {})
    BY <1>2 DEF CommitRow
  <2>. HIDE DEF id
  <2>4. \A i \in Ids : Present(i)' <=> Present(i) \/ i = id
    BY <2>1, <2>2, <2>3 DEF Present, TableFine
  <2>5. call'[p].op = "none" /\ call'[p].todo = {} /\ call'[p].got = {}
        /\ \A q \in Callers \ {p} : call'[q] = call[q]
    BY <2>3 DEF Finish, NoCall, LocalTypes
  <2>6. Together'
    BY <2>1, <2>3, <2>4 DEF Together
  <2>7. Writers'
    BY <2>3, <2>5 DEF Writers, Safe, Finish, Goto
  <2>8. Own'
    <3>1. ASSUME NEW q \in Callers, call'[q].op = "insert"
          PROVE  q # p /\ call[q].op = "insert" /\ call'[q].id = call[q].id
                 /\ call[q].id \in Ids /\ call[q].id # id
      BY <2>1, <2>5, <3>1 DEF Safe, Own, TableFine
    <3>2. ASSUME NEW q \in Callers, call'[q].op = "insert"
          PROVE  call'[q].id \in issued' /\ rows'[call'[q].id] = NoRow
      <4>1. call[q].id \in issued /\ ~Present(call[q].id)
        BY <3>1, <3>2 DEF Safe, Own
      <4>2. rows'[call[q].id] = NoRow
        BY <2>4, <3>1, <3>2, <4>1 DEF Present
      <4>. QED  BY <2>3, <3>1, <3>2, <4>1, <4>2
    <3>3. ASSUME NEW q \in Callers, call'[q].op = "insert", NEW r \in Callers
          PROVE  /\ r # q /\ call'[r].op = "insert" => call'[r].id # call'[q].id
                 /\ call'[q].id \notin call'[r].todo
                 /\ \A h \in call'[r].got : h.id # call'[q].id
      BY <2>5, <3>1, <3>3 DEF Safe, Own
    <3>. QED  BY <3>2, <3>3 DEF Own, Present
  <2>9. Known'
    BY <2>1, <2>3, <2>4, <2>5 DEF Safe, Known
  <2>10. TagsAreWhole'
    <3>. SUFFICES ASSUME NEW q \in Callers, NEW h \in call'[q].got, ~h.tagged
                  PROVE  ~Present(h.id)'
      BY DEF TagsAreWhole
    <3>1. h \in call[q].got
      BY <2>5
    <3>2. ~Present(h.id) /\ h.id # id /\ h.id \in Ids
      BY <2>1, <3>1 DEF Safe, TagsAreWhole, Known, TableFine
    <3>. QED  BY <2>4, <3>2
  <2>. QED  BY <2>6, <2>7, <2>8, <2>9, <2>10 DEF Safe
<1>3. CASE Delete(p)
  <2>1. /\ rows' = [rows EXCEPT ![call[p].id] = NoRow] /\ tags' = tags \ {call[p].id}
        /\ Finish(p, {}) /\ issued' = issued
    BY <1>3 DEF Delete, Enforces
  <2>2. \A id \in Ids : Present(id)' <=> Present(id) /\ id # call[p].id
    BY <2>1 DEF Present, TableFine
  <2>3. tags' = {id \in Ids : Present(id)'}
    BY <2>1, <2>2
  <2>. QED  BY <2>1, <2>2, <2>3, FinishFramed
<1>4. CASE Invalidate(p)
  <2>1. Finish(p, {}) /\ issued' = issued /\ tags' = tags
    BY <1>4 DEF Invalidate
  <2>2. \A id \in Ids : Present(id)' <=> Present(id)
    <3>1. CASE Live(call[p].id) /\ call[p].id \in Ids
      <4>1. rows[call[p].id] \in Row
        BY <3>1 DEF Live, Present, TableFine
      <4>2. [rows[call[p].id] EXCEPT !.live = FALSE] # NoRow
        BY <4>1, PoolAssumption DEF Row
      <4>. QED  BY <1>4, <3>1, <4>2 DEF Invalidate, TableFine, Present, Live
    <3>. QED  BY <1>4, <3>1 DEF Invalidate, TableFine, Present
  <2>3. tags' = {id \in Ids : Present(id)'}
    BY <2>1, <2>2
  <2>. QED  BY <2>1, <2>2, <2>3, FinishFramed
<1>. QED  BY <1>1, <1>2, <1>3, <1>4 DEF Write

\* Memories that are there are what the reader goes on with.
LEMMA TaggingSafe ==
    ASSUME TableFine, LocalsFine, Safe, NEW p \in Callers, NEW found \in SUBSET Ids,
           \A id \in found : Present(id),
           Tagging(p, found), UNCHANGED <<db, issued>>
    PROVE  Safe'
<1>1. CASE found = {}
  BY <1>1, FinishFramed, SameTags DEF Tagging
<1>2. CASE found # {}
  <2>. DEFINE c == [call[p] EXCEPT !.todo = found]
  <2>0. call[p] \in CallRecord /\ LocalTypes /\ at \in [Callers -> Places]
    BY DEF LocalsFine, LocalTypes
  <2>1. /\ c \in CallRecord /\ c.op = call[p].op /\ c.id = call[p].id
        /\ c.todo = found /\ c.got = call[p].got
    BY <2>0 DEF CallRecord
  <2>2. call' = [call EXCEPT ![p] = c] /\ Goto(p, "second")
    BY <1>2 DEF Tagging
  <2>. HIDE DEF c
  <2>. QED  BY <2>0, <2>1, <2>2, MoveFramed, SameTags
<1>. QED  BY <1>1, <1>2

LEMMA ReadSafe ==
    ASSUME TableFine, LocalsFine, Safe, NEW p \in Callers, Read(p)
    PROVE  Safe'
<1>. /\ LocalTypes /\ at \in [Callers -> Places] /\ call[p] \in CallRecord
     /\ walk \in WalkRecord
  BY DEF LocalsFine, LocalTypes
<1>0. UNCHANGED <<db, issued>>
  BY DEF Read, ReadRow, ReadNeighborhood, CountRows, SelectPage, ReadTags
<1>1. CASE ReadRow(p)
  <2>1. {id \in {call[p].id} : Present(id)} \in SUBSET Ids
    BY <1>1 DEF ReadRow, CallRecord, Aimed
  <2>. QED  BY <1>0, <1>1, <2>1, TaggingSafe DEF ReadRow
<1>2. CASE ReadNeighborhood(p)
  <2>1. PICK near \in SUBSET LiveIds : Tagging(p, near)
    BY <1>2 DEF ReadNeighborhood
  <2>2. near \in SUBSET Ids /\ \A id \in near : Present(id)
    BY DEF LiveIds, Live
  <2>. QED  BY <1>0, <2>1, <2>2, TaggingSafe
<1>3. CASE CountRows(p)
  <2>. DEFINE c == [call[p] EXCEPT !.total = Cardinality(LiveIds)]
  <2>1. /\ c \in CallRecord /\ c.op = call[p].op /\ c.id = call[p].id
        /\ c.todo = call[p].todo /\ c.got = call[p].got
    BY LiveCount DEF CallRecord
  <2>2. call' = [call EXCEPT ![p] = c] /\ Goto(p, "page")
    BY <1>3 DEF CountRows
  <2>. HIDE DEF c
  <2>. QED  BY <1>0, <2>1, <2>2, MoveFramed, SameTags
<1>4. CASE SelectPage(p)
  <2>1. PICK s \in Orders :
            IF PageOf(s) = <<>>
            THEN Finish(p, {}) /\ walk' = Shown(<<>>, call[p].total)
            ELSE /\ call' = [call EXCEPT ![p].page = PageOf(s),
                                         ![p].todo = Range(PageOf(s))]
                 /\ Goto(p, "second")
                 /\ UNCHANGED <<held, walk>>
    BY <1>4 DEF SelectPage
  <2>2. CASE PageOf(s) = <<>>
    BY <1>0, <2>1, <2>2, FinishFramed, SameTags
  <2>3. CASE PageOf(s) # <<>>
    <3>. DEFINE c == [call[p] EXCEPT !.page = PageOf(s), !.todo = Range(PageOf(s))]
    <3>1. PageOf(s) \in Seq(Ids) /\ Range(PageOf(s)) \in SUBSET Ids
          /\ \A id \in Range(PageOf(s)) : Present(id)
      <4>1. LiveIds \subseteq Ids /\ \A id \in LiveIds : Present(id)
        BY DEF LiveIds, Live
      <4>. QED  BY <4>1, Pages
    <3>2. /\ c \in CallRecord /\ c.op = call[p].op /\ c.id = call[p].id
          /\ c.todo = Range(PageOf(s)) /\ c.got = call[p].got
      BY <3>1 DEF CallRecord
    <3>3. call' = [call EXCEPT ![p] = c] /\ Goto(p, "second")
      BY <2>1, <2>3 DEF LocalTypes
    <3>. HIDE DEF c
    <3>. QED  BY <1>0, <3>1, <3>2, <3>3, MoveFramed, SameTags
  <2>. QED  BY <2>2, <2>3
<1>5. CASE ReadTags(p)
  <2>. DEFINE rest(batch) == call[p].todo \ batch
              got(batch) == call[p].got \cup TagsOf(batch)
  <2>1. PICK batch \in Batches(p) :
            IF rest(batch) = {}
            THEN /\ Finish(p, got(batch))
                 /\ walk' = IF call[p].op = "list"
                            THEN Shown(call[p].page, call[p].total) ELSE walk
            ELSE /\ Goto(p, "second")
                 /\ held' = [held EXCEPT ![p] = <<@[1]>>]
                 /\ call' = [call EXCEPT ![p].todo = rest(batch), ![p].got = got(batch)]
                 /\ UNCHANGED walk
    BY <1>5 DEF ReadTags, TagsOf
  <2>2. batch \subseteq call[p].todo /\ batch \subseteq Ids
    BY BatchesKnown DEF CallRecord
  <2>3. TagsOf(batch) \in SUBSET [id : Ids, tagged : BOOLEAN]
    BY <2>2, TagsTyped
  <2>4. \A h \in TagsOf(batch) : h.id \in call[p].todo /\ (h.tagged \/ ~Present(h.id))
    <3>. SUFFICES ASSUME NEW id \in batch
                  PROVE  /\ [id |-> id, tagged |-> id \in tags].id \in call[p].todo
                         /\ \/ [id |-> id, tagged |-> id \in tags].tagged
                            \/ ~Present([id |-> id, tagged |-> id \in tags].id)
      BY DEF TagsOf
    <3>1. id \in call[p].todo /\ (id \in tags \/ ~Present(id))
      BY <2>2 DEF Safe, Together
    <3>2. [id |-> id, tagged |-> id \in tags].id = id
      OBVIOUS
    <3>3. [id |-> id, tagged |-> id \in tags].tagged <=> id \in tags
      OBVIOUS
    <3>. QED  BY <3>1, <3>2, <3>3
  <2>5. got(batch) \in SUBSET [id : Ids, tagged : BOOLEAN] /\ rest(batch) \in SUBSET Ids
    BY <2>3 DEF CallRecord
  <2>6. \A h \in got(batch) : \/ h \in call[p].got
                              \/ h.id \in call[p].todo /\ (h.tagged \/ ~Present(h.id))
    BY <2>4
  <2>7. \A id \in rest(batch) : id \in call[p].todo
    OBVIOUS
  <2>. HIDE DEF rest, got
  <2>8. CASE rest(batch) = {}
    BY <1>0, <2>1, <2>5, <2>6, <2>8, FinishFramed, SameTags
  <2>9. CASE rest(batch) # {}
    <3>. DEFINE c == [call[p] EXCEPT !.todo = rest(batch), !.got = got(batch)]
    <3>1. /\ c \in CallRecord /\ c.op = call[p].op /\ c.id = call[p].id
          /\ c.todo = rest(batch) /\ c.got = got(batch)
      BY <2>5 DEF CallRecord
    <3>2. call' = [call EXCEPT ![p] = c] /\ Goto(p, "second")
      BY <2>1, <2>9 DEF LocalTypes
    <3>. HIDE DEF c
    <3>. QED  BY <1>0, <2>6, <2>7, <3>1, <3>2, MoveFramed, SameTags
  <2>. QED  BY <2>8, <2>9
<1>. QED  BY <1>1, <1>2, <1>3, <1>4, <1>5 DEF Read

\* A call begins that inserts nothing.
LEMMA BeginSafe ==
    ASSUME TableFine, LocalsFine, Safe, NEW p \in Callers, NEW op \in Aimed \cup {"expand", "list"},
           op # "insert", NEW id \in Ids \cup {Nobody}, op \in Aimed => id \in Ids,
           call' = [call EXCEPT ![p] = [NoCall EXCEPT !.op = op, !.id = id]],
           Goto(p, "first"), UNCHANGED <<db, issued>>
    PROVE  Safe'
<1>. DEFINE c == [NoCall EXCEPT !.op = op, !.id = id]
<1>1. c \in CallRecord /\ c.op = op /\ c.todo = {} /\ c.got = {}
  BY IdleRecords DEF CallRecord, NoCall
<1>2. LocalTypes /\ at \in [Callers -> Places] /\ call' = [call EXCEPT ![p] = c]
  BY DEF LocalsFine
<1>. HIDE DEF c
<1>. QED  BY <1>1, <1>2, MoveFramed, SameTags

LEMMA InsertSafe ==
    ASSUME TableFine, LocalsFine, Safe, NEW p \in Callers, NEW id \in Ids,
           NEW stamp \in 0..MaxTime, Insert(p, id, stamp)
    PROVE  Safe'
<1>1. /\ id \notin issued /\ issued' = issued \cup {id} /\ rows' = rows /\ tags' = tags
      /\ Goto(p, "first") /\ LocalTypes /\ at \in [Callers -> Places]
  BY DEF Insert, db, LocalsFine
<1>2. /\ call'[p].op = "insert" /\ call'[p].id = id /\ call'[p].todo = {} /\ call'[p].got = {}
      /\ \A q \in Callers \ {p} : call'[q] = call[q]
  BY DEF Insert, NoCall, LocalsFine, LocalTypes
<1>3. Together'
  BY <1>1 DEF Safe, Together, Present
<1>4. Writers'
  BY <1>1, <1>2 DEF Safe, Writers, Goto
<1>5. Known'
  <2>1. \A i \in Ids : Present(i)' => i \in issued'
    BY <1>1 DEF Safe, Known, Present
  <2>2. \A q \in Callers : call'[q].todo \subseteq issued' /\ \A h \in call'[q].got : h.id \in issued'
    BY <1>1, <1>2 DEF Safe, Known
  <2>. QED  BY <2>1, <2>2 DEF Known
<1>6. TagsAreWhole'
  BY <1>1, <1>2 DEF Safe, TagsAreWhole, Present
<1>7. Own'
  <2>1. rows[id] = NoRow
    BY <1>1 DEF Safe, Known, Present
  <2>2. \A q \in Callers :
            /\ call[q].op = "insert" => call[q].id # id
            /\ id \notin call[q].todo
            /\ \A h \in call[q].got : h.id # id
    BY <1>1 DEF Safe, Own, Known
  <2>3. ASSUME NEW q \in Callers, call'[q].op = "insert"
        PROVE  call'[q].id \in issued' /\ rows'[call'[q].id] = NoRow
    <3>1. CASE q = p
      BY <1>1, <1>2, <2>1, <3>1
    <3>2. CASE q # p
      BY <1>1, <1>2, <2>3, <3>2 DEF Safe, Own, Present
    <3>. QED  BY <3>1, <3>2
  <2>4. ASSUME NEW q \in Callers, call'[q].op = "insert", NEW r \in Callers
        PROVE  /\ r # q /\ call'[r].op = "insert" => call'[r].id # call'[q].id
               /\ call'[q].id \notin call'[r].todo
               /\ \A h \in call'[r].got : h.id # call'[q].id
    <3>1. CASE q = p
      BY <1>2, <2>2, <3>1
    <3>2. CASE q # p
      <4>1. CASE r = p
        BY <1>2, <2>2, <2>4, <3>2, <4>1
      <4>2. CASE r # p
        BY <1>2, <2>4, <3>2, <4>2 DEF Safe, Own
      <4>. QED  BY <4>1, <4>2
    <3>. QED  BY <3>1, <3>2
  <2>. QED  BY <2>3, <2>4 DEF Own, Present
<1>. QED  BY <1>3, <1>4, <1>5, <1>6, <1>7 DEF Safe

LEMMA CallSafe ==
    ASSUME TableFine, LocalsFine, Safe, NEW p \in Callers, Call(p)
    PROVE  Safe'
<1>1. ASSUME NEW id \in Ids, NEW stamp \in 0..MaxTime, Insert(p, id, stamp) PROVE Safe'
  BY <1>1, InsertSafe
<1>2. ASSUME NEW id \in Ids, NEW op \in {"delete", "invalidate"}, Discard(p, op, id)
      PROVE  Safe'
  BY <1>2, BeginSafe DEF Discard, Aimed
<1>3. ASSUME NEW id \in issued, Get(p, id) PROVE Safe'
  <2>1. id \in Ids
    BY DEF TableFine
  <2>. QED  BY <1>3, <2>1, BeginSafe DEF Get, BeginRead, Aimed
<1>4. CASE Expand(p)
  BY <1>4, BeginSafe DEF Expand, BeginRead, Aimed
<1>. QED  BY <1>1, <1>2, <1>3, <1>4 DEF Call

LEMMA OpenSafe ==
    ASSUME TableFine, LocalsFine, Safe, OpenList
    PROVE  Safe'
<1>1. Browser \in Callers
  BY PoolAssumption
<1>. QED  BY <1>1, BeginSafe DEF OpenList, BeginRead, Aimed

-----------------------------------------------------------------------------

LEMMA Initial ==
    ASSUME Init
    PROVE  IInv
<1>1. PICK created \in [Stored -> 0..1] :
          rows = [id \in Ids |-> IF id \in Stored
                                 THEN [created |-> created[id], live |-> TRUE]
                                 ELSE NoRow]
  BY DEF Init
<1>2. Stored \subseteq Ids /\ \A id \in Stored : [created |-> created[id], live |-> TRUE] \in Row
  BY PoolAssumption DEF Row
<1>3. rows \in [Ids -> Row \cup {NoRow}]
  BY <1>1, <1>2
<1>4. \A id \in Ids : Present(id) <=> id \in Stored
  BY <1>1, <1>2, PoolAssumption DEF Present, Row
<1>5. TypeOK
  <2>1. <<>> \in Seq(Conns) /\ 1 \in 0..MaxTime /\ 0 \in 0..MaxCalls
    BY PoolAssumption
  <2>. QED  BY <1>2, <1>3, <2>1 DEF Init, TypeOK
<1>6. LocalTypes /\ Connected
  BY IdleRecords DEF Init, LocalTypes, Connected
<1>7. \A p \in Callers : /\ call[p].op = "none" /\ call[p].todo = {} /\ call[p].got = {}
                         /\ at[p] = "idle"
  BY DEF Init, NoCall
<1>8. tags = Stored /\ issued = Stored
  BY DEF Init
<1>9. Together /\ Known
  BY <1>2, <1>4, <1>7, <1>8 DEF Together, Known
<1>10. Own /\ Writers /\ TagsAreWhole
  BY <1>7 DEF Own, Writers, TagsAreWhole
<1>. QED  BY <1>5, <1>6, <1>9, <1>10 DEF IInv, Safe

LEMMA Inductive ==
    ASSUME IInv, [Next]_vars
    PROVE  IInv'
<1>. LocalsFine /\ TableFine /\ Safe /\ Own /\ Writers
  BY Parts DEF IInv, Safe
<1>. SUFFICES (LocalsFine /\ TableFine /\ Safe)'
  BY Parts DEF IInv, TypeOK, LocalsFine, TableFine, Places
<1>1. ASSUME NEW p \in Callers \ {Browser}, Call(p)
      PROVE  (LocalsFine /\ TableFine /\ Safe)'
  BY <1>1, CallFine, CallSafe
<1>2. CASE OpenList
  BY <1>2, OpenFine, OpenSafe
<1>3. ASSUME NEW p \in Callers, TakeFirst(p) \/ TakeSecond(p)
      PROVE  (LocalsFine /\ TableFine /\ Safe)'
  <2>1. TableFine'
    BY <1>3 DEF TakeFirst, TakeSecond, TableFine, db
  <2>. QED  BY <1>3, <2>1, TakeFine, TakeSafe
<1>4. ASSUME NEW p \in Callers, TimeOut(p) \/ Fail(p) \/ Busy(p)
      PROVE  (LocalsFine /\ TableFine /\ Safe)'
  BY <1>4, StopFine, StopSafe
<1>5. ASSUME NEW p \in Callers, Write(p)
      PROVE  (LocalsFine /\ TableFine /\ Safe)'
  BY <1>5, WriteFine, WriteSafe
<1>6. ASSUME NEW p \in Callers, Read(p)
      PROVE  (LocalsFine /\ TableFine /\ Safe)'
  BY <1>6, ReadFine, ReadSafe
<1>7. CASE UNCHANGED vars
  <2>1. LocalsFine' /\ TableFine'
    BY <1>7 DEF vars, db, place, LocalsFine, LocalTypes, TableFine, Connected
  <2>2. Writers'
    BY <1>7 DEF vars, place, Writers
  <2>. QED  BY <1>7, <2>1, <2>2, StillFramed DEF vars, db
<1>. QED  BY <1>1, <1>2, <1>3, <1>4, <1>5, <1>6, <1>7 DEF Next, Step

-----------------------------------------------------------------------------

\* The invariant behind the others: tags go with rows, and nobody reads or
\* reuses the id of an insert that is under way.
THEOREM Invariant == Spec => []IInv
<1>1. Init => IInv
  BY Initial
<1>2. IInv /\ [Next]_vars => IInv'
  BY Inductive
<1>. QED  BY <1>1, <1>2, PTL DEF Spec

\* Every variable keeps its type, for any number of callers and connections.
THEOREM TypeCorrect == Spec => []TypeOK
<1>1. IInv => TypeOK
  BY DEF IInv
<1>. QED  BY <1>1, Invariant, PTL

\* No read of sqlite_helpers.rs answers with a memory that is there and without
\* its tags, though it takes a second connection for them.
THEOREM AnswersAreWhole == Spec => []TagsAreWhole
<1>1. IInv => TagsAreWhole
  BY DEF IInv, Safe
<1>. QED  BY <1>1, Invariant, PTL

\* Whatever connection deletes a memory takes its tags along (build_pool).
THEOREM TagsHaveRows == Spec => []NoOrphans
<1>1. IInv => NoOrphans
  BY DEF IInv, Safe, Together, NoOrphans
<1>. QED  BY <1>1, Invariant, PTL

-----------------------------------------------------------------------------
(* The order of the listing.                                               *)

\* How many memories a listing shows before this one.
Ahead(id) == Cardinality({x \in LiveIds : Before(x, id, Tie)})

LEMMA LiveFinite == LiveIds \subseteq Ids /\ IsFiniteSet(LiveIds)
<1>1. LiveIds \subseteq Ids
  BY DEF LiveIds
<1>. QED  BY <1>1, PoolAssumption, FS_Subset

LEMMA AheadCounts == \A id : Ahead(id) \in Nat
<1>. SUFFICES ASSUME NEW id PROVE Ahead(id) \in Nat
  OBVIOUS
<1>1. IsFiniteSet({x \in LiveIds : Before(x, id, Tie)})
  BY LiveFinite, FS_Subset
<1>. QED  BY <1>1, FS_CardinalityType DEF Ahead

LEMMA TieType == Tie \in [Ids -> Nat]
<1>. DEFINE n == Cardinality(Ids)
<1>1. IsFiniteSet(Ids) /\ n \in Nat
  BY PoolAssumption, FS_CardinalityType
<1>2. IsFiniteSet(1..n) /\ Cardinality(1..n) = n
  <2>1. IsFiniteSet(1..n) /\ Cardinality(1..n) = IF 1 > n THEN 0 ELSE n - 1 + 1
    BY <1>1, FS_Interval
  <2>. QED  BY <1>1, <2>1
<1>3. ExistsBijection(Ids, 1..n)
  BY <1>1, <1>2, FS_SameCardinalityBij
<1>4. \E f \in [Ids -> 1..n] : IsInjective(f)
  BY <1>3 DEF ExistsBijection, Bijection, Injection
<1>5. Tie \in [Ids -> 1..n]
  BY <1>4 DEF Tie
<1>. QED  BY <1>5

LEMMA BeforeOrders ==
    ASSUME TableFine, NEW a \in LiveIds, NEW b \in LiveIds, Before(a, b, Tie)
    PROVE  ~Before(b, a, Tie)
<1>1. rows[a].created \in Int /\ rows[b].created \in Int
  BY DEF TableFine, LiveIds, Live, Present, Row
<1>2. Tie[a] \in Nat /\ Tie[b] \in Nat
  BY TieType, LiveFinite
<1>. QED  BY <1>1, <1>2 DEF Before

\* In an order of the listing the place of a memory is its number.
LEMMA PlaceIs ==
    ASSUME TableFine, NEW s \in Orders
    PROVE  /\ s \in [1..Cardinality(LiveIds) -> LiveIds]
           /\ \A i \in 1..Cardinality(LiveIds) : Ahead(s[i]) = i - 1
           /\ \A id \in LiveIds : \E i \in 1..Cardinality(LiveIds) : s[i] = id
           /\ \A i, j \in 1..Cardinality(LiveIds) : s[i] = s[j] => i = j
<1>. DEFINE n == Cardinality(LiveIds)
<1>1. n \in Nat
  BY LiveCount
<1>2. /\ s \in [1..n -> LiveIds]
      /\ \A i, j \in 1..n : i # j => s[i] # s[j]
      /\ \A i, j \in 1..n : i < j => Before(s[i], s[j], Tie)
  <2>1. s \in SetToSeqs(LiveIds) /\ \A i, j \in DOMAIN s : i < j => Before(s[i], s[j], Tie)
    BY DEF Orders
  <2>2. s \in [1..n -> LiveIds] /\ \A i, j \in 1..n : i # j => s[i] # s[j]
    BY <2>1 DEF SetToSeqs
  <2>. HIDE DEF n
  <2>. QED  BY <2>1, <2>2
<1>3. \A id \in LiveIds : \E i \in 1..n : s[i] = id
  <2>1. s \in Injection(1..n, LiveIds)
    <3>. HIDE DEF n
    <3>. QED  BY <1>2 DEF Injection, IsInjective
  <2>2. Cardinality(1..n) = n
    <3>1. Cardinality(1..n) = IF 1 > n THEN 0 ELSE n - 1 + 1
      BY <1>1, FS_Interval
    <3>. QED  BY <1>1, <3>1
  <2>3. s \in Surjection(1..n, LiveIds)
    BY <2>1, <2>2, LiveFinite, FS_Injection DEF n
  <2>. QED  BY <2>3 DEF Surjection
<1>. HIDE DEF n
<1>4. ASSUME NEW i \in 1..n PROVE Ahead(s[i]) = i - 1
  <2>. DEFINE A == {x \in LiveIds : Before(x, s[i], Tie)}
              f == [j \in 1..(i - 1) |-> s[j]]
  <2>1. \A j \in 1..(i - 1) : j \in 1..n /\ j < i
    BY <1>1
  <2>2. \A j \in 1..(i - 1) : s[j] \in A
    BY <1>2, <2>1
  <2>3. \A x \in A : \E j \in 1..(i - 1) : s[j] = x
    <3>. SUFFICES ASSUME NEW x \in A PROVE \E j \in 1..(i - 1) : s[j] = x
      OBVIOUS
    <3>1. PICK j \in 1..n : s[j] = x
      BY <1>3
    <3>2. s[i] \in LiveIds /\ s[j] \in LiveIds /\ Before(s[j], s[i], Tie)
      BY <1>2, <3>1
    <3>3. ~Before(s[i], s[j], Tie)
      BY <3>2, BeforeOrders
    <3>4. j < i
      <4>1. j # i
        BY <3>2, <3>3
      <4>2. ~(i < j)
        BY <1>2, <3>3
      <4>. QED  BY <1>1, <4>1, <4>2
    <3>. QED  BY <1>1, <3>1, <3>4
  <2>4. f \in Bijection(1..(i - 1), A)
    <3>. HIDE DEF A
    <3>1. f \in [1..(i - 1) -> A]
      BY <2>2
    <3>2. \A j, k \in 1..(i - 1) : f[j] = f[k] => j = k
      BY <1>2, <2>1
    <3>3. \A x \in A : \E j \in 1..(i - 1) : f[j] = x
      BY <2>3
    <3>. HIDE DEF f
    <3>4. f \in Injection(1..(i - 1), A)
      BY <3>1, <3>2 DEF Injection, IsInjective
    <3>5. f \in Surjection(1..(i - 1), A)
      BY <3>1, <3>3 DEF Surjection
    <3>. QED  BY <3>4, <3>5 DEF Bijection
  <2>5. IsFiniteSet(1..(i - 1)) /\ Cardinality(1..(i - 1)) = i - 1
    <3>1. /\ IsFiniteSet(1..(i - 1))
          /\ Cardinality(1..(i - 1)) = IF 1 > i - 1 THEN 0 ELSE (i - 1) - 1 + 1
      BY <1>1, FS_Interval
    <3>. QED  BY <1>1, <3>1
  <2>6. ExistsBijection(1..(i - 1), A)
    BY <2>4 DEF ExistsBijection
  <2>. HIDE DEF A
  <2>7. Cardinality(A) = i - 1
    BY <2>5, <2>6, FS_Bijection
  <2>. QED  BY <2>7 DEF Ahead, A
<1>5. \A i, j \in 1..n : s[i] = s[j] => i = j
  BY <1>2
<1>. QED  BY <1>2, <1>3, <1>4, <1>5 DEF n

\* A page is the memories whose numbers are its.
LEMMA PageIs ==
    ASSUME TableFine, walk \in WalkRecord, NEW s \in Orders
    PROVE  /\ PageOf(s) \in Seq(Ids) /\ IsInjective(PageOf(s))
           /\ Range(PageOf(s)) = {id \in LiveIds : /\ walk.offset <= Ahead(id)
                                                   /\ Ahead(id) < walk.offset + PageSize}
           /\ Len(PageOf(s)) \in 0..PageSize
           /\ walk.offset + Len(PageOf(s)) < Cardinality(LiveIds) =>
                  Len(PageOf(s)) = PageSize
           /\ \A id \in LiveIds : Ahead(id) < Cardinality(LiveIds)
<1>. DEFINE n == Cardinality(LiveIds)
            o == walk.offset
            top == Min({o + PageSize, Len(s)})
            page == PageOf(s)
<1>1. n \in Nat /\ o \in Nat /\ PageSize \in Nat \ {0}
  BY LiveCount, PoolAssumption DEF WalkRecord
<1>. HIDE DEF n, o
<1>2. /\ s \in [1..n -> LiveIds]
      /\ \A i \in 1..n : Ahead(s[i]) = i - 1
      /\ \A id \in LiveIds : \E i \in 1..n : s[i] = id
      /\ \A i, j \in 1..n : s[i] = s[j] => i = j
  BY PlaceIs DEF n
<1>3. s \in Seq(LiveIds) /\ Len(s) = n
  BY <1>1, <1>2
<1>4. top \in Nat /\ top <= n /\ top <= o + PageSize /\ (top = n \/ top = o + PageSize)
  <2>1. \E x \in {o + PageSize, n} : \A y \in {o + PageSize, n} : x =< y
    BY <1>1
  <2>2. top = CHOOSE x \in {o + PageSize, n} : \A y \in {o + PageSize, n} : x =< y
    BY <1>3 DEF Min
  <2>3. top \in {o + PageSize, n} /\ \A y \in {o + PageSize, n} : top =< y
    BY <2>1, <2>2
  <2>. HIDE DEF top
  <2>. QED  BY <1>1, <2>3
<1>5. page = SubSeq(s, o + 1, top)
  BY DEF PageOf, o
<1>. HIDE DEF top
<1>6. /\ page \in Seq(LiveIds) /\ Len(page) = (IF o + 1 <= top THEN top - o ELSE 0)
      /\ \A i \in 1..Len(page) : page[i] = s[o + i]
  <2>1. \A i \in (o + 1)..top : s[i] \in LiveIds
    BY <1>1, <1>2, <1>4
  <2>2. /\ page \in Seq(LiveIds)
        /\ Len(page) = IF o + 1 <= top THEN top - (o + 1) + 1 ELSE 0
        /\ \A i \in 1..(top - (o + 1) + 1) : page[i] = s[(o + 1) + i - 1]
    BY <1>1, <1>4, <1>5, <2>1, SubSeqProperties
  <2>. HIDE DEF page
  <2>3. Len(page) = IF o + 1 <= top THEN top - o ELSE 0
    BY <1>1, <1>4, <2>2
  <2>4. \A i \in 1..Len(page) : i \in 1..(top - (o + 1) + 1) /\ (o + 1) + i - 1 = o + i
    BY <1>1, <1>4, <2>3
  <2>. QED  BY <2>2, <2>3, <2>4
<1>. HIDE DEF page
<1>. DEFINE l == Len(page)
<1>7. l \in 0..PageSize /\ (o + l < n => l = PageSize) /\ DOMAIN page = 1..l
      /\ (l > 0 => o + l <= n)
  BY <1>1, <1>4, <1>6
<1>8. \A i \in 1..l : o + i \in 1..n /\ page[i] = s[o + i]
  BY <1>1, <1>6, <1>7
<1>. HIDE DEF l
<1>9. IsInjective(page)
  <2>. SUFFICES ASSUME NEW i \in 1..l, NEW j \in 1..l, page[i] = page[j] PROVE i = j
    BY <1>7 DEF IsInjective
  <2>1. o + i = o + j
    BY <1>2, <1>8
  <2>. QED  BY <1>1, <1>7, <2>1
<1>10. \A i \in 1..l : /\ page[i] \in LiveIds /\ o <= Ahead(page[i])
                       /\ Ahead(page[i]) < o + PageSize
  <2>. SUFFICES ASSUME NEW i \in 1..l
                PROVE  /\ page[i] \in LiveIds /\ o <= Ahead(page[i])
                       /\ Ahead(page[i]) < o + PageSize
    OBVIOUS
  <2>1. o + i \in 1..n /\ page[i] = s[o + i] /\ i \in Nat /\ 1 <= i /\ i <= PageSize
    BY <1>1, <1>7, <1>8
  <2>2. ASSUME NEW k \in 1..n, k = o + i, NEW x, x = s[k]
        PROVE  x \in LiveIds /\ o <= Ahead(x) /\ Ahead(x) < o + PageSize
    <3>1. x \in LiveIds /\ Ahead(x) = k - 1
      BY <1>2, <2>2
    <3>2. Ahead(x) \in Int /\ o \in Int /\ PageSize \in Int /\ k \in Int
      BY <1>1, <3>1
    <3>. QED  BY <2>1, <2>2, <3>1, <3>2
  <2>. QED  BY <2>1, <2>2
<1>11. \A id \in LiveIds : Ahead(id) \in Nat /\ Ahead(id) < n
  <2>1. \A i \in 1..n : Ahead(s[i]) \in Nat /\ Ahead(s[i]) < n
    BY <1>1, <1>2
  <2>. QED  BY <1>2, <2>1
<1>12. ASSUME NEW id \in LiveIds, o <= Ahead(id), Ahead(id) < o + PageSize
       PROVE  \E i \in 1..l : page[i] = id
  <2>1. PICK k \in 1..n : s[k] = id
    BY <1>2
  <2>2. Ahead(id) = k - 1
    BY <1>2, <2>1
  <2>3. k - o \in 1..l /\ o + (k - o) = k
    <3>1. o < k /\ k <= o + PageSize /\ k <= n
      BY <1>1, <1>12, <2>2
    <3>2. k <= top
      BY <1>1, <1>4, <3>1
    <3>3. l = top - o
      BY <1>1, <1>4, <1>6, <3>1, <3>2 DEF l
    <3>. QED  BY <1>1, <1>4, <3>1, <3>2, <3>3
  <2>. QED  BY <1>8, <2>1, <2>3
<1>13. Range(page) = {id \in LiveIds : o <= Ahead(id) /\ Ahead(id) < o + PageSize}
  <2>1. Range(page) = {page[i] : i \in 1..l}
    BY <1>7 DEF Range
  <2>. QED  BY <1>10, <1>12, <2>1
<1>14. page \in Seq(Ids)
  BY <1>6, LiveFinite, SeqMonotonic
<1>. QED  BY <1>7, <1>9, <1>11, <1>13, <1>14 DEF n, o, l, page

-----------------------------------------------------------------------------
(* Sequences.                                                              *)

LEMMA ConcatRange ==
    ASSUME NEW S, NEW s \in Seq(S), NEW r \in Seq(S)
    PROVE  Range(s \o r) = Range(s) \cup Range(r)
<1>1. /\ Len(s \o r) = Len(s) + Len(r) /\ s \o r \in Seq(S)
      /\ Len(s) \in Nat /\ Len(r) \in Nat
  BY ConcatProperties
<1>2. \A i \in 1..Len(s) : (s \o r)[i] = s[i]
  BY <1>1, ConcatProperties
<1>3. \A i \in 1..Len(r) : (s \o r)[Len(s) + i] = r[i]
  BY <1>1, ConcatProperties
<1>4. /\ DOMAIN s = 1..Len(s) /\ DOMAIN r = 1..Len(r)
      /\ DOMAIN (s \o r) = 1..(Len(s) + Len(r))
  BY <1>1
<1>. DEFINE m == Len(s)
            k == Len(r)
            c == s \o r
<1>. HIDE DEF m, k, c
<1>5. \A i \in 1..(m + k) : i \in 1..m \/ (i - m \in 1..k /\ m + (i - m) = i)
  BY <1>1 DEF m, k
<1>6. \A i \in DOMAIN c : c[i] \in Range(s) \cup Range(r)
  <2>. SUFFICES ASSUME NEW i \in 1..(m + k) PROVE c[i] \in Range(s) \cup Range(r)
    BY <1>4 DEF c, m, k
  <2>1. CASE i \in 1..m
    BY <1>2, <1>4, <2>1 DEF c, m, Range
  <2>2. CASE i - m \in 1..k /\ m + (i - m) = i
    <3>1. c[m + (i - m)] = r[i - m]
      BY <1>3, <2>2 DEF c, m, k
    <3>. QED  BY <1>4, <2>2, <3>1 DEF k, Range
  <2>. QED  BY <1>5, <2>1, <2>2
<1>7. \A i \in 1..m : s[i] \in Range(c)
  <2>1. \A i \in 1..m : i \in DOMAIN c /\ c[i] = s[i]
    BY <1>1, <1>2, <1>4 DEF c, m
  <2>. QED  BY <2>1 DEF Range
<1>8. \A i \in 1..k : r[i] \in Range(c)
  <2>1. \A i \in 1..k : m + i \in DOMAIN c /\ c[m + i] = r[i]
    BY <1>1, <1>3, <1>4 DEF c, m, k
  <2>. QED  BY <2>1 DEF Range
<1>9. Range(s) = {s[i] : i \in 1..m} /\ Range(r) = {r[i] : i \in 1..k}
  BY <1>4 DEF Range, m, k
<1>10. Range(c) = {c[i] : i \in DOMAIN c}
  BY DEF Range
<1>. QED  BY <1>6, <1>7, <1>8, <1>9, <1>10 DEF c

LEMMA ConcatInjective ==
    ASSUME NEW S, NEW s \in Seq(S), NEW r \in Seq(S),
           IsInjective(s), IsInjective(r), Range(s) \cap Range(r) = {}
    PROVE  IsInjective(s \o r)
<1>. DEFINE m == Len(s)
            k == Len(r)
            c == s \o r
<1>1. m \in Nat /\ k \in Nat /\ DOMAIN s = 1..m /\ DOMAIN r = 1..k
      /\ DOMAIN c = 1..(m + k)
  BY ConcatProperties
<1>2. \A i \in 1..(m + k) : c[i] = IF i <= m THEN s[i] ELSE r[i - m]
  BY ConcatProperties
<1>. HIDE DEF m, k, c
<1>3. \A i \in 1..m, j \in 1..k : s[i] # r[j]
  BY <1>1 DEF Range
<1>4. ASSUME NEW i \in 1..(m + k), NEW j \in 1..(m + k), c[i] = c[j]
      PROVE  i = j
  <2>1. CASE i <= m /\ j <= m
    BY <1>1, <1>2, <1>4, <2>1 DEF IsInjective
  <2>2. CASE i <= m /\ ~(j <= m)
    <3>1. i \in 1..m /\ j - m \in 1..k
      BY <1>1, <2>2
    <3>. QED  BY <1>2, <1>3, <1>4, <2>2, <3>1
  <2>3. CASE ~(i <= m) /\ j <= m
    <3>1. j \in 1..m /\ i - m \in 1..k
      BY <1>1, <2>3
    <3>. QED  BY <1>2, <1>3, <1>4, <2>3, <3>1
  <2>4. CASE ~(i <= m) /\ ~(j <= m)
    <3>1. i - m \in 1..k /\ j - m \in 1..k
      BY <1>1, <2>4
    <3>2. i - m = j - m
      BY <1>1, <1>2, <1>4, <2>4, <3>1 DEF IsInjective
    <3>. QED  BY <1>1, <3>2
  <2>. QED  BY <2>1, <2>2, <2>3, <2>4
<1>. QED  BY <1>1, <1>4 DEF IsInjective, c

-----------------------------------------------------------------------------
(* The walk over the pages.                                                *)

\* Rows are read and not shown yet.
Reading == at[Browser] \in {"second", "tags"}

\* Only the browser lists, and its calls are those of a walk.
Listing ==
    /\ \A p \in Callers : call[p].op = "list" \/ at[p] = "page" => p = Browser
    /\ at[Browser] # "idle" => call[Browser].op = "list" /\ walk.on
    /\ walk.on => ~walk.done

\* What the page adds: unless one left, or came after the COUNT, every memory
\* up to its end has been shown or is on it, it is full when another follows,
\* and the last ends the list; unless one came or left, it is the next ones.
PageRight(page, total) ==
    /\ ~walk.lost /\ ~walk.split =>
        /\ \A id \in walk.start : Ahead(id) < walk.offset + Len(page) =>
                                      id \in Range(walk.seen) \cup Range(page)
        /\ walk.offset + Len(page) < total => Len(page) = PageSize
        /\ ~(walk.offset + Len(page) < total) =>
                walk.start \subseteq Range(walk.seen) \cup Range(page)
    /\ ~walk.lost /\ ~walk.gained =>
        /\ IsInjective(page)
        /\ \A id \in Range(page) : /\ id \in LiveIds /\ walk.offset <= Ahead(id)
                                   /\ Ahead(id) < walk.offset + PageSize

\* A memory that comes moves the others on, never back: the ones before the
\* offset have been shown.
Covers ==
    walk.on /\ ~walk.lost =>
        /\ walk.start \subseteq LiveIds
        /\ ~walk.split =>
            /\ \A id \in walk.start : Ahead(id) < walk.offset => id \in Range(walk.seen)
            /\ at[Browser] = "page" => call[Browser].total = Cardinality(LiveIds)

\* While none comes or leaves, what has been shown is before the offset.
Once ==
    walk.on /\ ~walk.lost /\ ~walk.gained =>
        /\ IsInjective(walk.seen)
        /\ \A id \in Range(walk.seen) : id \in LiveIds /\ Ahead(id) < walk.offset

WalkInv ==
    /\ Listing /\ Covers /\ Once /\ WalkIsExact
    /\ Reading => PageRight(call[Browser].page, call[Browser].total)

\* The rows that stay keep their order; those that come only add to the ones
\* ahead.
SameTimes == \A id \in LiveIds : rows'[id].created = rows[id].created

LEMMA AheadKept ==
    ASSUME LiveIds' = LiveIds, SameTimes
    PROVE  \A id \in LiveIds : Ahead(id)' = Ahead(id)
<1>. SUFFICES ASSUME NEW id \in LiveIds PROVE Ahead(id)' = Ahead(id)
  OBVIOUS
<1>1. {x \in LiveIds' : Before(x, id, Tie)'} = {x \in LiveIds : Before(x, id, Tie)}
  BY DEF SameTimes, Before
<1>. QED  BY <1>1 DEF Ahead

LEMMA AheadGrows ==
    ASSUME LiveIds \subseteq LiveIds', SameTimes
    PROVE  \A id \in LiveIds : /\ Ahead(id) \in Nat /\ Ahead(id)' \in Nat
                               /\ Ahead(id) <= Ahead(id)'
<1>. SUFFICES ASSUME NEW id \in LiveIds
              PROVE  /\ Ahead(id) \in Nat /\ Ahead(id)' \in Nat
                     /\ Ahead(id) <= Ahead(id)'
  OBVIOUS
<1>. DEFINE A == {x \in LiveIds : Before(x, id, Tie)}
            B == {x \in LiveIds' : Before(x, id, Tie)'}
<1>1. A \subseteq B
  BY DEF SameTimes, Before
<1>2. IsFiniteSet(B)
  <2>1. B \subseteq Ids
    BY DEF LiveIds
  <2>. QED  BY <2>1, PoolAssumption, FS_Subset
<1>3. /\ Cardinality(A) \in Nat /\ Cardinality(B) \in Nat
      /\ Cardinality(A) <= Cardinality(B)
  BY <1>1, <1>2, FS_Subset, FS_CardinalityType
<1>. QED  BY <1>3 DEF Ahead

\* The browser's call and place, as far as the walk goes.
SamePage == call'[Browser].page = call[Browser].page
            /\ call'[Browser].total = call[Browser].total

LEMMA WalkKept ==
    ASSUME WalkInv, Listing', walk' = walk, LiveIds' = LiveIds, SameTimes,
           Reading' => Reading /\ SamePage,
           at'[Browser] = "page" => at[Browser] = "page" /\ SamePage
    PROVE  WalkInv'
<1>1. \A id \in LiveIds : Ahead(id)' = Ahead(id)
  BY AheadKept
<1>2. Listing /\ Covers /\ Once /\ WalkIsExact
      /\ (Reading => PageRight(call[Browser].page, call[Browser].total))
  BY DEF WalkInv
<1>3. Covers'
  BY <1>1, <1>2 DEF Covers, SamePage
<1>4. Once'
  BY <1>1, <1>2 DEF Once
<1>5. WalkIsExact'
  BY <1>2 DEF WalkIsExact
<1>6. ASSUME Reading' PROVE PageRight(call[Browser].page, call[Browser].total)'
  <2>. DEFINE page == call[Browser].page
              total == call[Browser].total
  <2>1. PageRight(page, total) /\ call'[Browser].page = page /\ call'[Browser].total = total
    BY <1>2, <1>6 DEF SamePage
  <2>2. walk.on
    BY <1>2, <1>6 DEF Listing, Reading
  <2>3. ~walk.lost => walk.start \subseteq LiveIds
    BY <1>2, <2>2 DEF Covers
  <2>. QED  BY <1>1, <2>1, <2>3 DEF PageRight
<1>. QED  BY <1>3, <1>4, <1>5, <1>6 DEF WalkInv

\* A memory leaves the listing: a walk that is on promises nothing more.
LEMMA WalkLost ==
    ASSUME WalkInv, walk \in WalkRecord, walk' = Lost, Listing'
    PROVE  WalkInv'
<1>1. /\ walk'.lost = (walk.lost \/ walk.on) /\ walk'.on = walk.on /\ walk'.done = walk.done
      /\ walk'.start = walk.start /\ walk'.seen = walk.seen /\ walk'.gained = walk.gained
      /\ walk'.split = walk.split
  BY DEF Lost, WalkRecord
<1>2. Covers' /\ Once'
  BY <1>1 DEF Covers, Once
<1>3. WalkIsExact'
  BY <1>1 DEF WalkInv, WalkIsExact
<1>4. Reading' => PageRight(call[Browser].page, call[Browser].total)'
  <2>1. Reading' => walk'.on
    BY DEF Listing, Reading
  <2>. QED  BY <1>1, <2>1 DEF PageRight
<1>. QED  BY <1>2, <1>3, <1>4 DEF WalkInv

\* A memory comes while the browser is elsewhere.
LEMMA WalkGained ==
    ASSUME WalkInv, walk \in WalkRecord, walk' = Gained, Listing',
           LiveIds \subseteq LiveIds', SameTimes, call[Browser].page \in Seq(Ids),
           at'[Browser] = at[Browser], call'[Browser] = call[Browser]
    PROVE  WalkInv'
<1>1. /\ walk'.gained = (walk.gained \/ walk.on) /\ walk'.on = walk.on
      /\ walk'.done = walk.done /\ walk'.start = walk.start /\ walk'.seen = walk.seen
      /\ walk'.lost = walk.lost /\ walk'.split = (walk.split \/ at[Browser] = "page")
      /\ walk'.offset = walk.offset /\ walk.offset \in Nat /\ walk.start \subseteq Ids
  BY DEF Gained, WalkRecord
<1>2. \A id \in LiveIds : Ahead(id) \in Nat /\ Ahead(id)' \in Nat /\ Ahead(id) <= Ahead(id)'
  BY AheadGrows
<1>3. Listing /\ Covers /\ WalkIsExact
      /\ (Reading => PageRight(call[Browser].page, call[Browser].total))
  BY DEF WalkInv
<1>4. Covers'
  <2>. SUFFICES ASSUME walk.on, ~walk.lost
                PROVE  /\ walk.start \subseteq LiveIds'
                       /\ ~walk'.split =>
                           /\ \A id \in walk.start : Ahead(id)' < walk.offset =>
                                                         id \in Range(walk.seen)
                           /\ at[Browser] # "page"
    BY <1>1 DEF Covers
  <2>1. walk.start \subseteq LiveIds
    BY <1>3 DEF Covers
  <2>2. ~walk.split => \A id \in walk.start : Ahead(id) < walk.offset => id \in Range(walk.seen)
    BY <1>3 DEF Covers
  <2>3. \A id \in walk.start : Ahead(id)' < walk.offset => Ahead(id) < walk.offset
    BY <1>1, <1>2, <2>1
  <2>. QED  BY <1>1, <2>1, <2>2, <2>3
<1>5. Once'
  BY <1>1 DEF Once
<1>6. WalkIsExact'
  BY <1>1, <1>3 DEF WalkIsExact, Listing
<1>7. ASSUME Reading' PROVE PageRight(call[Browser].page, call[Browser].total)'
  <2>. DEFINE page == call[Browser].page
              total == call[Browser].total
              end == walk.offset + Len(page)
  <2>1. PageRight(page, total) /\ walk.on
    BY <1>3, <1>7 DEF Reading, Listing
  <2>2. ~walk.lost => walk.start \subseteq LiveIds
    BY <1>3, <2>1 DEF Covers
  <2>3. ASSUME ~walk.lost, ~walk.split, NEW id \in walk.start, Ahead(id)' < end
        PROVE  id \in Range(walk.seen) \cup Range(page)
    <3>1. Ahead(id) \in Nat /\ Ahead(id)' \in Nat /\ Ahead(id) <= Ahead(id)'
      BY <1>2, <2>2, <2>3
    <3>2. end \in Int
      BY <1>1
    <3>3. Ahead(id) < end
      <4>. HIDE DEF end
      <4>. QED  BY <2>3, <3>1, <3>2
    <3>. QED  BY <2>1, <2>3, <3>3 DEF PageRight
  <2>. QED  BY <1>1, <2>1, <2>3 DEF PageRight
<1>. QED  BY <1>4, <1>5, <1>6, <1>7 DEF WalkInv

-----------------------------------------------------------------------------
(* The steps of the walk.                                                  *)

\* The places and calls of a step by p.
LEMMA Listed ==
    ASSUME LocalsFine, Listing, NEW p \in Callers, NEW label, NEW c \in CallRecord,
           Goto(p, label), call' = [call EXCEPT ![p] = c],
           p # Browser => c.op # "list" /\ label # "page" /\ walk'.on = walk.on,
           p = Browser /\ label # "idle" => c.op = "list" /\ walk'.on,
           walk'.on => ~walk'.done
    PROVE  /\ Listing'
           /\ p # Browser => at'[Browser] = at[Browser] /\ call'[Browser] = call[Browser]
           /\ p = Browser => at'[Browser] = label /\ call'[Browser] = c
<1>1. Browser \in Callers
  BY PoolAssumption
<1>2. /\ at' = [at EXCEPT ![p] = label] /\ at \in [Callers -> Places]
      /\ call \in [Callers -> CallRecord]
  BY DEF Goto, LocalsFine, LocalTypes
<1>3. /\ at'[p] = label /\ call'[p] = c
      /\ \A q \in Callers \ {p} : at'[q] = at[q] /\ call'[q] = call[q]
  BY <1>2
<1>4. \A q \in Callers : call'[q].op = "list" \/ at'[q] = "page" => q = Browser
  BY <1>3 DEF Listing
<1>5. at'[Browser] # "idle" => call'[Browser].op = "list" /\ walk'.on
  BY <1>1, <1>3 DEF Listing
<1>. QED  BY <1>1, <1>3, <1>4, <1>5 DEF Listing

LEMMA FinishListed ==
    ASSUME LocalsFine, Listing, NEW p \in Callers, NEW answer, Finish(p, answer),
           answer \in SUBSET [id : Ids, tagged : BOOLEAN],
           p # Browser => walk'.on = walk.on, walk'.on => ~walk'.done
    PROVE  /\ Listing'
           /\ p # Browser => at'[Browser] = at[Browser] /\ call'[Browser] = call[Browser]
           /\ p = Browser => at'[Browser] = "idle"
<1>. DEFINE c == [NoCall EXCEPT !.got = answer]
<1>1. c \in CallRecord /\ c.op = "none"
  BY IdleRecords DEF CallRecord, NoCall
<1>2. Goto(p, "idle") /\ call' = [call EXCEPT ![p] = c]
  BY DEF Finish
<1>. HIDE DEF c
<1>. QED  BY <1>1, <1>2, Listed

LEMMA SameRows ==
    ASSUME rows' = rows
    PROVE  LiveIds' = LiveIds /\ SameTimes
BY DEF LiveIds, Live, Present, SameTimes

\* A caller's own business: the browser's page is not its.
LEMMA OthersKept ==
    ASSUME WalkInv, walk' = walk, LiveIds' = LiveIds, SameTimes, Listing',
           at'[Browser] = at[Browser], call'[Browser] = call[Browser]
    PROVE  WalkInv'
BY WalkKept DEF Reading, SamePage

LEMMA FinishKept ==
    ASSUME LocalsFine, WalkInv, NEW p \in Callers, NEW answer, Finish(p, answer),
           answer \in SUBSET [id : Ids, tagged : BOOLEAN],
           walk' = walk, LiveIds' = LiveIds, SameTimes
    PROVE  WalkInv'
<1>1. Listing /\ (walk.on => ~walk.done)
  BY DEF WalkInv, Listing
<1>2. /\ Listing'
      /\ p # Browser => at'[Browser] = at[Browser] /\ call'[Browser] = call[Browser]
      /\ p = Browser => at'[Browser] = "idle"
  BY <1>1, FinishListed
<1>3. CASE p # Browser
  BY <1>2, <1>3, OthersKept
<1>4. CASE p = Browser
  <2>1. ~Reading' /\ at'[Browser] # "page"
    BY <1>2, <1>4 DEF Reading
  <2>. QED  BY <1>2, <2>1, WalkKept
<1>. QED  BY <1>3, <1>4

LEMMA TakeWalks ==
    ASSUME LocalsFine, WalkInv, NEW p \in Callers, TakeFirst(p) \/ TakeSecond(p)
    PROVE  WalkInv'
<1>1. /\ LocalTypes /\ call[p] \in CallRecord /\ call' = [call EXCEPT ![p] = call[p]]
      /\ call' = call /\ walk' = walk /\ rows' = rows
  BY SameCall DEF TakeFirst, TakeSecond, LocalsFine, db
<1>2. PICK label \in {"begin", "tags"} :
          Goto(p, label) /\ at[p] # "idle" /\ (label = "tags" => at[p] = "second")
  BY DEF TakeFirst, TakeSecond
<1>3. Listing /\ at \in [Callers -> Places] /\ Browser \in Callers
  BY PoolAssumption DEF WalkInv, LocalsFine
<1>4. Listing'
  <2>1. p # Browser => call[p].op # "list"
    BY <1>3 DEF Listing
  <2>2. p = Browser => call[p].op = "list" /\ walk.on
    BY <1>2, <1>3 DEF Listing
  <2>3. walk.on => ~walk.done
    BY <1>3 DEF Listing
  <2>. QED  BY <1>1, <1>2, <1>3, <2>1, <2>2, <2>3, Listed
<1>5. Reading' => Reading
  BY <1>2, <1>3 DEF Reading, Goto
<1>6. at'[Browser] # "page" \/ at[Browser] = "page"
  BY <1>2, <1>3 DEF Goto
<1>. QED  BY <1>1, <1>4, <1>5, <1>6, SameRows, WalkKept DEF SamePage

LEMMA StopWalks ==
    ASSUME LocalsFine, WalkInv, NEW p \in Callers, TimeOut(p) \/ Fail(p) \/ Busy(p)
    PROVE  WalkInv'
<1>1. Finish(p, {}) /\ walk' = walk /\ rows' = rows
  BY DEF TimeOut, Fail, Busy, db
<1>. QED  BY <1>1, SameRows, FinishKept

LEMMA WriteWalks ==
    ASSUME LocalsFine, TableFine, Own, Writers, WalkInv, NEW p \in Callers, Write(p)
    PROVE  WalkInv'
<1>0. /\ Listing /\ LocalTypes /\ walk \in WalkRecord /\ call[p] \in CallRecord
      /\ Browser \in Callers /\ (walk.on => ~walk.done)
  BY PoolAssumption DEF WalkInv, Listing, LocalsFine, LocalTypes
<1>1. /\ p # Browser
      /\ call[p].op \in {"insert", "delete", "invalidate"} /\ call[p].id \in Ids
      /\ at[p] # "idle"
  <2>1. call[p].op \in {"insert", "delete", "invalidate"} /\ at[p] # "idle"
    BY DEF Write, InsertRow, CommitRow, Delete, Invalidate, Writers
  <2>2. p # Browser
    BY <1>0, <2>1 DEF Listing
  <2>. QED  BY <1>0, <2>1, <2>2 DEF CallRecord, Aimed
<1>2. CASE InsertRow(p)
  <2>1. call' = [call EXCEPT ![p] = call[p]] /\ Goto(p, "row") /\ walk' = walk /\ rows' = rows
    BY <1>0, <1>2, SameCall DEF InsertRow, db
  <2>2. Listing' /\ at'[Browser] = at[Browser] /\ call'[Browser] = call[Browser]
    BY <1>0, <1>1, <2>1, Listed
  <2>. QED  BY <2>1, <2>2, SameRows, OthersKept
<1>3. CASE CommitRow(p)
  <2>1. walk' = Gained /\ Finish(p, {}) /\ rows' = [rows EXCEPT ![call[p].id] = NewRow(p)]
    BY <1>3 DEF CommitRow
  <2>2. walk'.on = walk.on /\ walk'.done = walk.done
    BY <1>0, <2>1 DEF Gained, WalkRecord
  <2>3. Listing' /\ at'[Browser] = at[Browser] /\ call'[Browser] = call[Browser]
    BY <1>0, <1>1, <2>1, <2>2, FinishListed
  <2>4. call[p].id \notin LiveIds
    BY <1>3 DEF CommitRow, Writers, Own, LiveIds, Live
  <2>5. \A id \in LiveIds : rows'[id] = rows[id]
    BY <2>1, <2>4 DEF TableFine, LiveIds
  <2>6. LiveIds \subseteq LiveIds' /\ SameTimes
    BY <2>5 DEF LiveIds, Live, Present, SameTimes
  <2>7. call[Browser].page \in Seq(Ids)
    BY <1>0 DEF LocalTypes, CallRecord
  <2>. QED  BY <1>0, <2>1, <2>3, <2>6, <2>7, WalkGained
<1>4. CASE Delete(p) \/ Invalidate(p)
  <2>1. Finish(p, {}) /\ walk' = IF Live(call[p].id) THEN Lost ELSE walk
    BY <1>4 DEF Delete, Invalidate
  <2>2. CASE Live(call[p].id)
    <3>1. walk' = Lost /\ walk'.on = walk.on /\ walk'.done = walk.done
      BY <1>0, <2>1, <2>2 DEF Lost, WalkRecord
    <3>2. Listing'
      BY <1>0, <1>1, <2>1, <3>1, FinishListed
    <3>. QED  BY <1>0, <3>1, <3>2, WalkLost
  <2>3. CASE ~Live(call[p].id)
    <3>1. walk' = walk /\ (rows' = rows \/ rows' = [rows EXCEPT ![call[p].id] = NoRow])
      BY <1>4, <2>1, <2>3 DEF Delete, Invalidate
    <3>2. \A id \in Ids \ {call[p].id} : rows'[id] = rows[id]
      BY <3>1 DEF TableFine
    <3>3. rows'[call[p].id] = NoRow \/ ~rows'[call[p].id].live
      BY <1>1, <2>3, <3>1 DEF Live, Present, TableFine
    <3>4. LiveIds' = LiveIds
      <4>1. \A id \in Ids : Live(id)' <=> Live(id)
        BY <2>3, <3>2, <3>3 DEF Live, Present
      <4>. QED  BY <4>1 DEF LiveIds
    <3>5. SameTimes
      BY <2>3, <3>2 DEF SameTimes, LiveIds
    <3>. QED  BY <2>1, <3>1, <3>4, <3>5, FinishKept
  <2>. QED  BY <2>2, <2>3
<1>. QED  BY <1>2, <1>3, <1>4 DEF Write

\* A page is shown.
LEMMA ShowWalks ==
    ASSUME WalkInv, walk \in WalkRecord, walk.on, NEW page \in Seq(Ids), NEW total \in Nat,
           PageRight(page, total), walk' = Shown(page, total),
           LiveIds' = LiveIds, SameTimes, Listing', at'[Browser] = "idle"
    PROVE  WalkInv'
<1>. DEFINE more == walk.offset + Len(page) < total
<1>1. /\ walk'.on = more /\ walk'.done = ~more /\ walk'.seen = walk.seen \o page
      /\ walk'.offset = (IF more THEN walk.offset + PageSize ELSE walk.offset)
      /\ walk'.start = walk.start /\ walk'.lost = walk.lost /\ walk'.gained = walk.gained
      /\ walk'.split = walk.split
  BY DEF Shown, WalkRecord
<1>2. /\ walk.offset \in Nat /\ walk.seen \in Seq(Ids) /\ walk.start \subseteq Ids
      /\ PageSize \in Nat
  BY PoolAssumption DEF WalkRecord
<1>3. Range(walk'.seen) = Range(walk.seen) \cup Range(page)
  BY <1>1, <1>2, ConcatRange
<1>4. /\ Covers /\ Once
      /\ \A id \in LiveIds : Ahead(id)' = Ahead(id)
  BY AheadKept DEF WalkInv
<1>5. ASSUME ~walk.lost, ~walk.gained
      PROVE  /\ IsInjective(walk'.seen)
             /\ \A id \in Range(walk'.seen) :
                    id \in LiveIds /\ Ahead(id) < walk.offset + PageSize
  <2>1. /\ IsInjective(walk.seen)
        /\ \A id \in Range(walk.seen) : id \in LiveIds /\ Ahead(id) < walk.offset
    BY <1>4, <1>5 DEF Once
  <2>2. /\ IsInjective(page)
        /\ \A id \in Range(page) : /\ id \in LiveIds /\ walk.offset <= Ahead(id)
                                   /\ Ahead(id) < walk.offset + PageSize
    BY <1>5 DEF PageRight
  <2>3. \A id : Ahead(id) \in Nat
    BY AheadCounts
  <2>4. Range(walk.seen) \cap Range(page) = {}
    <3>. SUFFICES ASSUME NEW id \in Range(walk.seen), id \in Range(page) PROVE FALSE
      OBVIOUS
    <3>1. Ahead(id) < walk.offset /\ walk.offset <= Ahead(id) /\ Ahead(id) \in Nat
      BY <2>1, <2>2, <2>3
    <3>. QED  BY <1>2, <3>1
  <2>5. IsInjective(walk'.seen)
    BY <1>1, <1>2, <2>1, <2>2, <2>4, ConcatInjective
  <2>6. \A id \in Range(walk.seen) : Ahead(id) < walk.offset + PageSize
    BY <1>2, <2>1, <2>3
  <2>. QED  BY <1>3, <2>1, <2>2, <2>5, <2>6
<1>6. Covers'
  <2>. SUFFICES ASSUME more, ~walk.lost
                PROVE  /\ walk.start \subseteq LiveIds
                       /\ ~walk.split => \A id \in walk.start :
                              Ahead(id)' < walk.offset + PageSize => id \in Range(walk'.seen)
    BY <1>1 DEF Covers
  <2>1. walk.start \subseteq LiveIds
    BY <1>4 DEF Covers
  <2>2. ASSUME ~walk.split, NEW id \in walk.start, Ahead(id)' < walk.offset + PageSize
        PROVE  id \in Range(walk'.seen)
    <3>1. Len(page) = PageSize
      BY <2>2 DEF PageRight
    <3>2. Ahead(id) < walk.offset + Len(page)
      BY <1>4, <2>1, <2>2, <3>1
    <3>. QED  BY <1>3, <2>2, <3>2 DEF PageRight
  <2>. QED  BY <2>1, <2>2
<1>7. Once'
  <2>. SUFFICES ASSUME more, ~walk.lost, ~walk.gained
                PROVE  /\ IsInjective(walk'.seen)
                       /\ \A id \in Range(walk'.seen) :
                              id \in LiveIds /\ Ahead(id)' < walk.offset + PageSize
    BY <1>1 DEF Once
  <2>. QED  BY <1>4, <1>5
<1>8. WalkIsExact'
  <2>. SUFFICES ASSUME ~more
                PROVE  /\ ~walk.lost /\ ~walk.split => walk.start \subseteq Range(walk'.seen)
                       /\ ~walk.lost /\ ~walk.gained => IsInjective(walk'.seen)
    BY <1>1 DEF WalkIsExact
  <2>1. ~walk.lost /\ ~walk.split => walk.start \subseteq Range(walk.seen) \cup Range(page)
    BY DEF PageRight
  <2>. QED  BY <1>3, <1>5, <2>1
<1>9. ~Reading'
  BY DEF Reading
<1>. QED  BY <1>6, <1>7, <1>8, <1>9 DEF WalkInv

LEMMA SelectRight ==
    ASSUME TableFine, WalkInv, walk \in WalkRecord, walk.on, NEW s \in Orders,
           at[Browser] = "page"
    PROVE  PageRight(PageOf(s), call[Browser].total)
<1>. DEFINE page == PageOf(s)
            total == call[Browser].total
<1>1. /\ page \in Seq(Ids) /\ IsInjective(page)
      /\ Range(page) = {id \in LiveIds : /\ walk.offset <= Ahead(id)
                                         /\ Ahead(id) < walk.offset + PageSize}
      /\ Len(page) \in 0..PageSize
      /\ walk.offset + Len(page) < Cardinality(LiveIds) => Len(page) = PageSize
      /\ \A id \in LiveIds : Ahead(id) < Cardinality(LiveIds)
  BY PageIs
<1>2. /\ walk.offset \in Nat /\ PageSize \in Nat /\ Cardinality(LiveIds) \in Nat
      /\ \A id : Ahead(id) \in Nat
  BY PoolAssumption, LiveCount, AheadCounts DEF WalkRecord
<1>. HIDE DEF page
<1>3. ASSUME ~walk.lost, ~walk.split
      PROVE  /\ \A id \in walk.start : Ahead(id) < walk.offset + Len(page) =>
                                           id \in Range(walk.seen) \cup Range(page)
             /\ walk.offset + Len(page) < total => Len(page) = PageSize
             /\ ~(walk.offset + Len(page) < total) =>
                     walk.start \subseteq Range(walk.seen) \cup Range(page)
  <2>1. /\ walk.start \subseteq LiveIds /\ total = Cardinality(LiveIds)
        /\ \A id \in walk.start : Ahead(id) < walk.offset => id \in Range(walk.seen)
    BY <1>3 DEF WalkInv, Covers
  <2>2. ASSUME NEW id \in walk.start, Ahead(id) < walk.offset + Len(page)
        PROVE  id \in Range(walk.seen) \cup Range(page)
    <3>1. CASE Ahead(id) < walk.offset
      BY <2>1, <3>1
    <3>2. CASE ~(Ahead(id) < walk.offset)
      <4>1. /\ id \in LiveIds /\ walk.offset <= Ahead(id)
            /\ Ahead(id) < walk.offset + PageSize
        BY <1>1, <1>2, <2>1, <2>2, <3>2
      <4>. QED  BY <1>1, <4>1
    <3>. QED  BY <3>1, <3>2
  <2>3. ASSUME ~(walk.offset + Len(page) < total), NEW id \in walk.start
        PROVE  id \in Range(walk.seen) \cup Range(page)
    <3>1. Ahead(id) < Cardinality(LiveIds)
      BY <1>1, <2>1
    <3>2. Ahead(id) < walk.offset + Len(page)
      BY <1>1, <1>2, <2>1, <2>3, <3>1
    <3>. QED  BY <2>2, <3>2
  <2>. QED  BY <1>1, <2>1, <2>2, <2>3
<1>. QED  BY <1>1, <1>3 DEF PageRight, page

LEMMA ReadWalks ==
    ASSUME LocalsFine, TableFine, WalkInv, NEW p \in Callers, Read(p)
    PROVE  WalkInv'
<1>0. /\ Listing /\ LocalTypes /\ walk \in WalkRecord /\ call[p] \in CallRecord
      /\ Browser \in Callers /\ (walk.on => ~walk.done)
      /\ at \in [Callers -> Places] /\ call \in [Callers -> CallRecord]
  BY PoolAssumption DEF WalkInv, Listing, LocalsFine, LocalTypes
<1>1. rows' = rows /\ LiveIds' = LiveIds /\ SameTimes
  <2>1. rows' = rows
    BY DEF Read, ReadRow, ReadNeighborhood, CountRows, SelectPage, ReadTags, db
  <2>. QED  BY <2>1, SameRows
<1>2. ASSUME p # Browser, NEW found \in SUBSET Ids, Tagging(p, found), walk' = walk
      PROVE  WalkInv'
  <2>1. CASE found = {}
    <3>1. Finish(p, {})
      BY <1>2, <2>1 DEF Tagging
    <3>. QED  BY <1>1, <1>2, <3>1, FinishKept
  <2>2. CASE found # {}
    <3>. DEFINE c == [call[p] EXCEPT !.todo = found]
    <3>1. c \in CallRecord /\ c.op = call[p].op
      BY <1>0 DEF CallRecord
    <3>2. call' = [call EXCEPT ![p] = c] /\ Goto(p, "second")
      BY <1>2, <2>2 DEF Tagging
    <3>3. call[p].op # "list"
      BY <1>0, <1>2 DEF Listing
    <3>. HIDE DEF c
    <3>4. Listing' /\ at'[Browser] = at[Browser] /\ call'[Browser] = call[Browser]
      BY <1>0, <1>2, <3>1, <3>2, <3>3, Listed
    <3>. QED  BY <1>1, <1>2, <3>4, OthersKept
  <2>. QED  BY <2>1, <2>2
<1>3. CASE ReadRow(p)
  <2>1. p # Browser /\ walk' = walk /\ {id \in {call[p].id} : Present(id)} \in SUBSET Ids
    BY <1>0, <1>3 DEF ReadRow, Listing, CallRecord, Aimed
  <2>. QED  BY <1>2, <1>3, <2>1 DEF ReadRow
<1>4. CASE ReadNeighborhood(p)
  <2>1. p # Browser /\ walk' = walk
    BY <1>0, <1>4 DEF ReadNeighborhood, Listing
  <2>2. PICK near \in SUBSET LiveIds : Tagging(p, near)
    BY <1>4 DEF ReadNeighborhood
  <2>3. near \in SUBSET Ids
    BY DEF LiveIds
  <2>. QED  BY <1>2, <2>1, <2>2, <2>3
<1>5. CASE CountRows(p)
  <2>. DEFINE c == [call[p] EXCEPT !.total = Cardinality(LiveIds)]
  <2>1. c \in CallRecord /\ c.op = "list" /\ c.total = Cardinality(LiveIds)
    BY <1>0, <1>5, LiveCount DEF CallRecord, CountRows
  <2>2. /\ call' = [call EXCEPT ![p] = c] /\ Goto(p, "page") /\ walk' = walk
        /\ p = Browser /\ walk.on
    BY <1>0, <1>5 DEF CountRows, Listing
  <2>. HIDE DEF c
  <2>3. Listing' /\ at'[Browser] = "page" /\ call'[Browser] = c
    BY <1>0, <2>1, <2>2, Listed
  <2>4. \A id \in LiveIds : Ahead(id)' = Ahead(id)
    BY <1>1, AheadKept
  <2>5. Covers' /\ Once' /\ WalkIsExact' /\ ~Reading'
    BY <1>1, <2>1, <2>2, <2>3, <2>4 DEF WalkInv, Covers, Once, WalkIsExact, Reading
  <2>. QED  BY <2>3, <2>5 DEF WalkInv
<1>6. CASE SelectPage(p)
  <2>1. PICK s \in Orders :
            IF PageOf(s) = <<>>
            THEN Finish(p, {}) /\ walk' = Shown(<<>>, call[p].total)
            ELSE /\ call' = [call EXCEPT ![p].page = PageOf(s),
                                         ![p].todo = Range(PageOf(s))]
                 /\ Goto(p, "second")
                 /\ UNCHANGED <<held, walk>>
    BY <1>6 DEF SelectPage
  <2>2. p = Browser /\ at[Browser] = "page" /\ walk.on /\ call[p].op = "list"
    BY <1>0, <1>6 DEF SelectPage, Listing
  <2>3. PageRight(PageOf(s), call[p].total)
    BY <1>0, <2>2, SelectRight
  <2>4. PageOf(s) \in Seq(Ids) /\ Range(PageOf(s)) \in SUBSET Ids /\ call[p].total \in Nat
    <3>1. PageOf(s) \in Seq(LiveIds) /\ Range(PageOf(s)) \subseteq LiveIds
      BY <1>0, Pages
    <3>2. LiveIds \subseteq Ids
      BY DEF LiveIds
    <3>. QED  BY <1>0, <3>1, <3>2, SeqMonotonic DEF CallRecord
  <2>5. CASE PageOf(s) = <<>>
    <3>1. Finish(p, {}) /\ walk' = Shown(PageOf(s), call[p].total)
      BY <2>1, <2>5
    <3>2. walk'.on => ~walk'.done
      BY <1>0, <3>1 DEF Shown, WalkRecord
    <3>3. Listing' /\ at'[Browser] = "idle"
      BY <1>0, <2>2, <3>1, <3>2, FinishListed
    <3>. QED  BY <1>0, <1>1, <2>2, <2>3, <2>4, <3>1, <3>3, ShowWalks
  <2>6. CASE PageOf(s) # <<>>
    <3>. DEFINE c == [call[p] EXCEPT !.page = PageOf(s), !.todo = Range(PageOf(s))]
    <3>1. /\ c \in CallRecord /\ c.op = "list" /\ c.page = PageOf(s)
          /\ c.total = call[p].total
      BY <1>0, <2>2, <2>4 DEF CallRecord
    <3>2. call' = [call EXCEPT ![p] = c] /\ Goto(p, "second") /\ walk' = walk
      BY <1>0, <2>1, <2>6 DEF LocalTypes
    <3>. HIDE DEF c
    <3>3. Listing' /\ at'[Browser] = "second" /\ call'[Browser] = c
      BY <1>0, <2>2, <3>1, <3>2, Listed
    <3>4. \A id \in LiveIds : Ahead(id)' = Ahead(id)
      BY <1>1, AheadKept
    <3>5. Covers' /\ Once' /\ WalkIsExact'
      BY <1>1, <3>2, <3>3, <3>4 DEF WalkInv, Covers, Once, WalkIsExact
    <3>6. PageRight(call[Browser].page, call[Browser].total)'
      <4>1. ~walk.lost => walk.start \subseteq LiveIds
        BY <2>2 DEF WalkInv, Covers
      <4>2. call'[Browser].page = PageOf(s) /\ call'[Browser].total = call[p].total
        BY <3>1, <3>3
      <4>. QED  BY <1>1, <2>3, <3>2, <3>4, <4>1, <4>2 DEF PageRight
    <3>. QED  BY <3>3, <3>5, <3>6 DEF WalkInv
  <2>. QED  BY <2>5, <2>6
<1>7. CASE ReadTags(p)
  <2>. DEFINE rest(batch) == call[p].todo \ batch
              got(batch) == call[p].got \cup TagsOf(batch)
  <2>1. PICK batch \in Batches(p) :
            IF rest(batch) = {}
            THEN /\ Finish(p, got(batch))
                 /\ walk' = IF call[p].op = "list"
                            THEN Shown(call[p].page, call[p].total) ELSE walk
            ELSE /\ Goto(p, "second")
                 /\ held' = [held EXCEPT ![p] = <<@[1]>>]
                 /\ call' = [call EXCEPT ![p].todo = rest(batch), ![p].got = got(batch)]
                 /\ UNCHANGED walk
    BY <1>7 DEF ReadTags, TagsOf
  <2>2. /\ got(batch) \in SUBSET [id : Ids, tagged : BOOLEAN]
        /\ rest(batch) \in SUBSET Ids
    <3>1. batch \subseteq Ids
      BY <1>0, BatchesKnown DEF CallRecord
    <3>2. TagsOf(batch) \in SUBSET [id : Ids, tagged : BOOLEAN]
      BY <3>1, TagsTyped
    <3>. QED  BY <1>0, <3>2 DEF CallRecord
  <2>3. at[p] = "tags" /\ (p = Browser <=> call[p].op = "list")
        /\ (p = Browser => walk.on /\ Reading)
    BY <1>0, <1>7 DEF ReadTags, Listing, Reading
  <2>. HIDE DEF rest, got
  <2>4. CASE rest(batch) = {} /\ p = Browser
    <3>1. Finish(p, got(batch)) /\ walk' = Shown(call[p].page, call[p].total)
      BY <2>1, <2>3, <2>4
    <3>2. walk'.on => ~walk'.done
      BY <1>0, <3>1 DEF Shown, WalkRecord
    <3>3. Listing' /\ at'[Browser] = "idle"
      BY <1>0, <2>2, <2>4, <3>1, <3>2, FinishListed
    <3>4. /\ PageRight(call[p].page, call[p].total)
          /\ call[p].page \in Seq(Ids) /\ call[p].total \in Nat
      BY <1>0, <2>3, <2>4 DEF WalkInv, CallRecord
    <3>. QED  BY <1>0, <1>1, <2>3, <2>4, <3>1, <3>3, <3>4, ShowWalks
  <2>5. CASE rest(batch) = {} /\ p # Browser
    <3>1. Finish(p, got(batch)) /\ walk' = walk
      BY <2>1, <2>3, <2>5
    <3>. QED  BY <1>1, <2>2, <3>1, FinishKept
  <2>6. CASE rest(batch) # {}
    <3>. DEFINE c == [call[p] EXCEPT !.todo = rest(batch), !.got = got(batch)]
    <3>1. /\ c \in CallRecord /\ c.op = call[p].op /\ c.page = call[p].page
          /\ c.total = call[p].total
      BY <1>0, <2>2 DEF CallRecord
    <3>2. call' = [call EXCEPT ![p] = c] /\ Goto(p, "second") /\ walk' = walk
      BY <1>0, <2>1, <2>6 DEF LocalTypes
    <3>. HIDE DEF c
    <3>3. /\ Listing'
          /\ p # Browser => at'[Browser] = at[Browser] /\ call'[Browser] = call[Browser]
          /\ p = Browser => at'[Browser] = "second" /\ call'[Browser] = c
      BY <1>0, <2>3, <3>1, <3>2, Listed
    <3>4. CASE p # Browser
      BY <1>1, <3>2, <3>3, <3>4, OthersKept
    <3>5. CASE p = Browser
      <4>1. SamePage /\ at'[Browser] # "page"
        BY <3>1, <3>3, <3>5 DEF SamePage
      <4>. QED  BY <1>1, <2>3, <3>2, <3>3, <3>5, <4>1, WalkKept
    <3>. QED  BY <3>4, <3>5
  <2>. QED  BY <2>4, <2>5, <2>6
<1>. QED  BY <1>3, <1>4, <1>5, <1>6, <1>7 DEF Read

LEMMA BeginWalks ==
    ASSUME LocalsFine, WalkInv, NEW p \in Callers \ {Browser},
           NEW c \in CallRecord, c.op # "list", call' = [call EXCEPT ![p] = c],
           Goto(p, "first"), walk' = walk, rows' = rows
    PROVE  WalkInv'
<1>1. Listing /\ (walk.on => ~walk.done)
  BY DEF WalkInv, Listing
<1>2. Listing' /\ at'[Browser] = at[Browser] /\ call'[Browser] = call[Browser]
  BY <1>1, Listed
<1>. QED  BY <1>2, SameRows, OthersKept

LEMMA CallWalks ==
    ASSUME LocalsFine, TableFine, WalkInv, NEW p \in Callers \ {Browser}, Call(p)
    PROVE  WalkInv'
<1>. Does[p] \subseteq {"insert", "delete", "invalidate", "get", "expand"}
  BY PoolAssumption
<1>1. ASSUME NEW id \in Ids, NEW stamp \in 0..MaxTime, Insert(p, id, stamp)
      PROVE  WalkInv'
  <2>. DEFINE c == [NoCall EXCEPT !.op = "insert", !.id = id, !.stamp = stamp]
  <2>1. c \in CallRecord /\ c.op = "insert"
    BY IdleRecords DEF CallRecord, Aimed, NoCall
  <2>2. /\ call' = [call EXCEPT ![p] = c] /\ Goto(p, "first") /\ walk' = walk
        /\ rows' = rows
    BY <1>1 DEF Insert, db
  <2>. HIDE DEF c
  <2>. QED  BY <2>1, <2>2, BeginWalks
<1>2. ASSUME NEW op \in {"delete", "invalidate", "get", "expand"},
             NEW id \in Ids \cup {Nobody}, op \in Aimed => id \in Ids,
             call' = [call EXCEPT ![p] = [NoCall EXCEPT !.op = op, !.id = id]],
             Goto(p, "first"), walk' = walk, rows' = rows
      PROVE  WalkInv'
  <2>. DEFINE c == [NoCall EXCEPT !.op = op, !.id = id]
  <2>1. c \in CallRecord /\ c.op = op
    BY <1>2, IdleRecords DEF CallRecord, Aimed, NoCall
  <2>2. call' = [call EXCEPT ![p] = c]
    BY <1>2
  <2>. HIDE DEF c
  <2>. QED  BY <1>2, <2>1, <2>2, BeginWalks
<1>3. ASSUME NEW id \in Ids, NEW op \in {"delete", "invalidate"}, Discard(p, op, id)
      PROVE  WalkInv'
  BY <1>2, <1>3 DEF Discard, db
<1>4. ASSUME NEW id \in issued, Get(p, id) PROVE WalkInv'
  <2>1. id \in Ids
    BY DEF TableFine
  <2>. QED  BY <1>2, <1>4, <2>1 DEF Get, BeginRead, db
<1>5. CASE Expand(p)
  BY <1>2, <1>5 DEF Expand, BeginRead, db, Aimed
<1>. QED  BY <1>1, <1>3, <1>4, <1>5 DEF Call

LEMMA OpenWalks ==
    ASSUME LocalsFine, TableFine, WalkInv, OpenList
    PROVE  WalkInv'
<1>. DEFINE c == [NoCall EXCEPT !.op = "list", !.id = Nobody]
<1>1. /\ Listing /\ walk \in WalkRecord /\ Browser \in Callers
      /\ Covers /\ Once /\ WalkIsExact
  BY PoolAssumption DEF WalkInv, LocalsFine, LocalTypes
<1>2. c \in CallRecord /\ c.op = "list"
  BY IdleRecords DEF CallRecord, Aimed, NoCall
<1>3. /\ call' = [call EXCEPT ![Browser] = c] /\ Goto(Browser, "first") /\ rows' = rows
      /\ walk' = IF walk.on THEN walk ELSE [NoWalk EXCEPT !.on = TRUE, !.start = LiveIds]
  BY DEF OpenList, BeginRead, db
<1>. HIDE DEF c
<1>4. walk'.on /\ ~walk'.done
  BY <1>1, <1>3 DEF Listing, NoWalk
<1>5. Listing' /\ at'[Browser] = "first"
  BY <1>1, <1>2, <1>3, <1>4, Listed
<1>6. LiveIds' = LiveIds /\ SameTimes /\ ~Reading'
  BY <1>3, <1>5, SameRows DEF Reading
<1>7. CASE walk.on
  <2>1. walk' = walk
    BY <1>3, <1>7
  <2>. QED  BY <1>5, <1>6, <2>1, WalkKept
<1>8. CASE ~walk.on
  <2>1. /\ walk'.start = LiveIds /\ walk'.seen = <<>> /\ walk'.offset = 0
        /\ ~walk'.done
    BY <1>3, <1>8 DEF NoWalk
  <2>2. \A id \in LiveIds : Ahead(id) \in Nat /\ Ahead(id)' = Ahead(id)
    BY <1>6, AheadCounts, AheadKept
  <2>3. \A id \in LiveIds : ~(Ahead(id)' < 0)
    BY <2>2
  <2>4. Covers'
    BY <1>5, <1>6, <2>1, <2>3 DEF Covers
  <2>5. Once'
    <3>1. IsInjective(<<>>) /\ Range(<<>>) = {}
      BY DEF IsInjective, Range
    <3>. QED  BY <2>1, <3>1 DEF Once
  <2>. QED  BY <1>5, <1>6, <2>1, <2>4, <2>5 DEF WalkInv, WalkIsExact
<1>. QED  BY <1>7, <1>8

LEMMA WalkInitial ==
    ASSUME Init
    PROVE  WalkInv
<1>1. /\ \A p \in Callers : call[p].op = "none" /\ at[p] = "idle"
      /\ Browser \in Callers /\ ~walk.on /\ ~walk.done
  BY PoolAssumption DEF Init, NoCall, NoWalk
<1>. QED  BY <1>1 DEF WalkInv, Listing, Covers, Once, WalkIsExact, Reading

LEMMA WalkInductive ==
    ASSUME IInv, WalkInv, [Next]_vars
    PROVE  WalkInv'
<1>. LocalsFine /\ TableFine /\ Own /\ Writers
  BY Parts DEF IInv, Safe
<1>1. ASSUME NEW p \in Callers, Step(p) \/ Fail(p)
      PROVE  WalkInv'
  BY <1>1, TakeWalks, StopWalks, WriteWalks, ReadWalks DEF Step
<1>2. CASE UNCHANGED vars
  <2>1. /\ call' = call /\ at' = at /\ walk' = walk /\ rows' = rows
    BY <1>2 DEF vars, db, place
  <2>2. Listing'
    BY <2>1 DEF WalkInv, Listing
  <2>. QED  BY <2>1, <2>2, SameRows, OthersKept
<1>. QED  BY <1>1, <1>2, CallWalks, OpenWalks DEF Next

-----------------------------------------------------------------------------

\* The invariant behind the next theorem: a memory before the offset of the
\* walk has been shown, unless one left or came at the wrong moment, and what
\* has been shown is before the offset, unless one came or left.
THEOREM WalksWell == Spec => []WalkInv
<1>1. Init => WalkInv
  BY WalkInitial
<1>2. IInv /\ WalkInv /\ [Next]_vars => WalkInv'
  BY WalkInductive
<1>. QED  BY <1>1, <1>2, Invariant, PTL DEF Spec

\* The pages of GET /v1/memories, put one after the other by the browser
\* beside any number of other clients, miss no memory that was there from the
\* beginning, unless one left meanwhile or came between a COUNT and its SELECT,
\* and show none twice, unless one came or left; for any table, page size, pool.
THEOREM ListingIsExact == Spec => []WalkIsExact
<1>1. WalkInv => WalkIsExact
  BY DEF WalkInv
<1>. QED  BY <1>1, WalksWell, PTL
=============================================================================
