--------------------------- MODULE MigrationProofs ---------------------------
(***************************************************************************)
(* Proofs about Migration, for every number of processes and memories.     *)
(*                                                                         *)
(* A process that has worked up to some version has seen the schema at      *)
(* least that far, and the schema only grows: that survives another process *)
(* that starts lower and writes its smaller version over the recorded one.  *)
(***************************************************************************)
EXTENDS Migration, TLAPS

\* The schema holds all the steps up to version v provide.
UpTo(v) ==
    /\ \A n \in 2..v : Provides(n) \subseteq schema
    /\ v > 0 => "base" \in schema

\* What the recorded version and each process rely on.
Relied ==
    /\ UpTo(version)
    /\ \A p \in Processes :
        /\ at[p] # "down" => "base" \in schema
        /\ at[p] = "migrating" => UpTo(read[p])
        /\ at[p] = "migrating" /\ read[p] >= 2 => version >= 2
        /\ at[p] = "ready" => UpTo(Current) /\ version >= 2

\* Entries and stamps before and after their steps.
Contents ==
    /\ \A id \in Ids : entries[id] = 0 \/ (entries[id] = 1 /\ id \in present)
    /\ IndexedOnce
    /\ "valid_at" \in schema => present \subseteq stamped \cup unhealed

LEMMA ProvidesObjects ==
    ASSUME NEW n \in Int
    PROVE  /\ Provides(n) \subseteq Objects
           /\ Gains(n) \subseteq Objects
           /\ Provides(n) \subseteq Gains(n)
<1>1. Provides(n) \subseteq Objects
  <2>1. CASE n \in 2..Current
    BY <2>1 DEF Objects
  <2>2. CASE n \notin 2..Current
    <3>1. Provides(n) = {}
      BY <2>2 DEF Provides, Current
    <3> QED BY <3>1
  <2> QED BY <2>1, <2>2
<1>2. "idx_invalid_at" \in Objects
  BY DEF Objects
<1> QED BY <1>1, <1>2 DEF Gains

\* valid_at belongs to step 5 alone.
LEMMA ValidAtIsFive ==
    ASSUME NEW n \in 2..Current, n # 5
    PROVE  "valid_at" \notin Provides(n) /\ "valid_at" \notin Gains(n)
<1>1. n = 2 \/ n = 3 \/ n = 4 \/ n = 6
  BY DEF Current
<1>2. CASE n = 2
  BY <1>2 DEF Provides, Gains, Triggers
<1>3. CASE n = 3
  BY <1>3 DEF Provides, Gains
<1>4. CASE n = 4
  BY <1>4 DEF Provides, Gains
<1>5. CASE n = 6
  BY <1>5 DEF Provides, Gains
<1> QED BY <1>1, <1>2, <1>3, <1>4, <1>5

LEMMA BaseIsObjects == BaseObjects \subseteq Objects
<1>1. Provides(6) \subseteq Objects
  BY ProvidesObjects
<1>2. Provides(6) = {"absorptions", "invalidations"}
  BY DEF Provides
<1>3. "base" \in Objects
  BY DEF Objects
<1> QED BY <1>1, <1>2, <1>3 DEF BaseObjects

\* Every old database, whole or bricked, is typed.
LEMMA OldTyped ==
    ASSUME NEW v \in 0..Current, NEW done, Old(v, done)
    PROVE  /\ schema \subseteq Objects
           /\ version \in 0..Current
           /\ present \subseteq Ids /\ stamped \subseteq present /\ unhealed \subseteq Ids
           /\ entries \in [Ids -> Nat]
<1>1. UNION {Provides(n) : n \in 2..v} \subseteq Objects
  BY ProvidesObjects DEF Current
<1>2. {"base", "idx_invalid_at"} \subseteq Objects
  BY DEF Objects
<1>3. schema \subseteq Objects
  BY <1>1, <1>2 DEF Old
<1>4. present \subseteq Ids /\ stamped \subseteq present /\ unhealed \subseteq Ids
  BY MigrationAssumption DEF Old
<1>5. entries \in [Ids -> Nat]
  BY DEF Old
<1> QED BY <1>3, <1>4, <1>5 DEF Old

LEMMA InitIsOld ==
    ASSUME Init
    PROVE  New \/ \E v \in 0..Current : \E done : Old(v, done)
<1>1. CASE New
  BY <1>1
<1>2. CASE Old(Current, {})
  BY <1>2 DEF Current
<1>3. CASE \E v \in 0..(Current - 1) :
             \E k \in 0..Len(Script(NextVersion(v))) : Old(v, Partial(NextVersion(v), k))
  BY <1>3 DEF Current
<1> QED BY <1>1, <1>2, <1>3 DEF Init

-----------------------------------------------------------------------------
(* Types.                                                                  *)

LEMMA InitTyped == Init => TypeOK
<1> SUFFICES ASSUME Init PROVE TypeOK
  OBVIOUS
<1>1. /\ schema \subseteq Objects
      /\ version \in 0..Current
      /\ present \subseteq Ids /\ stamped \subseteq present /\ unhealed \subseteq Ids
      /\ entries \in [Ids -> Nat]
  <2>1. CASE New
    BY <2>1 DEF New, Current
  <2>2. CASE \E v \in 0..Current : \E done : Old(v, done)
    BY <2>2, OldTyped
  <2> QED BY <2>1, <2>2, InitIsOld
<1>2. /\ at \in [Processes -> {"down", "opened", "migrating", "ready"}]
      /\ read \in [Processes -> 0..Current]
      /\ \A p \in Processes : at[p] = "migrating" => read[p] < Current
      /\ stops \in 0..MaxStops /\ writes \in 0..MaxWrites
  BY MigrationAssumption DEF Init, Current
<1> QED BY <1>1, <1>2 DEF TypeOK

LEMMA NextTyped == TypeOK /\ [Next]_vars => TypeOK'
<1> SUFFICES ASSUME TypeOK, [Next]_vars PROVE TypeOK'
  OBVIOUS
<1> USE DEF TypeOK
<1>1. CASE UNCHANGED vars
  BY <1>1 DEF vars, file
<1>2. ASSUME NEW p \in Processes, CreateBase(p) PROVE TypeOK'
  BY <1>2, BaseIsObjects DEF CreateBase, Goto
<1>3. ASSUME NEW p \in Processes, ReadVersion(p) PROVE TypeOK'
  BY <1>3 DEF ReadVersion, StoredVersion, Goto, file, Current
<1>4. ASSUME NEW p \in Processes, MigrateStep(p) PROVE TypeOK'
  <2> DEFINE n == NextVersion(read[p])
  <2>1. n \in 2..Current
    BY <1>4 DEF MigrateStep, NextVersion, Current
  <2>2. schema' \subseteq Objects
    <3>1. Gains(n) \subseteq Objects
      BY <2>1, ProvidesObjects DEF Current
    <3> QED BY <1>4, <3>1 DEF MigrateStep
  <2>3. stamped' \subseteq present'
    BY <1>4 DEF MigrateStep, Backfilled
  <2>4. entries' \in [Ids -> Nat]
    BY <1>4 DEF MigrateStep
  <2>5. /\ version' \in 0..Current
        /\ read' \in [Processes -> 0..Current]
        /\ at' \in [Processes -> {"down", "opened", "migrating", "ready"}]
        /\ \A q \in Processes : at'[q] = "migrating" => read'[q] < Current
    BY <1>4, <2>1 DEF MigrateStep, Goto, Current, Last
  <2> QED BY <1>4, <2>2, <2>3, <2>4, <2>5 DEF MigrateStep
<1>5. ASSUME NEW p \in Processes, Stop(p) PROVE TypeOK'
  BY <1>5, MigrationAssumption DEF Stop, Goto, file
<1>6. ASSUME NEW p \in Processes, NEW id \in Ids, Insert(p, id) PROVE TypeOK'
  BY <1>6, MigrationAssumption DEF Insert, Serve
<1>7. ASSUME NEW p \in Processes, NEW id \in Ids, UpdateContent(p, id) PROVE TypeOK'
  BY <1>7, MigrationAssumption DEF UpdateContent, Serve
<1>8. ASSUME NEW p \in Processes, NEW id \in Ids, Delete(p, id) PROVE TypeOK'
  BY <1>8, MigrationAssumption DEF Delete, Serve
<1> QED BY <1>1, <1>2, <1>3, <1>4, <1>5, <1>6, <1>7, <1>8 DEF Next, Open

\* The file and the processes keep their types.
THEOREM TypeCorrect == Spec => []TypeOK
BY InitTyped, NextTyped, PTL DEF Spec

-----------------------------------------------------------------------------
(* Version and schema.                                                     *)

LEMMA InitRelied == Init => Relied
<1> SUFFICES ASSUME Init PROVE Relied
  OBVIOUS
<1>1. UpTo(version)
  <2>1. CASE New
    BY <2>1 DEF New, UpTo
  <2>2. ASSUME NEW v \in 0..Current, NEW done, Old(v, done) PROVE UpTo(version)
    BY <2>2 DEF Old, UpTo
  <2> QED BY <2>1, <2>2, InitIsOld
<1>2. \A p \in Processes : at[p] = "down"
  BY DEF Init
<1> QED BY <1>1, <1>2 DEF Relied

\* A step adds what its version provides to all that is there.
LEMMA StepProvides ==
    ASSUME TypeOK, NEW p \in Processes, Relied, MigrateStep(p)
    PROVE  /\ UpTo(version)' /\ version' >= 2
           /\ read'[p] = version' /\ schema \subseteq schema'
           /\ at'[p] = "ready" => version' = Current
<1> DEFINE n == NextVersion(read[p])
<1>1. n \in 2..Current /\ read[p] \in 0..Current /\ (n = read[p] + 1 \/ (read[p] < 2 /\ n = 2))
  BY DEF MigrateStep, NextVersion, TypeOK, Current
<1>2. UpTo(read[p]) /\ "base" \in schema
  BY DEF Relied, MigrateStep
<1>3. schema' = schema \cup Gains(n) /\ version' = n /\ read'[p] = n
  BY <1>1 DEF MigrateStep, TypeOK
<1>4. Provides(n) \subseteq schema'
  BY <1>1, <1>3, ProvidesObjects DEF Current
<1>5. \A i \in 2..n : Provides(i) \subseteq schema'
  <2> SUFFICES ASSUME NEW i \in 2..n PROVE Provides(i) \subseteq schema'
    OBVIOUS
  <2>1. CASE i = n
    BY <2>1, <1>4
  <2>2. CASE i # n
    <3>1. i \in 2..read[p]
      BY <1>1, <2>2 DEF Current
    <3> QED BY <1>2, <1>3, <3>1 DEF UpTo
  <2> QED BY <2>1, <2>2
<1>6. at'[p] = "ready" => n = Current
  BY DEF MigrateStep, Goto, Last, TypeOK
<1>7. UpTo(version)'
  BY <1>3, <1>5, <1>2 DEF UpTo
<1> QED BY <1>1, <1>3, <1>6, <1>7 DEF Current

LEMMA NextRelied == TypeOK /\ Relied /\ [Next]_vars => Relied'
<1> SUFFICES ASSUME TypeOK, Relied, [Next]_vars PROVE Relied'
  OBVIOUS
<1>1. CASE UNCHANGED vars
  BY <1>1 DEF vars, file, Relied, UpTo
<1>2. ASSUME NEW p \in Processes, CreateBase(p) PROVE Relied'
  <2>1. schema \subseteq schema' /\ "base" \in schema'
    BY <1>2 DEF CreateBase, BaseObjects
  <2> QED BY <1>2, <2>1 DEF CreateBase, Goto, Relied, UpTo, TypeOK
<1>3. ASSUME NEW p \in Processes, ReadVersion(p) PROVE Relied'
  <2>1. /\ read' = [read EXCEPT ![p] = version]
        /\ at' = [at EXCEPT ![p] = IF version >= Current THEN "ready" ELSE "migrating"]
        /\ at[p] = "opened" /\ UNCHANGED <<schema, version>>
    BY <1>3 DEF ReadVersion, StoredVersion, Goto, file
  <2>2. at'[p] = "ready" => UpTo(Current) /\ version >= 2
    BY <2>1 DEF TypeOK, Current, Relied
  <2> QED BY <2>1, <2>2 DEF Relied, UpTo, TypeOK
<1>4. ASSUME NEW p \in Processes, MigrateStep(p) PROVE Relied'
  <2>1. /\ UpTo(version)' /\ version' >= 2
        /\ read'[p] = version' /\ schema \subseteq schema'
        /\ at'[p] = "ready" => version' = Current
    BY <1>4, StepProvides
  <2>2. UpTo(Current)' \/ at'[p] # "ready"
    BY <2>1 DEF UpTo, Current
  <2>3. UpTo(read[p])'  \/ read'[p] # read[p]
    BY <2>1 DEF UpTo
  <2>4. \A q \in Processes \ {p} : at'[q] = at[q] /\ read'[q] = read[q]
    BY <1>4 DEF MigrateStep, Goto, TypeOK
  <2>5. "base" \in schema'
    BY <1>4, <2>1 DEF MigrateStep, Relied
  <2>6. ASSUME NEW q \in Processes
        PROVE  /\ at'[q] # "down" => "base" \in schema'
               /\ at'[q] = "migrating" => UpTo(read[q])'
               /\ at'[q] = "migrating" /\ read'[q] >= 2 => version' >= 2
               /\ at'[q] = "ready" => UpTo(Current)' /\ version' >= 2
    <3>1. CASE q = p
      BY <3>1, <2>1, <2>2, <2>5 DEF UpTo
    <3>2. CASE q # p
      BY <3>2, <2>1, <2>4, <2>5 DEF UpTo, Relied
    <3> QED BY <3>1, <3>2
  <2> QED BY <2>1, <2>6 DEF Relied
<1>5. ASSUME NEW p \in Processes, Stop(p) PROVE Relied'
  BY <1>5 DEF Stop, Goto, file, Relied, UpTo, TypeOK
<1>6. ASSUME NEW p \in Processes, Serve(p) PROVE Relied'
  BY <1>6 DEF Serve, Relied, UpTo
<1> QED BY <1>1, <1>2, <1>3, <1>4, <1>5, <1>6
        DEF Next, Open, Insert, UpdateContent, Delete

\* The recorded version never runs ahead of the schema.
THEOREM VersionEarned == Spec => []VersionIsEarned
<1>1. Relied => VersionIsEarned
  BY DEF Relied, UpTo, VersionIsEarned
<1> QED BY <1>1, InitTyped, NextTyped, InitRelied, NextRelied, PTL DEF Spec

\* A process that serves finds every table, column and trigger it names.
THEOREM ServingIsComplete == Spec => []ReadyCanServe
<1>1. Relied => ReadyCanServe
  BY DEF Relied, UpTo, ReadyCanServe, Current
<1> QED BY <1>1, InitTyped, NextTyped, InitRelied, NextRelied, PTL DEF Spec

-----------------------------------------------------------------------------
(* Rows, index entries and stamps.                                         *)

LEMMA InitContents == Init => Contents
<1> SUFFICES ASSUME Init PROVE Contents
  OBVIOUS
<1>1. CASE New
  BY <1>1 DEF New, Contents, IndexedOnce
<1>2. CASE Old(Current, {})
  BY <1>2, MigrationAssumption DEF Old, Contents, IndexedOnce, Current
<1>3. ASSUME NEW v \in 0..(Current - 1),
             NEW k \in 0..Len(Script(NextVersion(v))), Old(v, Partial(NextVersion(v), k))
      PROVE  Contents
  <2> DEFINE done == Partial(NextVersion(v), k)
  <2> HIDE DEF done
  <2>1. Old(v, done)
    BY <1>3 DEF done
  <2>2. version = v /\ present = Stored
    BY <2>1 DEF Old
  <2>3. \A id \in Ids : entries[id] = IF id \in Stored /\ (v >= 2 \/ "backfill_fts" \in done)
                                     THEN 1 ELSE 0
    BY <2>1 DEF Old
  <2>4. \/ stamped = Stored \/ unhealed = Stored
        \/ ~(v >= 5) /\ "valid_at" \notin done
    BY <2>1 DEF Old
  <2>5. ~(v >= 5) /\ "valid_at" \notin done => "valid_at" \notin schema
    <3>1. \A n \in 2..4 : "valid_at" \notin Provides(n)
      BY ValidAtIsFive DEF Current
    <3> QED BY <2>1, <3>1 DEF Old, Current
  <2> QED BY <2>2, <2>3, <2>4, <2>5 DEF Contents, IndexedOnce, Current
<1> QED BY <1>1, <1>2, <1>3 DEF Init

LEMMA NextContents == TypeOK /\ Relied /\ Contents /\ [Next]_vars => Contents'
<1> SUFFICES ASSUME TypeOK, Relied, Contents, [Next]_vars PROVE Contents'
  OBVIOUS
<1>1. CASE UNCHANGED vars
  BY <1>1 DEF vars, file, Contents, IndexedOnce
<1>2. ASSUME NEW p \in Processes, CreateBase(p) PROVE Contents'
  <2>1. "valid_at" \in schema' => "valid_at" \in schema
    BY <1>2 DEF CreateBase, BaseObjects
  <2> QED BY <1>2, <2>1 DEF CreateBase, Contents, IndexedOnce
<1>3. ASSUME NEW p \in Processes, ReadVersion(p) PROVE Contents'
  BY <1>3 DEF ReadVersion, file, Contents, IndexedOnce
<1>4. ASSUME NEW p \in Processes, MigrateStep(p) PROVE Contents'
  <2> DEFINE n == NextVersion(read[p])
  <2>1. n \in 2..Current /\ version' = n /\ present' = present /\ unhealed' = unhealed
    BY <1>4 DEF MigrateStep, NextVersion, TypeOK, Current
  <2>2. n = 2 \/ (read[p] >= 2 /\ version >= 2)
    BY <1>4 DEF MigrateStep, NextVersion, TypeOK, Current, Relied
  <2>3. \A id \in Ids : entries'[id] = IF id \in present THEN 1 ELSE 0
    <3>1. CASE n = 2
      BY <1>4, <3>1 DEF MigrateStep, Unindexed, Contents, TypeOK
    <3>2. CASE n # 2
      BY <1>4, <2>2, <3>2 DEF MigrateStep, Contents, IndexedOnce, TypeOK
    <3> QED BY <3>1, <3>2
  <2>4. "valid_at" \in schema' => present \subseteq stamped' \cup unhealed
    <3>1. CASE "valid_at" \in schema
      <4>1. "valid_at" \notin Alters(n)
        BY <3>1 DEF Alters
      <4> QED BY <1>4, <3>1, <4>1 DEF MigrateStep, Backfilled, Contents
    <3>2. CASE "valid_at" \notin schema /\ n = 5
      <4>1. "valid_at" \in Alters(n)
        BY <3>2 DEF Alters, ColumnsOf
      <4> QED BY <1>4, <3>2, <4>1 DEF MigrateStep, Backfilled
    <3>3. CASE "valid_at" \notin schema /\ n # 5
      <4>1. "valid_at" \notin Gains(n)
        BY <2>1, <3>3, ValidAtIsFive
      <4> QED BY <1>4, <3>3, <4>1 DEF MigrateStep
    <3> QED BY <3>1, <3>2, <3>3
  <2> QED BY <2>1, <2>3, <2>4 DEF Contents, IndexedOnce
<1>5. ASSUME NEW p \in Processes, Stop(p) PROVE Contents'
  BY <1>5 DEF Stop, file, Contents, IndexedOnce
<1>6. ASSUME NEW p \in Processes, Serve(p)
      PROVE  version >= 2 /\ Triggers \subseteq schema
  <2>1. UpTo(Current) /\ version >= 2
    BY <1>6 DEF Serve, Relied
  <2>2. Provides(2) \subseteq schema
    BY <2>1 DEF UpTo, Current
  <2> QED BY <2>1, <2>2 DEF Provides
<1>7. ASSUME NEW p \in Processes, NEW id \in Ids, Insert(p, id) PROVE Contents'
  <2>1. Serve(p)
    BY <1>7 DEF Insert
  <2>2. "insert_trigger" \in schema /\ entries[id] = 0
    BY <1>6, <1>7, <2>1 DEF Insert, Triggers, Contents
  <2>3. /\ present' = present \cup {id} /\ stamped' = stamped \cup {id}
        /\ entries' = [entries EXCEPT ![id] = 1]
        /\ UNCHANGED <<schema, version, unhealed>>
    BY <1>7, <2>1, <2>2 DEF Insert, Serve, TypeOK
  <2>4. \A m \in Ids : entries'[m] = IF m = id THEN 1 ELSE entries[m]
    BY <2>3 DEF TypeOK
  <2>5. \A m \in Ids : entries'[m] = IF m \in present' THEN 1 ELSE 0
    BY <1>6, <2>1, <2>3, <2>4 DEF Contents, IndexedOnce
  <2> QED BY <2>3, <2>5 DEF Contents, IndexedOnce
<1>8. ASSUME NEW p \in Processes, NEW id \in Ids, UpdateContent(p, id) PROVE Contents'
  <2>1. Serve(p)
    BY <1>8 DEF UpdateContent
  <2>2. "update_trigger" \in schema
    BY <1>6, <2>1 DEF Triggers
  <2> QED BY <1>8, <2>1, <2>2 DEF UpdateContent, Serve, Contents, IndexedOnce, TypeOK
<1>9. ASSUME NEW p \in Processes, NEW id \in Ids, Delete(p, id) PROVE Contents'
  <2>1. Serve(p)
    BY <1>9 DEF Delete
  <2>2. "delete_trigger" \in schema
    BY <1>6, <2>1 DEF Triggers
  <2> QED BY <1>9, <2>1, <2>2 DEF Delete, Serve, Contents, IndexedOnce, TypeOK
<1> QED BY <1>1, <1>2, <1>3, <1>4, <1>5, <1>7, <1>8, <1>9 DEF Next, Open

\* Backfills, replays and triggers keep one index entry per memory.
THEOREM AlwaysIndexedOnce == Spec => []IndexedOnce
<1>1. Contents => IndexedOnce
  BY DEF Contents
<1> QED BY <1>1, InitTyped, NextTyped, InitRelied, NextRelied, InitContents, NextContents,
           PTL DEF Spec

\* Only a database bricked between column and backfill keeps rows without valid_at.
THEOREM AlwaysStamped == Spec => []StampedFromFive
<1>1. TypeOK /\ Relied /\ Contents => StampedFromFive
  <2> SUFFICES ASSUME TypeOK, Relied, Contents, version >= 5
               PROVE  present \subseteq stamped \cup unhealed
    BY DEF StampedFromFive
  <2>1. Provides(5) \subseteq schema
    BY DEF Relied, UpTo, TypeOK, Current
  <2>2. "valid_at" \in schema
    BY <2>1 DEF Provides
  <2> QED BY <2>2 DEF Contents
<1> QED BY <1>1, InitTyped, NextTyped, InitRelied, NextRelied, InitContents, NextContents,
           PTL DEF Spec
=============================================================================
