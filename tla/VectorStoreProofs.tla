-------------------------- MODULE VectorStoreProofs --------------------------
(***************************************************************************)
(* Proofs about VectorStore: the index agrees with the embedding column,   *)
(* for any number of memories, callers, hang-ups and restarts, wherever no *)
(* two operations contended for an entry; a search that nothing disturbed  *)
(* is exact over its bucket; and VectorIndex, the arrays behind the index,  *)
(* implements the map VectorStore takes it for.                            *)
(***************************************************************************)
EXTENDS VectorStore, VectorIndex, FiniteSetTheorems, FunctionTheorems,
        WellFoundedInduction, TLAPS

\* A probe carries an embedding, a write on its way to the store its id.
Probing ==
    \A p \in Callers :
        /\ at[p] \in {"search", "dedup"} => vec[p] \in Vectors
        /\ at[p] \in {"encoded", "dedup", "deduped"} => arg[p] \in Ids

\* Only a purge has victims.
Purging == \A p \in Callers : victims[p] # {} => at[p] \in {"purge", "unindex"}

\* One operation at a time owes the index an entry nobody contended for.
OneOwes ==
    \A id \in Ids \ raced : \A p, q \in Callers : Owes(p, id) /\ Owes(q, id) => p = q

\* What it is about to do to the entry is what the row asks for; a purge that
\* has yet to delete finds row and entry as it selected them.
OwesTheRow ==
    \A id \in Ids \ raced : \A p \in Callers :
        /\ at[p] = "index" /\ arg[p] = id => vec[p] = Loaded[id]
        /\ at[p] = "unindex" /\ id \in victims[p] => Loaded[id] = NoVector
        /\ at[p] = "purge" /\ id \in victims[p] =>
              Present(id) /\ rows[id].status = "expired" /\ index[id] = Loaded[id]

Safe == Purging /\ OneOwes /\ OwesTheRow /\ IndexAgrees

IInv == TypeOK /\ Probing /\ Safe

-----------------------------------------------------------------------------
(* Types.                                                                  *)

Labels == {"idle", "encoded", "index", "purge", "unindex",
           "search", "searched", "dedup", "deduped", "answered"}

LocalTypes ==
    /\ at \in [Callers -> Labels]
    /\ arg \in [Callers -> Ids \cup {NoId}]
    /\ vec \in [Callers -> Vectors \cup {NoVector}]
    /\ bucket \in [Callers -> Namespaces \cup {NoId}]
    /\ fetch \in [Callers -> Nat]
    /\ hits \in [Callers -> SUBSET [id : Ids, score : Int]]
    /\ exhausted \in [Callers -> BOOLEAN]

StoreTypes ==
    /\ rows \in [Ids -> Row \cup {NoRow}]
    /\ issued \in SUBSET Ids
    /\ index \in [Ids -> Vectors \cup {NoVector}]
    /\ victims \in [Callers -> SUBSET Ids]
    /\ began \in Nat
    /\ raced \in SUBSET Ids
    /\ undisturbed \in SUBSET Callers

LEMMA Parts == TypeOK <=> LocalTypes /\ StoreTypes
BY DEF TypeOK, LocalTypes, StoreTypes, Labels

LEMMA PartsNext == TypeOK' <=> LocalTypes' /\ StoreTypes'
BY DEF TypeOK, LocalTypes, StoreTypes, Labels

LEMMA LoadedTypes ==
    ASSUME StoreTypes
    PROVE  Loaded \in [Ids -> Vectors \cup {NoVector}]
<1>. \A id \in Ids : Present(id) => rows[id] \in Row
  BY DEF StoreTypes, Present
<1>. QED  BY DEF Loaded, Row

LEMMA FinishTypes ==
    ASSUME LocalTypes, NEW p \in Callers, Finish(p)
    PROVE  LocalTypes'
BY DEF LocalTypes, Finish, Goto, Labels

LEMMA CommittedTypes ==
    ASSUME LocalTypes, StoreTypes, NEW p \in Callers, NEW id \in Ids,
           NEW v \in Vectors \cup {NoVector}, NEW dropped \in BOOLEAN,
           Committed(p, id, v, dropped)
    PROVE  LocalTypes' /\ raced' \in SUBSET Ids /\ undisturbed' \in SUBSET Callers
<1>1. raced' \in SUBSET Ids /\ undisturbed' \in SUBSET Callers
  BY DEF Committed, Races, StoreTypes
<1>2. CASE dropped
  BY <1>1, <1>2, FinishTypes DEF Committed
<1>3. CASE ~dropped
  BY <1>1, <1>3 DEF Committed, LocalTypes, Goto, Labels, probe
<1>. QED  BY <1>2, <1>3

\* A probe with an embedding finds ids with their scores.
LEMMA ProbeTypes ==
    ASSUME LocalTypes, StoreTypes, NEW p \in Callers, NEW q \in Vectors, NEW depth \in Nat,
           Probe(p, q, depth)
    PROVE  /\ hits' \in [Callers -> SUBSET [id : Ids, score : Int]]
           /\ exhausted' \in [Callers -> BOOLEAN]
           /\ fetch' \in [Callers -> Nat]
           /\ undisturbed' \in SUBSET Callers
<1>1. PICK found \in Nearest(Indexed, depth, Scores(q)) :
            /\ hits' = [hits EXCEPT ![p] =
                            {[id |-> id, score |-> Scores(q)[id]] : id \in found}]
            /\ exhausted' = [exhausted EXCEPT ![p] = Cardinality(found) < depth]
  BY DEF Probe
<1>2. found \subseteq Indexed
  BY DEF Nearest
<1>3. \A id \in Indexed : id \in Ids /\ Scores(q)[id] \in Int
  <2>. SUFFICES ASSUME NEW id \in Indexed PROVE id \in Ids /\ Scores(q)[id] \in Int
    OBVIOUS
  <2>1. id \in Ids /\ index[id] \in Vectors
    BY DEF Indexed, StoreTypes
  <2>2. Sim[q][index[id]] \in Int
    BY <2>1, VectorStoreAssumption
  <2>. QED  BY <2>1, <2>2 DEF Scores
<1>4. {[id |-> id, score |-> Scores(q)[id]] : id \in found} \in SUBSET [id : Ids, score : Int]
  BY <1>2, <1>3
<1>. QED  BY <1>1, <1>4 DEF Probe, LocalTypes, StoreTypes

LEMMA RowTypes ==
    ASSUME StoreTypes, NEW id \in Ids, NEW r \in Row \cup {NoRow},
           rows' = [rows EXCEPT ![id] = r]
    PROVE  rows' \in [Ids -> Row \cup {NoRow}]
BY DEF StoreTypes

LEMMA WriteRowTypes ==
    ASSUME LocalTypes, StoreTypes, NEW p \in Callers, NEW id \in Ids,
           NEW v \in Vectors \cup {NoVector}, NEW dropped \in BOOLEAN,
           WriteRow(p, id, v, dropped)
    PROVE  /\ LocalTypes' /\ raced' \in SUBSET Ids /\ undisturbed' \in SUBSET Callers
           /\ rows' \in [Ids -> Row \cup {NoRow}]
           /\ UNCHANGED <<index, victims>>
<1>1. [vector |-> v, status |-> "live"] \in Row
  BY DEF Row
<1>2. rows' \in [Ids -> Row \cup {NoRow}]
  BY <1>1, RowTypes DEF WriteRow
<1>. QED  BY <1>2, CommittedTypes DEF WriteRow

LEMMA CallTypes ==
    ASSUME TypeOK, NEW p \in Callers, Call(p)
    PROVE  TypeOK'
<1>. LocalTypes /\ StoreTypes
  BY Parts
<1>. SUFFICES LocalTypes' /\ StoreTypes'
  BY PartsNext
<1>n. 2 * Limit \in Nat /\ 2 * 1 \in Nat /\ \A id \in Ids : NamespaceOf[id] \in Namespaces
  BY VectorStoreAssumption DEF Namespaces
<1>1. ASSUME NEW id \in Ids, NEW dropped \in BOOLEAN, NEW v \in Vectors \cup {NoVector},
             Insert(p, id, v, dropped)
      PROVE  LocalTypes' /\ StoreTypes'
  <2>1. WriteRow(p, id, v, dropped) /\ issued' = issued \cup {id} /\ began' = began + 1
    BY <1>1 DEF Insert, Begin, Fresh
  <2>. QED  BY <2>1, WriteRowTypes DEF StoreTypes
<1>2. ASSUME NEW id \in Ids, NEW dropped \in BOOLEAN, Delete(p, id, dropped)
      PROVE  LocalTypes' /\ StoreTypes'
  <2>1. Committed(p, id, NoVector, dropped) /\ UNCHANGED <<issued, index, victims>>
        /\ began' = began + 1
    BY <1>2 DEF Delete, Begin
  <2>2. rows' \in [Ids -> Row \cup {NoRow}]
    BY <1>2, RowTypes DEF Delete
  <2>3. LocalTypes' /\ raced' \in SUBSET Ids /\ undisturbed' \in SUBSET Callers
    BY <2>1, CommittedTypes
  <2>. QED  BY <2>1, <2>2, <2>3 DEF StoreTypes
<1>3. ASSUME NEW id \in Ids, NEW v \in Vectors, Encode(p, id, v)
      PROVE  LocalTypes' /\ StoreTypes'
  BY <1>3 DEF Encode, Begin, Goto, LocalTypes, StoreTypes, Labels, db, probe
<1>4. ASSUME NEW id \in Ids, NEW v \in Vectors, InsertDedup(p, id, v)
      PROVE  LocalTypes' /\ StoreTypes'
  <2>1. Probe(p, v, 2 * 1)
    BY <1>4 DEF InsertDedup, StartProbe
  <2>2. /\ hits' \in [Callers -> SUBSET [id : Ids, score : Int]]
        /\ exhausted' \in [Callers -> BOOLEAN]
        /\ fetch' \in [Callers -> Nat]
        /\ undisturbed' \in SUBSET Callers
    BY <1>n, <2>1, ProbeTypes
  <2>3. /\ at' = [at EXCEPT ![p] = "dedup"] /\ arg' = [arg EXCEPT ![p] = id]
        /\ vec' = [vec EXCEPT ![p] = v] /\ bucket' = [bucket EXCEPT ![p] = NamespaceOf[id]]
    BY <1>4 DEF InsertDedup, StartProbe, Goto
  <2>4. LocalTypes'
    BY <1>n, <2>2, <2>3 DEF LocalTypes, Labels
  <2>5. issued' = issued \cup {id} /\ began' = began + 1 /\ UNCHANGED <<rows, index, victims, raced>>
    BY <1>4 DEF InsertDedup, StartProbe, Begin, Fresh
  <2>. QED  BY <2>2, <2>4, <2>5 DEF StoreTypes
<1>5. CASE SelectExpired(p)
  <2>1. {id \in Ids : Present(id) /\ rows[id].status = "expired"} \in SUBSET Ids
    OBVIOUS
  <2>2. victims' \in [Callers -> SUBSET Ids] /\ raced' \in SUBSET Ids
    BY <1>5, <2>1 DEF SelectExpired, StoreTypes
  <2>. QED  BY <1>5, <2>2 DEF SelectExpired, Begin, Goto, LocalTypes, StoreTypes, Labels, db, probe
<1>6. ASSUME NEW v \in Vectors, NEW ns \in Namespaces, Search(p, v, ns)
      PROVE  LocalTypes' /\ StoreTypes'
  <2>1. Probe(p, v, 2 * Limit)
    BY <1>6 DEF Search, StartProbe
  <2>2. /\ hits' \in [Callers -> SUBSET [id : Ids, score : Int]]
        /\ exhausted' \in [Callers -> BOOLEAN]
        /\ fetch' \in [Callers -> Nat]
        /\ undisturbed' \in SUBSET Callers
    BY <1>n, <2>1, ProbeTypes
  <2>3. /\ at' = [at EXCEPT ![p] = "search"] /\ UNCHANGED arg
        /\ vec' = [vec EXCEPT ![p] = v] /\ bucket' = [bucket EXCEPT ![p] = ns]
    BY <1>6 DEF Search, StartProbe, Goto
  <2>4. LocalTypes'
    BY <2>2, <2>3 DEF LocalTypes, Labels
  <2>5. began' = began + 1 /\ UNCHANGED <<rows, issued, index, victims, raced>>
    BY <1>6 DEF Search, StartProbe, Begin
  <2>. QED  BY <2>2, <2>4, <2>5 DEF StoreTypes
<1>. QED  BY <1>1, <1>2, <1>3, <1>4, <1>5, <1>6 DEF Call

LEMMA UpdateTypes ==
    ASSUME TypeOK, NEW p \in Callers, NEW dropped \in BOOLEAN, Update(p, dropped), arg[p] \in Ids
    PROVE  TypeOK'
<1>. LocalTypes /\ StoreTypes
  BY Parts
<1>. SUFFICES LocalTypes' /\ StoreTypes'
  BY PartsNext
<1>1. CASE Present(arg[p])
  <2>1. PICK s \in {rows[arg[p]].status} \cup
                   (IF rows[arg[p]].status = "expired" THEN {"hidden"} ELSE {}) :
             rows' = [rows EXCEPT ![arg[p]] = [vector |-> vec[p], status |-> s]]
    BY <1>1 DEF Update
  <2>2. rows[arg[p]] \in Row
    BY <1>1 DEF Present, StoreTypes
  <2>3. [vector |-> vec[p], status |-> s] \in Row
    BY <2>1, <2>2 DEF Row, LocalTypes
  <2>4. rows' \in [Ids -> Row \cup {NoRow}]
    BY <2>1, <2>3, RowTypes
  <2>5. Committed(p, arg[p], vec[p], dropped) /\ UNCHANGED <<issued, index, victims, began>>
    BY <1>1 DEF Update
  <2>6. vec[p] \in Vectors \cup {NoVector}
    BY DEF LocalTypes
  <2>7. LocalTypes' /\ raced' \in SUBSET Ids /\ undisturbed' \in SUBSET Callers
    BY <2>5, <2>6, CommittedTypes
  <2>. QED  BY <2>4, <2>5, <2>7 DEF StoreTypes
<1>2. CASE ~Present(arg[p])
  BY <1>2, FinishTypes DEF Update, StoreTypes
<1>. QED  BY <1>1, <1>2

LEMMA StepTypes ==
    ASSUME TypeOK, Probing, NEW p \in Callers, Step(p) \/ Mishap(p)
    PROVE  TypeOK'
<1>. LocalTypes /\ StoreTypes
  BY Parts
<1>1. ASSUME NEW dropped \in BOOLEAN, Update(p, dropped) PROVE TypeOK'
  BY <1>1, UpdateTypes DEF Update, Probing
<1>. SUFFICES LocalTypes' /\ StoreTypes'
  BY PartsNext
<1>2. CASE Correct(p)
  <2>1. LocalTypes' /\ index' \in [Ids -> Vectors \cup {NoVector}]
    BY <1>2, FinishTypes DEF Correct, LocalTypes, StoreTypes
  <2>. QED  BY <1>2, <2>1 DEF Correct, StoreTypes, db
<1>3. CASE DeleteExpired(p)
  <2>1. rows' \in [Ids -> Row \cup {NoRow}]
    BY <1>3 DEF DeleteExpired, StoreTypes
  <2>. QED  BY <1>3, <2>1 DEF DeleteExpired, Goto, LocalTypes, StoreTypes, Labels, local, probe
<1>4. ASSUME NEW id \in Ids, Unindex(p, id) PROVE LocalTypes' /\ StoreTypes'
  BY <1>4 DEF Unindex, Goto, LocalTypes, StoreTypes, Labels, db, probe
<1>5. CASE Fetch(p)
  <2>1. Fetched(p) \in SUBSET [id : Ids, score : Int]
    BY DEF Fetched, LocalTypes
  <2>. QED  BY <1>5, <2>1 DEF Fetch, Goto, LocalTypes, StoreTypes, Labels, db
<1>6. CASE Deepen(p)
  <2>1. vec[p] \in Vectors /\ 2 * fetch[p] \in Nat /\ Probe(p, vec[p], 2 * fetch[p])
    BY <1>6 DEF Deepen, Probing, LocalTypes
  <2>2. /\ hits' \in [Callers -> SUBSET [id : Ids, score : Int]]
        /\ exhausted' \in [Callers -> BOOLEAN]
        /\ fetch' \in [Callers -> Nat]
        /\ undisturbed' \in SUBSET Callers
    BY <2>1, ProbeTypes
  <2>. QED  BY <1>6, <2>2 DEF Deepen, LocalTypes, StoreTypes, db
<1>7. CASE Return(p)
  BY <1>7, FinishTypes DEF Return, StoreTypes, db
<1>8. CASE Noop(p)
  <2>1. PICK h \in Duplicates(p) : arg' = [arg EXCEPT ![p] = h.id]
    BY <1>8 DEF Noop
  <2>2. h.id \in Ids
    <3>1. PICK T \in Found(p) : h \in T
      BY DEF Duplicates
    <3>2. h \in hits[p]
      BY <3>1 DEF Found, Nearest
    <3>. QED  BY <3>2 DEF LocalTypes
  <2>. QED  BY <1>8, <2>1, <2>2 DEF Noop, Goto, LocalTypes, StoreTypes, Labels, db, probe
<1>9. ASSUME NEW dropped \in BOOLEAN, InsertProbed(p, dropped) \/ InsertUnprobed(p, dropped)
      PROVE  LocalTypes' /\ StoreTypes'
  <2>1. WriteRow(p, arg[p], vec[p], dropped) /\ UNCHANGED <<issued, began>>
    BY <1>9 DEF InsertProbed, InsertUnprobed
  <2>2. arg[p] \in Ids /\ vec[p] \in Vectors \cup {NoVector}
    BY <1>9 DEF InsertProbed, InsertUnprobed, LocalTypes, Probing
  <2>3. /\ LocalTypes' /\ raced' \in SUBSET Ids /\ undisturbed' \in SUBSET Callers
        /\ rows' \in [Ids -> Row \cup {NoRow}]
        /\ UNCHANGED <<index, victims>>
    BY <2>1, <2>2, WriteRowTypes
  <2>. QED  BY <2>1, <2>3 DEF StoreTypes
<1>10. CASE GiveUp(p)
  BY <1>10, FinishTypes DEF GiveUp, StoreTypes, db
<1>. QED  BY <1>1, <1>2, <1>3, <1>4, <1>5, <1>6, <1>7, <1>8, <1>9, <1>10, PartsNext DEF Step, Mishap

LEMMA OutsideTypes ==
    ASSUME TypeOK, (\E id \in Ids : Retire(id) \/ Raise(id)) \/ Restart
    PROVE  TypeOK'
<1>. LocalTypes /\ StoreTypes
  BY Parts
<1>. SUFFICES LocalTypes' /\ StoreTypes'
  BY PartsNext
<1>1. ASSUME NEW id \in Ids, Retire(id) \/ Raise(id) PROVE LocalTypes' /\ StoreTypes'
  <2>1. rows[id] \in Row
    BY <1>1 DEF Retire, Raise, Present, StoreTypes
  <2>2. rows' \in [Ids -> Row \cup {NoRow}]
    BY <1>1, <2>1 DEF Retire, Raise, StoreTypes, Row
  <2>. QED  BY <1>1, <2>2 DEF Retire, Raise, LocalTypes, StoreTypes, local, probe
<1>2. CASE Restart
  <2>1. LocalTypes'
    BY <1>2 DEF Restart, LocalTypes, Labels
  <2>. QED  BY <1>2, <2>1, LoadedTypes DEF Restart, StoreTypes, db
<1>. QED  BY <1>1, <1>2

-----------------------------------------------------------------------------
(* The callers' locals.                                                    *)

\* A caller whose place asks for nothing.
Resting(p) == at[p] \notin {"encoded", "search", "dedup", "deduped"}

SameLocals(p) == at'[p] = at[p] /\ arg'[p] = arg[p] /\ vec'[p] = vec[p]

\* A step of p alone, which leaves it where nothing is asked, or with what is.
LEMMA ProbingKept ==
    ASSUME Probing, NEW p \in Callers,
           \A q \in Callers \ {p} : SameLocals(q),
           Resting(p)' \/ (/\ at'[p] \in {"search", "dedup"} => vec'[p] \in Vectors
                           /\ at'[p] \in {"encoded", "dedup", "deduped"} => arg'[p] \in Ids)
    PROVE  Probing'
BY DEF Probing, SameLocals, Resting

LEMMA FinishRests ==
    ASSUME TypeOK, NEW p \in Callers, Finish(p)
    PROVE  /\ \A q \in Callers \ {p} : SameLocals(q)
           /\ at'[p] = "idle"
BY DEF TypeOK, Finish, Goto, SameLocals

LEMMA CommittedRests ==
    ASSUME TypeOK, NEW p \in Callers, NEW id, NEW v, NEW dropped \in BOOLEAN,
           Committed(p, id, v, dropped)
    PROVE  /\ \A q \in Callers \ {p} : SameLocals(q)
           /\ IF dropped THEN at'[p] = "idle"
              ELSE at'[p] = "index" /\ arg'[p] = id /\ vec'[p] = v
<1>1. CASE dropped
  BY <1>1, FinishRests DEF Committed
<1>2. CASE ~dropped
  BY <1>2 DEF Committed, TypeOK, Goto, SameLocals
<1>. QED  BY <1>1, <1>2

LEMMA CallProbing ==
    ASSUME TypeOK, Probing, NEW p \in Callers, Call(p)
    PROVE  Probing'
<1>1. ASSUME NEW id \in Ids, NEW dropped \in BOOLEAN, NEW v \in Vectors \cup {NoVector},
             Insert(p, id, v, dropped)
      PROVE  Probing'
  <2>1. Committed(p, id, v, dropped)
    BY <1>1 DEF Insert, WriteRow
  <2>. QED  BY <2>1, CommittedRests, ProbingKept DEF Resting
<1>2. ASSUME NEW id \in Ids, NEW dropped \in BOOLEAN, Delete(p, id, dropped)
      PROVE  Probing'
  <2>1. Committed(p, id, NoVector, dropped)
    BY <1>2 DEF Delete
  <2>. QED  BY <2>1, CommittedRests, ProbingKept DEF Resting
<1>3. ASSUME NEW id \in Ids, NEW v \in Vectors, Encode(p, id, v)
      PROVE  Probing'
  BY <1>3 DEF Encode, Goto, Probing, TypeOK
<1>4. ASSUME NEW id \in Ids, NEW v \in Vectors, InsertDedup(p, id, v)
      PROVE  Probing'
  BY <1>4 DEF InsertDedup, StartProbe, Goto, Probing, TypeOK
<1>5. CASE SelectExpired(p)
  BY <1>5 DEF SelectExpired, Goto, Probing, TypeOK
<1>6. ASSUME NEW v \in Vectors, NEW ns \in Namespaces, Search(p, v, ns)
      PROVE  Probing'
  BY <1>6 DEF Search, StartProbe, Goto, Probing, TypeOK
<1>. QED  BY <1>1, <1>2, <1>3, <1>4, <1>5, <1>6 DEF Call

LEMMA StepProbing ==
    ASSUME TypeOK, Probing, NEW p \in Callers, Step(p) \/ Mishap(p)
    PROVE  Probing'
<1>1. ASSUME Finish(p) PROVE Probing'
  BY <1>1, FinishRests, ProbingKept DEF Resting
<1>2. ASSUME NEW id, NEW v, NEW dropped \in BOOLEAN, Committed(p, id, v, dropped)
      PROVE  Probing'
  BY <1>2, CommittedRests, ProbingKept DEF Resting
<1>3. ASSUME NEW dropped \in BOOLEAN, Update(p, dropped) PROVE Probing'
  BY <1>1, <1>2, <1>3 DEF Update
<1>4. CASE Correct(p) \/ Return(p) \/ GiveUp(p)
  BY <1>1, <1>4 DEF Correct, Return, GiveUp
<1>5. CASE DeleteExpired(p)
  BY <1>5 DEF DeleteExpired, Goto, Probing, TypeOK, local
<1>6. ASSUME NEW id \in Ids, Unindex(p, id) PROVE Probing'
  BY <1>6 DEF Unindex, Goto, Probing, TypeOK
<1>7. CASE Fetch(p)
  BY <1>7 DEF Fetch, Goto, Probing, TypeOK
<1>8. CASE Deepen(p)
  BY <1>8 DEF Deepen, Probing
<1>9. CASE Noop(p)
  BY <1>9 DEF Noop, Goto, Probing, TypeOK
<1>10. ASSUME NEW dropped \in BOOLEAN, InsertProbed(p, dropped) \/ InsertUnprobed(p, dropped)
      PROVE  Probing'
  BY <1>2, <1>10 DEF InsertProbed, InsertUnprobed, WriteRow
<1>. QED  BY <1>3, <1>4, <1>5, <1>6, <1>7, <1>8, <1>9, <1>10 DEF Step, Mishap

LEMMA OutsideProbing ==
    ASSUME TypeOK, Probing, (\E id \in Ids : Retire(id) \/ Raise(id)) \/ Restart
    PROVE  Probing'
BY DEF Probing, Retire, Raise, Restart, local

-----------------------------------------------------------------------------
(* The index and the column.                                               *)

LEMMA LoadedAt ==
    ASSUME NEW id \in Ids
    PROVE  Loaded[id] = IF Present(id) THEN rows[id].vector ELSE NoVector
BY DEF Loaded

LEMMA LoadedAtNext ==
    ASSUME NEW id \in Ids
    PROVE  Loaded'[id] = IF Present(id)' THEN rows'[id].vector ELSE NoVector
BY DEF Loaded

\* It owes the index nothing.
Quiet(p) == at[p] # "index" /\ victims[p] = {}

SameDebt(p) == SameLocals(p) /\ victims'[p] = victims[p]

SameRow(id) ==
    /\ Loaded'[id] = Loaded[id]
    /\ Present(id) /\ rows[id].status = "expired"
          => Present(id)' /\ rows'[id].status = "expired"

\* A step that leaves rows' vectors, the index and every debt as they are.
LEMMA FrameSafe ==
    ASSUME Safe, UNCHANGED <<index, raced>>,
           \A id \in Ids : SameRow(id),
           \A q \in Callers : SameDebt(q) \/ (Quiet(q) /\ Quiet(q)')
    PROVE  Safe'
<1>1. \A q \in Callers, id \in Ids : Owes(q, id)' <=> Owes(q, id)
  BY DEF SameDebt, SameLocals, Quiet, Owes
<1>2. Purging'
  BY DEF Safe, Purging, SameDebt, SameLocals, Quiet
<1>3. OneOwes'
  BY <1>1 DEF Safe, OneOwes
<1>4. OwesTheRow'
  BY DEF Safe, OwesTheRow, SameDebt, SameLocals, Quiet, SameRow
<1>5. IndexAgrees'
  BY <1>1 DEF Safe, IndexAgrees, SameRow
<1>. QED  BY <1>2, <1>3, <1>4, <1>5 DEF Safe

\* A statement of p on one row commits: p owes what the row now holds, or the
\* entry has been contended for.
LEMMA CommitSafe ==
    ASSUME TypeOK, Safe, NEW p \in Callers, NEW id \in Ids, NEW v, NEW dropped \in BOOLEAN,
           Quiet(p), Committed(p, id, v, dropped), UNCHANGED <<index, victims>>,
           Loaded'[id] = v,
           \A i \in Ids \ {id} : SameRow(i)
    PROVE  Safe'
<1>1. /\ \A q \in Callers \ {p} : SameLocals(q)
      /\ IF dropped THEN at'[p] = "idle"
         ELSE at'[p] = "index" /\ arg'[p] = id /\ vec'[p] = v
  BY CommittedRests
<1>2. \A q \in Callers : victims'[q] = victims[q]
  OBVIOUS
<1>3. \A q \in Callers \ {p}, i \in Ids : Owes(q, i)' <=> Owes(q, i)
  BY <1>1, <1>2 DEF Owes, SameLocals
<1>4. \A i \in Ids : ~Owes(p, i) /\ (Owes(p, i)' => i = id)
  BY <1>1, <1>2 DEF Owes, Quiet
<1>5. raced \subseteq raced'
  BY DEF Committed, Races
<1>6. id \notin raced' =>
        /\ ~dropped /\ Owes(p, id)'
        /\ \A q \in Callers \ {p} : ~Owes(q, id)
  BY <1>1 DEF Committed, Races, Owes
<1>7. Purging'
  BY <1>1, <1>2 DEF Safe, Purging, Quiet, SameLocals
<1>8. OneOwes'
  <2>. SUFFICES ASSUME NEW i \in Ids \ raced', NEW q \in Callers, NEW r \in Callers,
                       Owes(q, i)', Owes(r, i)'
                PROVE  q = r
    BY DEF OneOwes
  <2>1. CASE i = id
    BY <1>3, <1>6, <2>1
  <2>2. CASE i # id
    BY <1>3, <1>4, <1>5, <2>2 DEF Safe, OneOwes
  <2>. QED  BY <2>1, <2>2
<1>9. OwesTheRow'
  <2>. SUFFICES ASSUME NEW i \in Ids \ raced', NEW q \in Callers
                PROVE  /\ at'[q] = "index" /\ arg'[q] = i => vec'[q] = Loaded'[i]
                       /\ at'[q] = "unindex" /\ i \in victims'[q] => Loaded'[i] = NoVector
                       /\ at'[q] = "purge" /\ i \in victims'[q] =>
                             /\ Present(i)' /\ rows'[i].status = "expired"
                             /\ index'[i] = Loaded'[i]
    BY DEF OwesTheRow
  <2>1. CASE q = p
    BY <1>1, <1>2, <2>1 DEF Quiet
  <2>2. CASE q # p /\ i = id
    <3>1. ~Owes(q, i)'
      BY <1>3, <1>6, <2>2
    <3>. QED  BY <3>1 DEF Owes
  <2>3. CASE q # p /\ i # id
    BY <1>1, <1>2, <1>5, <2>3 DEF Safe, OwesTheRow, SameLocals, SameRow
  <2>. QED  BY <2>1, <2>2, <2>3
<1>10. IndexAgrees'
  <2>. SUFFICES ASSUME NEW i \in Ids \ raced', \A q \in Callers : ~Owes(q, i)'
                PROVE  index'[i] = Loaded'[i]
    BY DEF IndexAgrees
  <2>1. i # id
    BY <1>6
  <2>2. \A q \in Callers : ~Owes(q, i)
    BY <1>3, <1>4
  <2>. QED  BY <1>5, <2>1, <2>2 DEF Safe, IndexAgrees, SameRow
<1>. QED  BY <1>7, <1>8, <1>9, <1>10 DEF Safe

LEMMA WriteRowSafe ==
    ASSUME TypeOK, Safe, NEW p \in Callers, NEW id \in Ids,
           NEW v \in Vectors \cup {NoVector}, NEW dropped \in BOOLEAN,
           Quiet(p), WriteRow(p, id, v, dropped)
    PROVE  Safe'
<1>1. rows' = [rows EXCEPT ![id] = [vector |-> v, status |-> "live"]]
  BY DEF WriteRow
<1>2. rows'[id] = [vector |-> v, status |-> "live"] /\ \A i \in Ids \ {id} : rows'[i] = rows[i]
  BY <1>1 DEF TypeOK
<1>3. Loaded'[id] = v
  <2>1. [vector |-> v, status |-> "live"] # NoRow
    BY VectorStoreAssumption DEF Row
  <2>. QED  BY <1>2, <2>1, LoadedAtNext DEF Present
<1>4. \A i \in Ids \ {id} : SameRow(i)
  BY <1>2, LoadedAt, LoadedAtNext DEF SameRow, Present
<1>. QED  BY <1>3, <1>4, CommitSafe DEF WriteRow

LEMMA UpdateSafe ==
    ASSUME TypeOK, Probing, Safe, NEW p \in Callers, NEW dropped \in BOOLEAN, Update(p, dropped)
    PROVE  Safe'
<1>1. Quiet(p) /\ arg[p] \in Ids /\ vec[p] \in Vectors \cup {NoVector}
  BY DEF Update, Quiet, Probing, Safe, Purging, TypeOK
<1>2. CASE Present(arg[p])
  <2>1. PICK s \in {rows[arg[p]].status} \cup
                   (IF rows[arg[p]].status = "expired" THEN {"hidden"} ELSE {}) :
             rows' = [rows EXCEPT ![arg[p]] = [vector |-> vec[p], status |-> s]]
    BY <1>2 DEF Update
  <2>2. rows[arg[p]] \in Row
    BY <1>1, <1>2 DEF Present, TypeOK
  <2>3. [vector |-> vec[p], status |-> s] # NoRow
    BY <1>1, <2>1, <2>2, VectorStoreAssumption DEF Row
  <2>4. /\ rows'[arg[p]] = [vector |-> vec[p], status |-> s]
        /\ \A i \in Ids \ {arg[p]} : rows'[i] = rows[i]
    BY <1>1, <2>1 DEF TypeOK
  <2>5. Loaded'[arg[p]] = vec[p]
    BY <1>1, <2>3, <2>4, LoadedAtNext DEF Present
  <2>6. \A i \in Ids \ {arg[p]} : SameRow(i)
    BY <2>4, LoadedAt, LoadedAtNext DEF SameRow, Present
  <2>7. Committed(p, arg[p], vec[p], dropped) /\ UNCHANGED <<index, victims>>
    BY <1>2 DEF Update
  <2>. QED  BY <1>1, <2>5, <2>6, <2>7, CommitSafe
<1>3. CASE ~Present(arg[p])
  <2>1. Finish(p) /\ UNCHANGED <<rows, raced, index, victims>>
    BY <1>3 DEF Update
  <2>2. \A id \in Ids : SameRow(id)
    BY <2>1, LoadedAt, LoadedAtNext DEF SameRow, Present
  <2>3. \A q \in Callers : SameDebt(q) \/ (Quiet(q) /\ Quiet(q)')
    BY <1>1, <2>1, FinishRests DEF SameDebt, Quiet
  <2>. QED  BY <2>1, <2>2, <2>3, FrameSafe
<1>. QED  BY <1>2, <1>3

\* A step of p that touches neither table nor index and begins and ends
\* without a debt.
LEMMA QuietSafe ==
    ASSUME TypeOK, Safe, NEW p \in Callers, Quiet(p), Quiet(p)',
           UNCHANGED <<rows, index, raced>>,
           \A q \in Callers \ {p} : SameDebt(q)
    PROVE  Safe'
<1>1. \A id \in Ids : SameRow(id)
  BY LoadedAt, LoadedAtNext DEF SameRow, Present
<1>. QED  BY <1>1, FrameSafe

LEMMA CorrectSafe ==
    ASSUME TypeOK, Safe, NEW p \in Callers, Correct(p)
    PROVE  Safe'
<1>1. /\ \A q \in Callers \ {p} : SameLocals(q)
      /\ at'[p] = "idle" /\ victims' = victims /\ raced' = raced
      /\ index' = [index EXCEPT ![arg[p]] = vec[p]]
      /\ at[p] = "index" /\ victims[p] = {}
  BY FinishRests DEF Correct, Safe, Purging
<1>2. \A id \in Ids : SameRow(id)
  BY LoadedAt, LoadedAtNext DEF Correct, db, SameRow, Present
<1>3. \A q \in Callers \ {p}, i \in Ids : Owes(q, i)' <=> Owes(q, i)
  BY <1>1 DEF Owes, SameLocals
<1>4. \A i \in Ids : ~Owes(p, i)' /\ (Owes(p, i) <=> arg[p] = i)
  BY <1>1 DEF Owes
<1>5. \A i \in Ids : index'[i] = IF i = arg[p] THEN vec[p] ELSE index[i]
  BY <1>1 DEF TypeOK
<1>6. Purging'
  BY <1>1 DEF Safe, Purging, SameLocals
<1>7. OneOwes'
  BY <1>1, <1>3, <1>4 DEF Safe, OneOwes
<1>8. OwesTheRow'
  <2>. SUFFICES ASSUME NEW i \in Ids \ raced, NEW q \in Callers
                PROVE  /\ at'[q] = "index" /\ arg'[q] = i => vec'[q] = Loaded'[i]
                       /\ at'[q] = "unindex" /\ i \in victims'[q] => Loaded'[i] = NoVector
                       /\ at'[q] = "purge" /\ i \in victims'[q] =>
                             /\ Present(i)' /\ rows'[i].status = "expired"
                             /\ index'[i] = Loaded'[i]
    BY <1>1 DEF OwesTheRow
  <2>1. CASE q = p
    BY <1>1, <2>1
  <2>2. CASE q # p
    <3>1. i \in victims[q] => i # arg[p]
      BY <1>4, <2>2 DEF Safe, OneOwes, Owes
    <3>2. /\ at[q] = "index" /\ arg[q] = i => vec[q] = Loaded[i]
          /\ at[q] = "unindex" /\ i \in victims[q] => Loaded[i] = NoVector
          /\ at[q] = "purge" /\ i \in victims[q] =>
                Present(i) /\ rows[i].status = "expired" /\ index[i] = Loaded[i]
      BY DEF Safe, OwesTheRow
    <3>3. SameLocals(q) /\ SameRow(i)
      BY <1>1, <1>2, <2>2
    <3>. QED  BY <1>1, <1>5, <3>1, <3>2, <3>3 DEF SameLocals, SameRow
  <2>. QED  BY <2>1, <2>2
<1>9. IndexAgrees'
  <2>. SUFFICES ASSUME NEW i \in Ids \ raced, \A q \in Callers : ~Owes(q, i)'
                PROVE  index'[i] = Loaded'[i]
    BY <1>1 DEF IndexAgrees
  <2>1. CASE i = arg[p]
    <3>1. vec[p] = Loaded[i]
      BY <1>1, <2>1 DEF Safe, OwesTheRow
    <3>. QED  BY <1>2, <1>5, <2>1, <3>1 DEF SameRow
  <2>2. CASE i # arg[p]
    <3>1. \A q \in Callers : ~Owes(q, i)
      BY <1>3, <1>4, <2>2
    <3>2. index[i] = Loaded[i]
      BY <3>1 DEF Safe, IndexAgrees
    <3>. QED  BY <1>2, <1>5, <2>2, <3>2 DEF SameRow
  <2>. QED  BY <2>1, <2>2
<1>. QED  BY <1>6, <1>7, <1>8, <1>9 DEF Safe

LEMMA SelectSafe ==
    ASSUME TypeOK, Safe, NEW p \in Callers, SelectExpired(p)
    PROVE  Safe'
<1>. DEFINE Expired == {id \in Ids : Present(id) /\ rows[id].status = "expired"}
<1>1. /\ victims' = [victims EXCEPT ![p] = Expired]
      /\ raced' = raced \cup {id \in Expired : \E q \in Callers \ {p} : Owes(q, id)}
      /\ at' = [at EXCEPT ![p] = "purge"]
      /\ UNCHANGED <<rows, index, arg, vec>>
      /\ at[p] = "idle"
  BY DEF SelectExpired, Begin, Goto, db
<1>2. victims[p] = {} /\ victims'[p] = Expired /\ at'[p] = "purge"
  BY <1>1 DEF Safe, Purging, TypeOK
<1>3. \A q \in Callers \ {p} : SameDebt(q)
  BY <1>1 DEF SameDebt, SameLocals, TypeOK
<1>4. \A id \in Ids : SameRow(id) /\ (Present(id)' <=> Present(id))
  BY <1>1, LoadedAt, LoadedAtNext DEF SameRow, Present
<1>5. \A q \in Callers \ {p}, i \in Ids : Owes(q, i)' <=> Owes(q, i)
  BY <1>3 DEF Owes, SameDebt, SameLocals
<1>6. \A i \in Ids : ~Owes(p, i) /\ (Owes(p, i)' <=> i \in Expired)
  BY <1>1, <1>2 DEF Owes
<1>7. \A i \in Expired \ raced' : \A q \in Callers : ~Owes(q, i)
  BY <1>1, <1>6
<1>8. Purging'
  BY <1>2, <1>3 DEF Safe, Purging, SameDebt, SameLocals
<1>9. OneOwes'
  BY <1>1, <1>5, <1>6, <1>7 DEF Safe, OneOwes
<1>10. OwesTheRow'
  <2>. SUFFICES ASSUME NEW i \in Ids \ raced', NEW q \in Callers
                PROVE  /\ at'[q] = "index" /\ arg'[q] = i => vec'[q] = Loaded'[i]
                       /\ at'[q] = "unindex" /\ i \in victims'[q] => Loaded'[i] = NoVector
                       /\ at'[q] = "purge" /\ i \in victims'[q] =>
                             /\ Present(i)' /\ rows'[i].status = "expired"
                             /\ index'[i] = Loaded'[i]
    BY DEF OwesTheRow
  <2>1. CASE q = p
    <3>1. i \in Expired => index[i] = Loaded[i]
      BY <1>1, <1>7 DEF Safe, IndexAgrees
    <3>. QED  BY <1>1, <1>2, <1>4, <2>1, <3>1 DEF SameRow
  <2>2. CASE q # p
    <3>1. i \in Ids \ raced
      BY <1>1
    <3>2. SameDebt(q) /\ SameRow(i)
      BY <1>3, <1>4, <2>2
    <3>. QED  BY <1>1, <3>1, <3>2 DEF Safe, OwesTheRow, SameDebt, SameLocals, SameRow
  <2>. QED  BY <2>1, <2>2
<1>11. IndexAgrees'
  <2>. SUFFICES ASSUME NEW i \in Ids \ raced', \A q \in Callers : ~Owes(q, i)'
                PROVE  index'[i] = Loaded'[i]
    BY DEF IndexAgrees
  <2>1. i \in Ids \ raced /\ \A q \in Callers : ~Owes(q, i)
    BY <1>1, <1>5, <1>6
  <2>2. index[i] = Loaded[i]
    BY <2>1 DEF Safe, IndexAgrees
  <2>. QED  BY <1>1, <1>4, <2>2 DEF SameRow
<1>. QED  BY <1>8, <1>9, <1>10, <1>11 DEF Safe

LEMMA DeleteExpiredSafe ==
    ASSUME TypeOK, Safe, NEW p \in Callers, DeleteExpired(p)
    PROVE  Safe'
<1>. DEFINE Gone == {id \in victims[p] : Present(id) /\ rows[id].status = "expired"}
<1>1. /\ \A id \in Ids : rows'[id] = IF id \in Gone THEN NoRow ELSE rows[id]
      /\ at' = [at EXCEPT ![p] = "unindex"]
      /\ UNCHANGED <<index, arg, vec, victims, raced>>
      /\ at[p] = "purge"
  BY DEF DeleteExpired, Goto, local
<1>2. at'[p] = "unindex"
  BY <1>1 DEF TypeOK
<1>3. \A q \in Callers \ {p} : SameDebt(q)
  BY <1>1 DEF SameDebt, SameLocals, TypeOK
<1>4. \A id \in Ids : IF id \in Gone THEN Loaded'[id] = NoVector ELSE SameRow(id)
  BY <1>1, LoadedAt, LoadedAtNext DEF SameRow, Present
<1>5. \A q \in Callers, i \in Ids : Owes(q, i)' <=> Owes(q, i)
  BY <1>1, <1>2, <1>3 DEF Owes, SameDebt, SameLocals
<1>6. \A i \in Ids \ raced : i \in Gone <=> i \in victims[p]
  BY <1>1 DEF Safe, OwesTheRow
<1>7. \A i \in Ids \ raced, q \in Callers \ {p} : Owes(q, i) => i \notin Gone
  BY DEF Safe, OneOwes, Owes
<1>8. Purging'
  BY <1>1, <1>2, <1>3 DEF Safe, Purging, SameDebt, SameLocals
<1>9. OneOwes'
  BY <1>1, <1>5 DEF Safe, OneOwes
<1>10. OwesTheRow'
  <2>. SUFFICES ASSUME NEW i \in Ids \ raced, NEW q \in Callers
                PROVE  /\ at'[q] = "index" /\ arg'[q] = i => vec'[q] = Loaded'[i]
                       /\ at'[q] = "unindex" /\ i \in victims'[q] => Loaded'[i] = NoVector
                       /\ at'[q] = "purge" /\ i \in victims'[q] =>
                             /\ Present(i)' /\ rows'[i].status = "expired"
                             /\ index'[i] = Loaded'[i]
    BY <1>1 DEF OwesTheRow
  <2>1. CASE q = p
    BY <1>1, <1>2, <1>4, <1>6, <2>1
  <2>2. CASE q # p
    <3>1. /\ at[q] = "index" /\ arg[q] = i => i \notin Gone
          /\ i \in victims[q] => i \notin Gone
      BY <1>7, <2>2 DEF Owes
    <3>2. SameDebt(q)
      BY <1>3, <2>2
    <3>. QED  BY <1>1, <1>4, <3>1, <3>2 DEF Safe, OwesTheRow, SameDebt, SameLocals, SameRow
  <2>. QED  BY <2>1, <2>2
<1>11. IndexAgrees'
  <2>. SUFFICES ASSUME NEW i \in Ids \ raced, \A q \in Callers : ~Owes(q, i)'
                PROVE  index'[i] = Loaded'[i]
    BY <1>1 DEF IndexAgrees
  <2>1. i \notin Gone /\ \A q \in Callers : ~Owes(q, i)
    BY <1>5 DEF Owes
  <2>2. index[i] = Loaded[i]
    BY <2>1 DEF Safe, IndexAgrees
  <2>. QED  BY <1>1, <1>4, <2>1, <2>2 DEF SameRow
<1>. QED  BY <1>8, <1>9, <1>10, <1>11 DEF Safe

LEMMA UnindexSafe ==
    ASSUME TypeOK, Safe, NEW p \in Callers, NEW id \in Ids, Unindex(p, id)
    PROVE  Safe'
<1>1. /\ index' = [index EXCEPT ![id] = NoVector]
      /\ victims' = [victims EXCEPT ![p] = @ \ {id}]
      /\ at' = [at EXCEPT ![p] = IF victims[p] = {id} THEN "idle" ELSE "unindex"]
      /\ UNCHANGED <<rows, arg, vec, raced>>
      /\ at[p] = "unindex" /\ id \in victims[p]
  BY DEF Unindex, Goto, db
<1>2. /\ at'[p] \in {"idle", "unindex"} /\ victims'[p] = victims[p] \ {id}
      /\ victims'[p] # {} => at'[p] = "unindex"
  BY <1>1 DEF TypeOK
<1>3. \A q \in Callers \ {p} : SameDebt(q)
  BY <1>1 DEF SameDebt, SameLocals, TypeOK
<1>4. \A i \in Ids : SameRow(i) /\ (Present(i)' <=> Present(i))
  BY <1>1, LoadedAt, LoadedAtNext DEF SameRow, Present
<1>5. \A q \in Callers, i \in Ids : Owes(q, i)' <=> Owes(q, i) /\ ~(q = p /\ i = id)
  BY <1>1, <1>2, <1>3 DEF Owes, SameDebt, SameLocals
<1>6. \A i \in Ids : index'[i] = IF i = id THEN NoVector ELSE index[i]
  BY <1>1 DEF TypeOK
<1>7. id \notin raced => Loaded[id] = NoVector /\ \A q \in Callers \ {p} : ~Owes(q, id)
  BY <1>1 DEF Safe, OwesTheRow, OneOwes, Owes
<1>8. Purging'
  BY <1>2, <1>3 DEF Safe, Purging, SameDebt, SameLocals
<1>9. OneOwes'
  BY <1>1, <1>5 DEF Safe, OneOwes
<1>10. OwesTheRow'
  <2>. SUFFICES ASSUME NEW i \in Ids \ raced, NEW q \in Callers
                PROVE  /\ at'[q] = "index" /\ arg'[q] = i => vec'[q] = Loaded'[i]
                       /\ at'[q] = "unindex" /\ i \in victims'[q] => Loaded'[i] = NoVector
                       /\ at'[q] = "purge" /\ i \in victims'[q] =>
                             /\ Present(i)' /\ rows'[i].status = "expired"
                             /\ index'[i] = Loaded'[i]
    BY <1>1 DEF OwesTheRow
  <2>1. CASE q = p
    BY <1>1, <1>2, <1>4, <2>1 DEF Safe, OwesTheRow, SameRow
  <2>2. CASE q # p
    <3>1. i \in victims[q] => i # id
      BY <1>7, <2>2 DEF Owes
    <3>2. SameDebt(q) /\ SameRow(i)
      BY <1>3, <1>4, <2>2
    <3>. QED  BY <1>6, <3>1, <3>2 DEF Safe, OwesTheRow, SameDebt, SameLocals, SameRow
  <2>. QED  BY <2>1, <2>2
<1>11. IndexAgrees'
  <2>. SUFFICES ASSUME NEW i \in Ids \ raced, \A q \in Callers : ~Owes(q, i)'
                PROVE  index'[i] = Loaded'[i]
    BY <1>1 DEF IndexAgrees
  <2>1. CASE i = id
    BY <1>4, <1>6, <1>7, <2>1 DEF SameRow
  <2>2. CASE i # id
    <3>1. index[i] = Loaded[i]
      BY <1>5, <2>2 DEF Safe, IndexAgrees
    <3>. QED  BY <1>4, <1>6, <2>2, <3>1 DEF SameRow
  <2>. QED  BY <2>1, <2>2
<1>. QED  BY <1>8, <1>9, <1>10, <1>11 DEF Safe

\* A purge given up before it deletes found its entries in agreement.
LEMMA GiveUpSafe ==
    ASSUME TypeOK, Safe, NEW p \in Callers, GiveUp(p)
    PROVE  Safe'
<1>1. /\ \A q \in Callers \ {p} : SameLocals(q)
      /\ at'[p] = "idle" /\ victims' = [victims EXCEPT ![p] = {}]
      /\ UNCHANGED <<rows, index, raced>>
      /\ at[p] # "index" /\ at[p] # "unindex"
  BY FinishRests DEF GiveUp, db
<1>2. victims'[p] = {} /\ \A q \in Callers \ {p} : SameDebt(q)
  BY <1>1 DEF TypeOK, SameDebt
<1>3. \A i \in Ids : SameRow(i) /\ (Present(i)' <=> Present(i))
  BY <1>1, LoadedAt, LoadedAtNext DEF SameRow, Present
<1>4. \A q \in Callers, i \in Ids : Owes(q, i)' <=> Owes(q, i) /\ q # p
  BY <1>1, <1>2 DEF Owes, SameDebt, SameLocals
<1>5. \A i \in Ids \ raced : Owes(p, i) => index[i] = Loaded[i]
  BY <1>1 DEF Safe, Purging, OwesTheRow, Owes
<1>6. Purging'
  BY <1>2 DEF Safe, Purging, SameDebt, SameLocals
<1>7. OneOwes'
  BY <1>1, <1>4 DEF Safe, OneOwes
<1>8. OwesTheRow'
  BY <1>1, <1>2, <1>3 DEF Safe, OwesTheRow, SameDebt, SameLocals, SameRow
<1>9. IndexAgrees'
  <2>. SUFFICES ASSUME NEW i \in Ids \ raced, \A q \in Callers : ~Owes(q, i)'
                PROVE  index'[i] = Loaded'[i]
    BY <1>1 DEF IndexAgrees
  <2>1. index[i] = Loaded[i]
    BY <1>4, <1>5 DEF Safe, IndexAgrees
  <2>. QED  BY <1>1, <1>3, <2>1 DEF SameRow
<1>. QED  BY <1>6, <1>7, <1>8, <1>9 DEF Safe

LEMMA CallSafe ==
    ASSUME TypeOK, Safe, NEW p \in Callers, Call(p)
    PROVE  Safe'
<1>q. at[p] = "idle" => Quiet(p)
  BY DEF Safe, Purging, Quiet, TypeOK
<1>1. ASSUME NEW id \in Ids, NEW dropped \in BOOLEAN, NEW v \in Vectors \cup {NoVector},
             Insert(p, id, v, dropped)
      PROVE  Safe'
  BY <1>q, <1>1, WriteRowSafe DEF Insert, Begin
<1>2. ASSUME NEW id \in Ids, NEW dropped \in BOOLEAN, Delete(p, id, dropped)
      PROVE  Safe'
  <2>1. Committed(p, id, NoVector, dropped) /\ UNCHANGED <<index, victims>> /\ Quiet(p)
    BY <1>q, <1>2 DEF Delete, Begin
  <2>2. rows'[id] = NoRow /\ \A i \in Ids \ {id} : rows'[i] = rows[i]
    BY <1>2 DEF Delete, TypeOK
  <2>3. Loaded'[id] = NoVector /\ \A i \in Ids \ {id} : SameRow(i)
    BY <2>2, LoadedAt, LoadedAtNext DEF SameRow, Present
  <2>. QED  BY <2>1, <2>3, CommitSafe
<1>3. ASSUME NEW id \in Ids, NEW v \in Vectors, Encode(p, id, v)
      PROVE  Safe'
  BY <1>q, <1>3, QuietSafe DEF Encode, Begin, Goto, Quiet, SameDebt, SameLocals, TypeOK, db
<1>4. ASSUME NEW id \in Ids, NEW v \in Vectors, InsertDedup(p, id, v)
      PROVE  Safe'
  BY <1>q, <1>4, QuietSafe
     DEF InsertDedup, StartProbe, Begin, Goto, Quiet, SameDebt, SameLocals, TypeOK
<1>5. CASE SelectExpired(p)
  BY <1>5, SelectSafe
<1>6. ASSUME NEW v \in Vectors, NEW ns \in Namespaces, Search(p, v, ns)
      PROVE  Safe'
  BY <1>q, <1>6, QuietSafe
     DEF Search, StartProbe, Begin, Goto, Quiet, SameDebt, SameLocals, TypeOK
<1>. QED  BY <1>1, <1>2, <1>3, <1>4, <1>5, <1>6 DEF Call

LEMMA StepSafe ==
    ASSUME TypeOK, Probing, Safe, NEW p \in Callers, Step(p) \/ Mishap(p)
    PROVE  Safe'
<1>q. at[p] \notin {"index", "purge", "unindex"} => Quiet(p)
  BY DEF Safe, Purging, Quiet
<1>1. ASSUME NEW dropped \in BOOLEAN, Update(p, dropped) PROVE Safe'
  BY <1>1, UpdateSafe
<1>2. CASE Correct(p)
  BY <1>2, CorrectSafe
<1>3. CASE DeleteExpired(p)
  BY <1>3, DeleteExpiredSafe
<1>4. ASSUME NEW id \in Ids, Unindex(p, id) PROVE Safe'
  BY <1>4, UnindexSafe
<1>5. CASE Fetch(p)
  BY <1>q, <1>5, QuietSafe DEF Fetch, Goto, Quiet, SameDebt, SameLocals, TypeOK, db
<1>6. CASE Deepen(p)
  BY <1>q, <1>6, QuietSafe DEF Deepen, Quiet, SameDebt, SameLocals, db
<1>7. CASE Return(p)
  <2>1. Finish(p) /\ UNCHANGED <<rows, index, raced, victims>> /\ Quiet(p)
    BY <1>q, <1>7 DEF Return, db
  <2>2. Quiet(p)' /\ \A q \in Callers \ {p} : SameDebt(q)
    BY <2>1, FinishRests DEF Quiet, SameDebt
  <2>. QED  BY <2>1, <2>2, QuietSafe
<1>8. CASE Noop(p)
  <2>1. PICK h \in Duplicates(p) : arg' = [arg EXCEPT ![p] = h.id]
    BY <1>8 DEF Noop
  <2>. QED  BY <1>q, <1>8, <2>1, QuietSafe
            DEF Noop, Goto, Quiet, SameDebt, SameLocals, TypeOK, db
<1>9. ASSUME NEW dropped \in BOOLEAN, InsertProbed(p, dropped) \/ InsertUnprobed(p, dropped)
      PROVE  Safe'
  <2>1. WriteRow(p, arg[p], vec[p], dropped) /\ Quiet(p)
    BY <1>q, <1>9 DEF InsertProbed, InsertUnprobed
  <2>2. arg[p] \in Ids /\ vec[p] \in Vectors \cup {NoVector}
    BY <1>9 DEF InsertProbed, InsertUnprobed, Probing, TypeOK
  <2>. QED  BY <2>1, <2>2, WriteRowSafe
<1>10. CASE GiveUp(p)
  BY <1>10, GiveUpSafe
<1>. QED  BY <1>1, <1>2, <1>3, <1>4, <1>5, <1>6, <1>7, <1>8, <1>9, <1>10 DEF Step, Mishap

\* A purge that selected a row which is raised meanwhile will leave it in the
\* table and still drop its entry: its id counts as contended for.
LEMMA RaiseSafe ==
    ASSUME TypeOK, Safe, NEW id \in Ids, Raise(id)
    PROVE  Safe'
<1>1. rows[id] \in Row /\ raced \subseteq raced' /\ UNCHANGED <<index, at, arg, vec, victims>>
  BY DEF Raise, Present, TypeOK, local
<1>2. /\ rows'[id] \in Row /\ rows'[id].vector = rows[id].vector
      /\ \A i \in Ids \ {id} : rows'[i] = rows[i]
  BY <1>1 DEF Raise, Row, TypeOK
<1>3. \A i \in Ids : Loaded'[i] = Loaded[i] /\ (Present(i)' <=> Present(i))
  BY <1>1, <1>2, LoadedAt, LoadedAtNext, VectorStoreAssumption DEF Present
<1>4. \A q \in Callers, i \in Ids : Owes(q, i)' <=> Owes(q, i)
  BY <1>1 DEF Owes
<1>5. id \notin raced' => \A q \in Callers : id \notin victims[q]
  BY DEF Raise
<1>6. Purging'
  BY <1>1 DEF Safe, Purging
<1>7. OneOwes'
  BY <1>1, <1>4 DEF Safe, OneOwes
<1>8. OwesTheRow'
  BY <1>1, <1>2, <1>3, <1>5 DEF Safe, OwesTheRow
<1>9. IndexAgrees'
  BY <1>1, <1>3, <1>4 DEF Safe, IndexAgrees
<1>. QED  BY <1>6, <1>7, <1>8, <1>9 DEF Safe

LEMMA OutsideSafe ==
    ASSUME TypeOK, Safe, (\E id \in Ids : Retire(id) \/ Raise(id)) \/ Restart
    PROVE  Safe'
<1>1. ASSUME NEW id \in Ids, Retire(id) PROVE Safe'
  <2>1. rows[id] \in Row /\ rows[id].status \in {"live", "hidden"}
    BY <1>1 DEF Retire, Present, TypeOK
  <2>2. /\ rows'[id] \in Row /\ rows'[id].vector = rows[id].vector
        /\ \A i \in Ids \ {id} : rows'[i] = rows[i]
    BY <1>1, <2>1 DEF Retire, Row, TypeOK
  <2>3. \A i \in Ids : SameRow(i)
    BY <2>1, <2>2, LoadedAt, LoadedAtNext, VectorStoreAssumption DEF SameRow, Present
  <2>4. \A q \in Callers : SameDebt(q)
    BY <1>1 DEF Retire, SameDebt, SameLocals, local
  <2>. QED  BY <1>1, <2>3, <2>4, FrameSafe DEF Retire
<1>2. CASE Restart
  <2>1. \A q \in Callers : at'[q] = "idle" /\ victims'[q] = {}
    BY <1>2 DEF Restart
  <2>2. \A id \in Ids : index'[id] = Loaded'[id]
    BY <1>2, LoadedAt, LoadedAtNext DEF Restart, db, Present
  <2>. QED  BY <2>1, <2>2 DEF Safe, Purging, OneOwes, OwesTheRow, IndexAgrees, Owes
<1>3. ASSUME NEW id \in Ids, Raise(id) PROVE Safe'
  BY <1>3, RaiseSafe
<1>. QED  BY <1>1, <1>2, <1>3

-----------------------------------------------------------------------------
(* Searches.                                                               *)

Hit(q, id) == [id |-> id, score |-> Scores(q)[id]]

HitsOf(q, S) == {Hit(q, id) : id \in S}

Candidates(p) == {id \in Indexed : Live(id) /\ NamespaceOf[id] = bucket[p]}

\* best are all the elements of S, or k of them and more, which nothing of S
\* outside of best outscores.
Covers(best, S, k, score) ==
    /\ best \subseteq S
    /\ \/ best = S
       \/ /\ Cardinality(best) >= k
          /\ \A x \in best, y \in S \ best : score[x] >= score[y]

\* An undisturbed caller has what its probe found; then, once the rows yield
\* enough of it, hits that cover the bucket as deep as it was asked to.
Probed(p) ==
    \E found \in Nearest(Indexed, fetch[p], Scores(vec[p])) :
        /\ hits[p] = HitsOf(vec[p], found)
        /\ exhausted[p] = (Cardinality(found) < fetch[p])

Covered(p) ==
    \E best \in SUBSET Indexed :
        /\ hits[p] = HitsOf(vec[p], best)
        /\ Covers(best, Candidates(p), Wanted(p), Scores(vec[p]))

Exact ==
    \A p \in undisturbed :
        /\ at[p] \in {"search", "dedup"} => Probed(p)
        /\ at[p] \in {"searched", "deduped"} => Covered(p)

\* What an exact search found, cut down to the part a filter lets through,
\* covers that part.
LEMMA FilteredCovers ==
    ASSUME NEW S, IsFiniteSet(S), NEW depth \in Nat, NEW k \in Nat, NEW score,
           NEW found \in Nearest(S, depth, score), NEW part \in SUBSET S,
           Cardinality(found \cap part) >= k \/ Cardinality(found) < depth
    PROVE  Covers(found \cap part, part, k, score)
<1>1. found \subseteq S /\ \A x \in found, y \in S \ found : score[x] >= score[y]
  BY DEF Nearest
<1>2. Cardinality(found) \in Nat
  BY <1>1, FS_Subset, FS_CardinalityType
<1>3. CASE Cardinality(found \cap part) >= k
  BY <1>1, <1>3 DEF Covers
<1>4. CASE Cardinality(found) < depth
  <2>1. found = S
    BY <1>2, <1>4 DEF Nearest
  <2>. QED  BY <2>1 DEF Covers
<1>. QED  BY <1>3, <1>4

\* The best k of elements that cover S are the best k of S.
LEMMA CoveredNearest ==
    ASSUME NEW S, IsFiniteSet(S), NEW k \in Nat, NEW score,
           NEW best, Covers(best, S, k, score), NEW T \in Nearest(best, k, score)
    PROVE  T \in Nearest(S, k, score)
<1>1. best \subseteq S /\ T \subseteq best
      /\ Cardinality(best) \in Nat /\ Cardinality(T) \in Nat
  BY FS_Subset, FS_CardinalityType DEF Covers, Nearest
<1>2. CASE best = S
  BY <1>2
<1>3. CASE best # S
  <2>1. /\ Cardinality(best) >= k
        /\ \A x \in best, y \in S \ best : score[x] >= score[y]
    BY <1>3 DEF Covers
  <2>2. Cardinality(T) = k
    BY <1>1, <2>1 DEF Nearest
  <2>3. \A x \in T, y \in S \ T : score[x] >= score[y]
    BY <1>1, <2>1 DEF Nearest
  <2>. QED  BY <1>1, <2>2, <2>3 DEF Nearest
<1>. QED  BY <1>2, <1>3

\* Hits carry their ids: as many hits as ids.
LEMMA HitsCount ==
    ASSUME StoreTypes, NEW q, NEW S \in SUBSET Ids
    PROVE  Cardinality(HitsOf(q, S)) = Cardinality(S) /\ {h.id : h \in HitsOf(q, S)} = S
<1>1. {h.id : h \in HitsOf(q, S)} = S
  <2>1. \A id \in S : Hit(q, id) \in HitsOf(q, S) /\ Hit(q, id).id = id
    BY DEF HitsOf, Hit
  <2>2. \A h \in HitsOf(q, S) : \E id \in S : h = Hit(q, id)
    BY DEF HitsOf
  <2>. QED  BY <2>1, <2>2, Zenon
<1>2. IsFiniteSet(S)
  BY FS_Subset, VectorStoreAssumption
<1>. DEFINE f == [id \in S |-> Hit(q, id)]
<1>3. f \in Bijection(S, HitsOf(q, S))
  <2>1. f \in [S -> HitsOf(q, S)] /\ \A h \in HitsOf(q, S) : \E id \in S : f[id] = h
    BY DEF HitsOf
  <2>2. \A x, y \in S : f[x] = f[y] => x = y
    BY DEF Hit
  <2>. QED  BY <2>1, <2>2, Fun_IsBij
<1>4. ExistsBijection(S, HitsOf(q, S))
  BY <1>3 DEF ExistsBijection
<1>. QED  BY <1>1, <1>2, <1>4, FS_Bijection

\* What a search has in hand.
SameSearch(p) ==
    /\ at'[p] = at[p] /\ vec'[p] = vec[p] /\ bucket'[p] = bucket[p]
    /\ fetch'[p] = fetch[p] /\ hits'[p] = hits[p] /\ exhausted'[p] = exhausted[p]

LEMMA SameSearchKept ==
    ASSUME NEW p \in Callers, SameSearch(p), UNCHANGED <<rows, index>>
    PROVE  Probed(p)' = Probed(p) /\ Covered(p)' = Covered(p)
<1>1. UNCHANGED <<Indexed, Scores(vec[p]), Candidates(p), Wanted(p)>>
  BY DEF SameSearch, Indexed, Scores, Candidates, Wanted, Live, Present
<1>2. \A S \in SUBSET Indexed : HitsOf(vec[p], S)' = HitsOf(vec[p], S)
  BY <1>1 DEF HitsOf, Hit
<1>3. \A found \in Nearest(Indexed, fetch[p], Scores(vec[p])) : found \in SUBSET Indexed
  BY DEF Nearest
<1>. QED  BY <1>1, <1>2, <1>3 DEF Probed, Covered, SameSearch

\* A step of p alone that touches neither table nor index.
LEMMA ExactKept ==
    ASSUME Exact, NEW p \in Callers, undisturbed \in SUBSET Callers,
           UNCHANGED <<rows, index>>, undisturbed' \subseteq undisturbed \cup {p},
           \A q \in Callers \ {p} : SameSearch(q),
           p \in undisturbed' =>
               /\ at'[p] \in {"search", "dedup"} => Probed(p)'
               /\ at'[p] \in {"searched", "deduped"} => Covered(p)'
    PROVE  Exact'
<1>. SUFFICES ASSUME NEW q \in undisturbed'
              PROVE  /\ at'[q] \in {"search", "dedup"} => Probed(q)'
                     /\ at'[q] \in {"searched", "deduped"} => Covered(q)'
  BY DEF Exact
<1>1. CASE q = p
  BY <1>1
<1>2. CASE q # p
  BY <1>2, SameSearchKept DEF Exact, SameSearch
<1>. QED  BY <1>1, <1>2

LEMMA FinishExact ==
    ASSUME TypeOK, Exact, NEW p \in Callers, Finish(p),
           UNCHANGED <<rows, index, undisturbed>>
    PROVE  Exact'
<1>1. at'[p] = "idle" /\ \A q \in Callers \ {p} : SameSearch(q)
  BY DEF TypeOK, Finish, Goto, SameSearch
<1>. QED  BY <1>1, ExactKept DEF TypeOK

\* A probe leaves the best of the index.
LEMMA ProbeExact ==
    ASSUME TypeOK, Exact, NEW p \in Callers, NEW q \in Vectors, NEW depth \in Nat,
           Probe(p, q, depth), UNCHANGED <<rows, index>>, vec'[p] = q,
           at'[p] \in {"search", "dedup"},
           \A r \in Callers \ {p} : UNCHANGED <<at[r], vec[r], bucket[r]>>
    PROVE  Exact'
<1>1. PICK found \in Nearest(Indexed, depth, Scores(q)) :
            /\ hits' = [hits EXCEPT ![p] =
                            {[id |-> id, score |-> Scores(q)[id]] : id \in found}]
            /\ exhausted' = [exhausted EXCEPT ![p] = Cardinality(found) < depth]
  BY DEF Probe
<1>2. fetch' = [fetch EXCEPT ![p] = depth] /\ undisturbed' = undisturbed \cup {p}
  BY DEF Probe
<1>3. \A r \in Callers \ {p} : SameSearch(r)
  BY <1>1, <1>2 DEF SameSearch, TypeOK
<1>4. /\ hits'[p] = HitsOf(q, found) /\ fetch'[p] = depth
      /\ exhausted'[p] = (Cardinality(found) < depth)
  BY <1>1, <1>2 DEF TypeOK, HitsOf, Hit
<1>5. Indexed' = Indexed /\ Scores(q)' = Scores(q)
  BY DEF Indexed, Scores
<1>6. HitsOf(q, found)' = HitsOf(q, found)
  BY <1>5 DEF HitsOf, Hit
<1>7. Probed(p)'
  BY <1>4, <1>5, <1>6 DEF Probed
<1>. QED  BY <1>2, <1>3, <1>7, ExactKept DEF TypeOK

\* Enough rows of the bucket: they cover it.
LEMMA FetchExact ==
    ASSUME TypeOK, Exact, NEW p \in Callers, Fetch(p)
    PROVE  Exact'
<1>1. /\ at[p] \in {"search", "dedup"} /\ Enough(p)
      /\ hits' = [hits EXCEPT ![p] = Fetched(p)]
      /\ at' = [at EXCEPT ![p] = IF at[p] = "search" THEN "searched" ELSE "deduped"]
      /\ UNCHANGED <<rows, index, vec, bucket, fetch, exhausted, undisturbed>>
  BY DEF Fetch, Goto, db
<1>2. \A q \in Callers \ {p} : SameSearch(q)
  BY <1>1 DEF SameSearch, TypeOK
<1>. SUFFICES ASSUME p \in undisturbed PROVE Covered(p)'
  BY <1>1, <1>2, ExactKept DEF TypeOK
<1>3. PICK found \in Nearest(Indexed, fetch[p], Scores(vec[p])) :
            /\ hits[p] = HitsOf(vec[p], found)
            /\ exhausted[p] = (Cardinality(found) < fetch[p])
  BY <1>1 DEF Exact, Probed
<1>. DEFINE best == found \cap Candidates(p)
<1>4. found \subseteq Indexed /\ Indexed \subseteq Ids /\ Candidates(p) \subseteq Indexed
  BY DEF Nearest, Indexed, Candidates
<1>5. Fetched(p) = HitsOf(vec[p], best)
  <2>1. \A id \in found : Hit(vec[p], id).id = id
    BY DEF Hit
  <2>2. \A id \in found : id \in best <=> Live(id) /\ NamespaceOf[id] = bucket[p]
    BY <1>4 DEF Candidates
  <2>3. Fetched(p) = {h \in HitsOf(vec[p], found) : Live(h.id) /\ NamespaceOf[h.id] = bucket[p]}
    BY <1>3 DEF Fetched
  <2>. QED  BY <2>1, <2>2, <2>3 DEF HitsOf
<1>6. Cardinality(Fetched(p)) = Cardinality(best)
  BY <1>4, <1>5, HitsCount, Parts
<1>7. Wanted(p) \in Nat /\ fetch[p] \in Nat /\ IsFiniteSet(Indexed)
  BY <1>4, FS_Subset, VectorStoreAssumption DEF Wanted, TypeOK
<1>8. Cardinality(best) >= Wanted(p) \/ Cardinality(found) < fetch[p]
  BY <1>1, <1>3, <1>6 DEF Enough
<1>9. Covers(best, Candidates(p), Wanted(p), Scores(vec[p]))
  BY <1>4, <1>7, <1>8, FilteredCovers
<1>10. UNCHANGED <<Indexed, Scores(vec[p]), Candidates(p), Wanted(p)>>
  BY <1>1 DEF TypeOK, Indexed, Scores, Candidates, Wanted, Live, Present
<1>11. HitsOf(vec[p], best)' = HitsOf(vec[p], best)
  BY <1>10 DEF HitsOf, Hit
<1>12. hits'[p] = HitsOf(vec[p], best)'
  BY <1>1, <1>5, <1>11 DEF TypeOK
<1>. QED  BY <1>4, <1>9, <1>10, <1>12 DEF Covered

LEMMA CallExact ==
    ASSUME TypeOK, Exact, NEW p \in Callers, Call(p)
    PROVE  Exact'
<1>n. 2 * Limit \in Nat /\ 2 * 1 \in Nat
  BY VectorStoreAssumption
<1>1. ASSUME undisturbed' = {} PROVE Exact'
  BY <1>1 DEF Exact
<1>2. ASSUME NEW id \in Ids, NEW dropped \in BOOLEAN, NEW v \in Vectors \cup {NoVector},
             Insert(p, id, v, dropped) \/ Delete(p, id, dropped)
      PROVE  Exact'
  BY <1>1, <1>2 DEF Insert, WriteRow, Delete, Committed
<1>3. ASSUME NEW id \in Ids, NEW v \in Vectors, Encode(p, id, v)
      PROVE  Exact'
  <2>1. /\ at' = [at EXCEPT ![p] = "encoded"] /\ vec' = [vec EXCEPT ![p] = v]
        /\ UNCHANGED <<rows, index, probe, undisturbed>>
    BY <1>3 DEF Encode, Goto, db
  <2>2. at'[p] = "encoded" /\ \A q \in Callers \ {p} : SameSearch(q)
    BY <2>1 DEF TypeOK, SameSearch, probe
  <2>. QED  BY <2>1, <2>2, ExactKept DEF TypeOK
<1>4. ASSUME NEW id \in Ids, NEW v \in Vectors, InsertDedup(p, id, v)
      PROVE  Exact'
  <2>1. /\ Probe(p, v, 2 * 1) /\ UNCHANGED <<rows, index>>
        /\ vec' = [vec EXCEPT ![p] = v] /\ bucket' = [bucket EXCEPT ![p] = NamespaceOf[id]]
        /\ at' = [at EXCEPT ![p] = "dedup"]
    BY <1>4 DEF InsertDedup, StartProbe, Goto
  <2>2. /\ vec'[p] = v /\ at'[p] = "dedup"
        /\ \A r \in Callers \ {p} : UNCHANGED <<at[r], vec[r], bucket[r]>>
    BY <2>1 DEF TypeOK
  <2>. QED  BY <1>n, <2>1, <2>2, ProbeExact
<1>5. CASE SelectExpired(p)
  <2>1. /\ at' = [at EXCEPT ![p] = "purge"]
        /\ UNCHANGED <<rows, index, vec, probe, undisturbed>>
    BY <1>5 DEF SelectExpired, Goto, db
  <2>2. at'[p] = "purge" /\ \A q \in Callers \ {p} : SameSearch(q)
    BY <2>1 DEF TypeOK, SameSearch, probe
  <2>. QED  BY <2>1, <2>2, ExactKept DEF TypeOK
<1>6. ASSUME NEW v \in Vectors, NEW ns \in Namespaces, Search(p, v, ns)
      PROVE  Exact'
  <2>1. /\ Probe(p, v, 2 * Limit) /\ UNCHANGED <<rows, index>>
        /\ vec' = [vec EXCEPT ![p] = v] /\ bucket' = [bucket EXCEPT ![p] = ns]
        /\ at' = [at EXCEPT ![p] = "search"]
    BY <1>6 DEF Search, StartProbe, Goto
  <2>2. /\ vec'[p] = v /\ at'[p] = "search"
        /\ \A r \in Callers \ {p} : UNCHANGED <<at[r], vec[r], bucket[r]>>
    BY <2>1 DEF TypeOK
  <2>. QED  BY <1>n, <2>1, <2>2, ProbeExact
<1>. QED  BY <1>2, <1>3, <1>4, <1>5, <1>6 DEF Call

LEMMA StepExact ==
    ASSUME TypeOK, Probing, Exact, NEW p \in Callers, Step(p) \/ Mishap(p)
    PROVE  Exact'
<1>1. ASSUME undisturbed' = {} PROVE Exact'
  BY <1>1 DEF Exact
<1>2. ASSUME NEW dropped \in BOOLEAN, Update(p, dropped) PROVE Exact'
  BY <1>1, <1>2, FinishExact DEF Update, Committed
<1>3. ASSUME NEW id \in Ids, Unindex(p, id) PROVE Exact'
  BY <1>1, <1>3 DEF Unindex
<1>4. CASE Correct(p) \/ DeleteExpired(p)
  BY <1>1, <1>4 DEF Correct, DeleteExpired
<1>5. CASE Fetch(p)
  BY <1>5, FetchExact
<1>6. CASE Deepen(p)
  <2>1. vec[p] \in Vectors /\ 2 * fetch[p] \in Nat
    BY <1>6 DEF Deepen, Probing, TypeOK
  <2>2. /\ Probe(p, vec[p], 2 * fetch[p]) /\ at[p] \in {"search", "dedup"}
        /\ UNCHANGED <<rows, index, at, vec, bucket>>
    BY <1>6 DEF Deepen, db
  <2>. QED  BY <2>1, <2>2, ProbeExact
<1>7. CASE Return(p) \/ GiveUp(p)
  BY <1>7, FinishExact DEF Return, GiveUp, db
<1>8. CASE Noop(p)
  <2>1. /\ at' = [at EXCEPT ![p] = "answered"]
        /\ UNCHANGED <<rows, index, vec, probe, undisturbed>>
    BY <1>8 DEF Noop, Goto, db
  <2>2. at'[p] = "answered" /\ \A q \in Callers \ {p} : SameSearch(q)
    BY <2>1 DEF TypeOK, SameSearch, probe
  <2>. QED  BY <2>1, <2>2, ExactKept DEF TypeOK
<1>9. ASSUME NEW dropped \in BOOLEAN, InsertProbed(p, dropped) \/ InsertUnprobed(p, dropped)
      PROVE  Exact'
  BY <1>1, <1>9 DEF InsertProbed, InsertUnprobed, WriteRow, Committed
<1>. QED  BY <1>2, <1>3, <1>4, <1>5, <1>6, <1>7, <1>8, <1>9 DEF Step, Mishap

\* Hits that cover the bucket give a best answer among all of its rows.
LEMMA CoveredIsExact ==
    ASSUME TypeOK, Exact
    PROVE  SearchIsExact
<1>. SUFFICES ASSUME NEW p \in undisturbed, at[p] \in {"searched", "deduped"},
                     NEW T \in Found(p)
              PROVE  {h.id : h \in T} \in Nearest(Candidates(p), Wanted(p), Scores(vec[p]))
  BY DEF SearchIsExact, Candidates
<1>1. PICK best \in SUBSET Indexed :
            /\ hits[p] = HitsOf(vec[p], best)
            /\ Covers(best, Candidates(p), Wanted(p), Scores(vec[p]))
  BY DEF Exact, Covered
<1>. DEFINE chosen == {h.id : h \in T}
<1>2. Candidates(p) \subseteq Ids /\ best \subseteq Ids /\ IsFiniteSet(Candidates(p))
  BY FS_Subset, VectorStoreAssumption DEF Candidates, Indexed
<1>3. \A id \in best : Hit(vec[p], id).id = id /\ Hit(vec[p], id).score = Scores(vec[p])[id]
  BY DEF Hit
<1>4. T \subseteq HitsOf(vec[p], best)
  BY <1>1 DEF Found, Nearest
<1>5. chosen \subseteq best /\ T = HitsOf(vec[p], chosen)
  BY <1>3, <1>4 DEF HitsOf
<1>6. chosen \subseteq Ids /\ Cardinality(T) = Cardinality(chosen)
  BY <1>2, <1>5, HitsCount, Parts
<1>7. T = hits[p] => chosen = best
  BY <1>1, <1>2, HitsCount, Parts
<1>8. \A x \in chosen, y \in best \ chosen : Scores(vec[p])[x] >= Scores(vec[p])[y]
  <2>. SUFFICES ASSUME NEW x \in chosen, NEW y \in best \ chosen
                PROVE  Scores(vec[p])[x] >= Scores(vec[p])[y]
    OBVIOUS
  <2>1. Hit(vec[p], x) \in T /\ Hit(vec[p], y) \in hits[p] \ T
    BY <1>1, <1>3, <1>5 DEF HitsOf
  <2>2. Hit(vec[p], x).score >= Hit(vec[p], y).score
    BY <1>1, <1>4, <2>1 DEF Found, Nearest
  <2>. QED  BY <1>3, <1>5, <2>2
<1>9. chosen \in Nearest(best, Wanted(p), Scores(vec[p]))
  BY <1>5, <1>6, <1>7, <1>8 DEF Found, Nearest
<1>10. Wanted(p) \in Nat
  BY VectorStoreAssumption DEF Wanted
<1>. QED  BY <1>1, <1>2, <1>9, <1>10, CoveredNearest

-----------------------------------------------------------------------------
(* The theorems.                                                           *)

LEMMA Initially == Init => IInv
<1>. SUFFICES ASSUME Init PROVE IInv
  OBVIOUS
<1>1. PICK loaded \in [issued -> Vectors] :
          rows = [id \in Ids |-> IF id \in issued
                                 THEN [vector |-> loaded[id], status |-> "live"]
                                 ELSE NoRow]
  BY DEF Init
<1>2. rows \in [Ids -> Row \cup {NoRow}] /\ issued \in SUBSET Ids
  BY <1>1 DEF Init, Row
<1>3. Loaded \in [Ids -> Vectors \cup {NoVector}]
  <2>. \A id \in Ids : Present(id) => rows[id] \in Row
    BY <1>2 DEF Present
  <2>. QED  BY DEF Loaded, Row
<1>4. TypeOK
  BY <1>2, <1>3 DEF Init, TypeOK
<1>5. Probing /\ Safe
  BY DEF Init, Probing, Safe, Purging, OneOwes, OwesTheRow, IndexAgrees, Owes
<1>. QED  BY <1>4, <1>5 DEF IInv

LEMMA Inductive == IInv /\ [Next]_vars => IInv'
<1>. SUFFICES ASSUME IInv, [Next]_vars PROVE IInv'
  OBVIOUS
<1>. TypeOK /\ Probing /\ Safe
  BY DEF IInv
<1>1. ASSUME NEW p \in Callers, Call(p) PROVE IInv'
  BY <1>1, CallTypes, CallProbing, CallSafe DEF IInv
<1>2. ASSUME NEW p \in Callers, Step(p) \/ Mishap(p) PROVE IInv'
  BY <1>2, StepTypes, StepProbing, StepSafe DEF IInv
<1>3. CASE (\E id \in Ids : Retire(id) \/ Raise(id)) \/ Restart
  BY <1>3, OutsideTypes, OutsideProbing, OutsideSafe DEF IInv
<1>4. CASE UNCHANGED vars
  <2>1. TypeOK'
    BY <1>4 DEF TypeOK, vars, db, local, probe
  <2>2. Probing'
    BY <1>4 DEF Probing, vars, local
  <2>3. \A id \in Ids : SameRow(id)
    BY <1>4, LoadedAt, LoadedAtNext DEF SameRow, Present, vars, db
  <2>4. Safe'
    BY <1>4, <2>3, FrameSafe DEF SameDebt, SameLocals, vars, local
  <2>. QED  BY <2>1, <2>2, <2>4 DEF IInv
<1>. QED  BY <1>1, <1>2, <1>3, <1>4 DEF Next

\* The invariant of every behaviour.
THEOREM Invariant == Spec => []IInv
BY Initially, Inductive, PTL DEF Spec

\* The table, the index and the callers' locals keep their types.
THEOREM TypeCorrect == Spec => []TypeOK
BY Invariant, PTL DEF IInv

\* The entry of an id is the vector of its row, unless two operations contended
\* for it since the last start or a dropped request left it behind: commits and
\* corrections of different ids never disturb each other, however they are
\* interleaved, and a purge or a restart leaves nothing stale.
THEOREM IndexFollowsRows == Spec => []IndexAgrees
BY Invariant, PTL DEF IInv, Safe

LEMMA ExactInductive == IInv /\ Exact /\ [Next]_vars => Exact'
<1>. SUFFICES ASSUME IInv, Exact, [Next]_vars PROVE Exact'
  OBVIOUS
<1>. TypeOK /\ Probing
  BY DEF IInv
<1>1. ASSUME NEW p \in Callers, Call(p) PROVE Exact'
  BY <1>1, CallExact
<1>2. ASSUME NEW p \in Callers, Step(p) \/ Mishap(p) PROVE Exact'
  BY <1>2, StepExact
<1>3. CASE (\E id \in Ids : Retire(id) \/ Raise(id)) \/ Restart
  BY <1>3 DEF Retire, Raise, Restart, Exact
<1>4. CASE UNCHANGED vars
  <2>1. UNCHANGED <<rows, index, undisturbed>> /\ \A p \in undisturbed : SameSearch(p)
    BY <1>4 DEF vars, db, local, probe, SameSearch
  <2>. QED  BY <2>1, SameSearchKept DEF Exact, SameSearch, TypeOK
<1>. QED  BY <1>1, <1>2, <1>3, <1>4 DEF Next

\* However many vectors of other buckets and of hidden rows crowd the index, and
\* whatever others did before its last probe, a search or dedup probe that saw no
\* change since then has a best answer over all the rows of its bucket with a
\* vector: oversampling, deepening and the filter by rows lose nothing.
THEOREM SearchCorrect == Spec => []SearchIsExact
<1>1. Init => Exact
  BY DEF Init, Exact
<1>2. IInv /\ Exact => SearchIsExact
  BY CoveredIsExact DEF IInv
<1>. QED  BY <1>1, <1>2, Invariant, ExactInductive, PTL DEF Spec

-----------------------------------------------------------------------------
(* The depth of a search.                                                  *)

InLoop(p) == at[p] \in {"search", "dedup"}

\* A probe that was not exhausted found as many entries as it asked for, each
\* of them a memory.
Shallow(p) == fetch[p] \in Nat \ {0} /\ (exhausted[p] \/ fetch[p] <= Cardinality(Ids))

Depths == \A p \in Callers : InLoop(p) => Shallow(p)

LEMMA ProbeShallow ==
    ASSUME TypeOK, NEW p \in Callers, NEW q, NEW depth \in Nat \ {0}, Probe(p, q, depth)
    PROVE  /\ Shallow(p)' /\ fetch'[p] = depth
           /\ \A r \in Callers \ {p} :
                UNCHANGED <<fetch[r], hits[r], exhausted[r]>>
<1>1. PICK found \in Nearest(Indexed, depth, Scores(q)) :
            /\ hits' = [hits EXCEPT ![p] =
                            {[id |-> id, score |-> Scores(q)[id]] : id \in found}]
            /\ exhausted' = [exhausted EXCEPT ![p] = Cardinality(found) < depth]
  BY DEF Probe
<1>2. fetch' = [fetch EXCEPT ![p] = depth]
  BY DEF Probe
<1>3. /\ fetch'[p] = depth /\ exhausted'[p] = (Cardinality(found) < depth)
      /\ \A r \in Callers \ {p} : UNCHANGED <<fetch[r], hits[r], exhausted[r]>>
  BY <1>1, <1>2 DEF TypeOK
<1>4. Cardinality(found) \in Nat /\ Cardinality(found) <= Cardinality(Ids)
      /\ Cardinality(Ids) \in Nat
  <2>1. found \subseteq Ids
    BY DEF Nearest, Indexed
  <2>. QED  BY <2>1, FS_Subset, FS_CardinalityType, VectorStoreAssumption
<1>5. CASE Cardinality(found) < depth
  <2>1. exhausted'[p]
    BY <1>3, <1>5
  <2>. QED  BY <1>3, <2>1 DEF Shallow
<1>6. CASE depth <= Cardinality(found)
  <2>1. depth <= Cardinality(Ids)
    BY <1>4, <1>6
  <2>. QED  BY <1>3, <2>1 DEF Shallow
<1>. QED  BY <1>4, <1>5, <1>6

LEMMA FinishLeaves ==
    ASSUME TypeOK, NEW p \in Callers, Finish(p)
    PROVE  at'[p] = "idle" /\ \A q \in Callers \ {p} : SameSearch(q)
BY DEF TypeOK, Finish, Goto, SameSearch

LEMMA CommittedLeaves ==
    ASSUME TypeOK, NEW p \in Callers, NEW id, NEW v, NEW dropped, Committed(p, id, v, dropped)
    PROVE  at'[p] \in {"idle", "index"} /\ \A q \in Callers \ {p} : SameSearch(q)
<1>1. CASE dropped
  BY <1>1, FinishLeaves DEF Committed
<1>2. CASE ~dropped
  BY <1>2 DEF Committed, TypeOK, Goto, SameSearch, probe
<1>. QED  BY <1>1, <1>2

\* What a step of p does to the searches: nothing to another's, and p's own
\* begins shallow.
LEMMA CallDepths ==
    ASSUME TypeOK, NEW p \in Callers, Call(p)
    PROVE  /\ at[p] = "idle"
           /\ \A q \in Callers \ {p} : SameSearch(q)
           /\ InLoop(p)' => Shallow(p)'
<1>1. ASSUME NEW ns, NEW label, NEW q, NEW limit \in Nat \ {0},
             at[p] = "idle", StartProbe(p, label, q, ns, limit)
      PROVE  (\A r \in Callers \ {p} : SameSearch(r)) /\ Shallow(p)'
  <2>1. 2 * limit \in Nat \ {0} /\ Probe(p, q, 2 * limit)
    BY <1>1 DEF StartProbe
  <2>2. \A r \in Callers \ {p} : UNCHANGED <<at[r], vec[r], bucket[r]>>
    BY <1>1 DEF StartProbe, Goto, TypeOK
  <2>. QED  BY <2>1, <2>2, ProbeShallow DEF SameSearch
<1>2. ASSUME NEW id \in Ids, NEW dropped \in BOOLEAN, NEW v \in Vectors \cup {NoVector},
             Insert(p, id, v, dropped) \/ Delete(p, id, dropped)
      PROVE  at[p] = "idle" /\ at'[p] \in {"idle", "index"}
             /\ \A q \in Callers \ {p} : SameSearch(q)
  BY <1>2, CommittedLeaves DEF Insert, Delete, WriteRow, Begin
<1>3. ASSUME NEW id \in Ids, NEW v \in Vectors, Encode(p, id, v)
      PROVE  at[p] = "idle" /\ at'[p] = "encoded" /\ \A q \in Callers \ {p} : SameSearch(q)
  BY <1>3 DEF Encode, Begin, Goto, TypeOK, SameSearch, probe
<1>4. CASE SelectExpired(p)
  BY <1>4 DEF SelectExpired, Begin, Goto, TypeOK, SameSearch, probe, InLoop
<1>5. ASSUME NEW id \in Ids, NEW v \in Vectors, InsertDedup(p, id, v)
      PROVE  at[p] = "idle" /\ Shallow(p)' /\ \A q \in Callers \ {p} : SameSearch(q)
  <2>1. at[p] = "idle" /\ StartProbe(p, "dedup", v, NamespaceOf[id], 1)
    BY <1>5 DEF InsertDedup, Begin
  <2>. QED  BY <1>1, <2>1
<1>6. ASSUME NEW v \in Vectors, NEW ns \in Namespaces, Search(p, v, ns)
      PROVE  at[p] = "idle" /\ Shallow(p)' /\ \A q \in Callers \ {p} : SameSearch(q)
  <2>1. at[p] = "idle" /\ StartProbe(p, "search", v, ns, Limit)
    BY <1>6 DEF Search, Begin
  <2>. QED  BY <1>1, <2>1, VectorStoreAssumption
<1>. QED  BY <1>2, <1>3, <1>4, <1>5, <1>6 DEF Call, InLoop

LEMMA StepDepths ==
    ASSUME TypeOK, Depths, NEW p \in Callers, Step(p) \/ Mishap(p)
    PROVE  /\ \A q \in Callers \ {p} : SameSearch(q)
           /\ InLoop(p)' => Shallow(p)'
           /\ InLoop(p) /\ InLoop(p)' =>
                fetch[p] \in 1 .. Cardinality(Ids) /\ fetch'[p] = 2 * fetch[p]
<1>. DEFINE Leaves == ~InLoop(p)' /\ \A q \in Callers \ {p} : SameSearch(q)
<1>1. ASSUME Finish(p) PROVE Leaves
  BY <1>1, FinishLeaves DEF InLoop
<1>2. ASSUME NEW id, NEW v, NEW dropped, Committed(p, id, v, dropped) PROVE Leaves
  BY <1>2, CommittedLeaves DEF InLoop
<1>3. ASSUME NEW dropped \in BOOLEAN, Update(p, dropped) PROVE Leaves
  BY <1>1, <1>2, <1>3 DEF Update
<1>4. CASE Correct(p) \/ Return(p) \/ GiveUp(p)
  BY <1>1, <1>4 DEF Correct, Return, GiveUp
<1>5. CASE DeleteExpired(p)
  BY <1>5 DEF DeleteExpired, Goto, TypeOK, local, probe, SameSearch, InLoop
<1>6. ASSUME NEW id \in Ids, Unindex(p, id) PROVE Leaves
  BY <1>6 DEF Unindex, Goto, TypeOK, probe, SameSearch, InLoop
<1>7. CASE Fetch(p)
  BY <1>7 DEF Fetch, Goto, TypeOK, SameSearch, InLoop
<1>8. CASE Deepen(p)
  <2>1. InLoop(p) /\ ~exhausted[p] /\ Probe(p, vec[p], 2 * fetch[p])
        /\ UNCHANGED <<at, vec, bucket>>
    BY <1>8 DEF Deepen, Enough, InLoop
  <2>2. fetch[p] \in 1 .. Cardinality(Ids) /\ 2 * fetch[p] \in Nat \ {0}
    <3>1. fetch[p] \in Nat \ {0} /\ fetch[p] <= Cardinality(Ids)
      BY <2>1 DEF Depths, Shallow
    <3>2. Cardinality(Ids) \in Nat
      BY FS_CardinalityType, VectorStoreAssumption
    <3>. QED  BY <3>1, <3>2
  <2>. QED  BY <2>1, <2>2, ProbeShallow DEF SameSearch
<1>9. CASE Noop(p)
  BY <1>9 DEF Noop, Goto, TypeOK, probe, SameSearch, InLoop
<1>10. ASSUME NEW dropped \in BOOLEAN, InsertProbed(p, dropped) \/ InsertUnprobed(p, dropped)
      PROVE  Leaves
  BY <1>2, <1>10 DEF InsertProbed, InsertUnprobed, WriteRow
<1>. QED  BY <1>3, <1>4, <1>5, <1>6, <1>7, <1>8, <1>9, <1>10 DEF Step, Mishap

\* Together: the invariant, and the progress of every search that goes on.
Deeper(p) ==
    InLoop(p) /\ at'[p] = at[p] =>
        \/ UNCHANGED <<hits[p], fetch[p], exhausted[p]>>
        \/ fetch[p] \in 1 .. Cardinality(Ids) /\ fetch'[p] = 2 * fetch[p]

LEMMA DepthsNext ==
    ASSUME TypeOK, Depths, [Next]_vars
    PROVE  Depths' /\ \A q \in Callers : Deeper(q)
<1>1. ASSUME NEW p \in Callers, Call(p) \/ Step(p) \/ Mishap(p)
      PROVE  Depths' /\ \A q \in Callers : Deeper(q)
  <2>1. \A q \in Callers \ {p} : SameSearch(q)
    BY <1>1, CallDepths, StepDepths
  <2>2. \A q \in Callers \ {p} : (InLoop(q)' => Shallow(q)') /\ Deeper(q)
    BY <2>1 DEF SameSearch, Depths, InLoop, Shallow, Deeper
  <2>3. InLoop(p)' => Shallow(p)'
    BY <1>1, CallDepths, StepDepths
  <2>4. Deeper(p)
    BY <1>1, CallDepths, StepDepths DEF Deeper, InLoop
  <2>. QED  BY <2>2, <2>3, <2>4 DEF Depths
<1>2. CASE \E id \in Ids : Retire(id) \/ Raise(id)
  BY <1>2 DEF Retire, Raise, local, probe, Depths, InLoop, Shallow, Deeper
<1>3. CASE Restart
  BY <1>3 DEF Restart, Depths, InLoop, Shallow, Deeper
<1>4. CASE UNCHANGED vars
  BY <1>4 DEF vars, local, probe, Depths, InLoop, Shallow, Deeper
<1>. QED  BY <1>1, <1>2, <1>3, <1>4 DEF Next

\* A search or dedup probe goes on only from a depth no greater than the number
\* of memories, and twice as deep, whatever is written, deleted or purged between
\* its probes: the safety half of SearchReturns, for any number of memories.
THEOREM DeepeningCorrect == Spec => DeepeningIsBounded
<1>1. Init => Depths
  BY DEF Init, Depths, InLoop
<1>2. TypeOK /\ Depths /\ [Next]_vars => Depths'
  BY DepthsNext
<1>3. TypeOK /\ Depths /\ [Next]_vars =>
        [\A p \in Callers :
            at[p] \in {"search", "dedup"} /\ at'[p] = at[p] =>
                \/ UNCHANGED <<hits[p], fetch[p], exhausted[p]>>
                \/ fetch[p] \in 1 .. Cardinality(Ids) /\ fetch'[p] = 2 * fetch[p]]_vars
  BY DepthsNext DEF Deeper, InLoop
<1>. QED  BY <1>1, <1>2, <1>3, TypeCorrect, PTL DEF Spec, DeepeningIsBounded

-----------------------------------------------------------------------------
(* The index itself: the arrays of VectorIndex, for any vectors and norms. *)

IndexInv == IndexTypeOK /\ Consistent

\* In a state of the invariant an id has exactly one position.
LEMMA OnePosition ==
    ASSUME IndexInv, NEW i \in 1..size, NEW j \in 1..size, ids[i] = ids[j]
    PROVE  i = j
BY DEF IndexInv, Consistent

LEMMA ReplaceInv ==
    ASSUME IndexInv, NEW id \in Ids, NEW v \in Vectors, Replace(id, v)
    PROVE  IndexInv'
<1>1. IndexTypeOK'
  BY VectorIndexAssumption DEF IndexInv, IndexTypeOK, Replace
<1>2. Consistent'
  BY VectorIndexAssumption DEF IndexInv, IndexTypeOK, Consistent, Replace
<1>. QED  BY <1>1, <1>2 DEF IndexInv

LEMMA AddInv ==
    ASSUME IndexInv, NEW id \in Ids, NEW v \in Vectors, Add(id, v)
    PROVE  IndexInv'
<1>1. IndexTypeOK'
  BY VectorIndexAssumption DEF IndexInv, IndexTypeOK, Add, Push
<1>2. Consistent'
  BY VectorIndexAssumption DEF IndexInv, IndexTypeOK, Consistent, Add, Push
<1>. QED  BY <1>1, <1>2 DEF IndexInv

LEMMA RemoveInv ==
    ASSUME IndexInv, NEW id \in Ids, Remove(id)
    PROVE  IndexInv'
<1>. DEFINE gap == index_of[id]
<1>1. /\ gap \in 1..size /\ size \in 1..size
      /\ ids[gap] = id /\ ids[size] \in DOMAIN index_of
      /\ index_of[ids[size]] = size
  BY DEF IndexInv, IndexTypeOK, Consistent, Remove
<1>2. IndexTypeOK'
  BY <1>1 DEF IndexInv, IndexTypeOK, Consistent, Remove, Reindexed, SwapPop
<1>3. Consistent'
  <2>1. ASSUME NEW x \in DOMAIN index_of \ {id}
        PROVE  ids'[index_of'[x]] = x
    <3>1. CASE x = ids[size]
      BY <1>1, <3>1 DEF IndexInv, IndexTypeOK, Consistent, Remove, Reindexed, SwapPop
    <3>2. CASE x # ids[size]
      BY <1>1, <3>2 DEF IndexInv, IndexTypeOK, Consistent, Remove, Reindexed, SwapPop
    <3>. QED  BY <3>1, <3>2
  <2>2. ASSUME NEW i \in 1..(size - 1)
        PROVE  ids'[i] \in DOMAIN index_of' /\ index_of'[ids'[i]] = i
    <3>1. CASE i = gap
      BY <1>1, <3>1 DEF IndexInv, IndexTypeOK, Consistent, Remove, Reindexed, SwapPop
    <3>2. CASE i # gap
      BY <1>1, <3>2 DEF IndexInv, IndexTypeOK, Consistent, Remove, Reindexed, SwapPop
    <3>. QED  BY <3>1, <3>2
  <2>3. ASSUME NEW i \in 1..(size - 1)
        PROVE  norms'[i] = Norm[vectors'[i]]
    BY <1>1 DEF IndexInv, IndexTypeOK, Consistent, Remove, SwapPop
  <2>4. size' = size - 1 /\ DOMAIN index_of' = DOMAIN index_of \ {id}
    BY DEF Remove, Reindexed
  <2>. QED  BY <2>1, <2>2, <2>3, <2>4 DEF Consistent
<1>. QED  BY <1>2, <1>3 DEF IndexInv

\* The loaded index is consistent, because a primary key repeats no id.
LEMMA RebuildInv ==
    ASSUME NEW n \in 0..MaxSize, NEW load \in Loads(n), Rebuilt(n, load)
    PROVE  IndexInv
<1>. DEFINE loaded == {load[i].id : i \in 1..n}
<1>1. ASSUME NEW i \in 1..n
      PROVE  load[i] \in [id : Ids, vector : Vectors]
  BY DEF Loads
<1>2. DOMAIN index_of = loaded /\ size = n /\ n \in Nat
  BY VectorIndexAssumption DEF Rebuilt
<1>3. ASSUME NEW id \in loaded
      PROVE  index_of[id] \in 1..n /\ load[index_of[id]].id = id
  BY DEF Rebuilt
<1>4. ASSUME NEW i \in 1..n
      PROVE  index_of[load[i].id] = i
  <2>1. load[i].id \in loaded
    OBVIOUS
  <2>. QED  BY <2>1, <1>3 DEF Loads
<1>5. IndexTypeOK
  <2>1. ids \in [1..n -> Ids] /\ vectors \in [1..n -> Vectors]
    BY <1>1 DEF Rebuilt
  <2>2. norms \in [1..n -> Nat]
    BY <1>1, VectorIndexAssumption DEF Rebuilt
  <2>3. loaded \subseteq Ids
    BY <1>1
  <2>4. index_of \in [loaded -> 1..n]
    BY <1>3 DEF Rebuilt
  <2>. QED  BY <1>2, <2>1, <2>2, <2>3, <2>4 DEF IndexTypeOK
<1>6. Consistent
  BY <1>1, <1>2, <1>3, <1>4 DEF Consistent, Rebuilt
<1>. QED  BY <1>5, <1>6 DEF IndexInv

LEMMA IndexInitInv == IndexInit => IndexInv
BY RebuildInv DEF IndexInit

LEMMA IndexNextInv == IndexInv /\ [IndexNext]_arrays => IndexInv'
<1>. SUFFICES ASSUME IndexInv, [IndexNext]_arrays PROVE IndexInv'
  OBVIOUS
<1>1. CASE UNCHANGED arrays
  BY <1>1 DEF IndexInv, IndexTypeOK, Consistent, arrays
<1>2. CASE IndexNext
  BY <1>2, ReplaceInv, AddInv, RemoveInv DEF IndexNext
<1>. QED  BY <1>1, <1>2

\* The arrays of the index keep their types and one common length.
THEOREM IndexTypeCorrect == IndexSpec => []IndexTypeOK
<1>1. IndexInv => IndexTypeOK
  BY DEF IndexInv
<1>. QED  BY <1>1, IndexInitInv, IndexNextInv, PTL DEF IndexSpec

\* Swap-removal keeps the map and the arrays consistent.
THEOREM AlwaysConsistent == IndexSpec => []Consistent
<1>1. IndexInv => Consistent
  BY DEF IndexInv
<1>. QED  BY <1>1, IndexInitInv, IndexNextInv, PTL DEF IndexSpec

LEMMA InitRefines == IndexInv => Map!Init
BY DEF IndexInv, IndexTypeOK, Map!Init, Held

\* What an operation does to the arrays is what the map's does to the map.
LEMMA OperationsRefine ==
    ASSUME IndexInv, NEW id \in Ids
    PROVE  /\ Remove(id) => Map!Drop(id)
           /\ \A v \in Vectors : Replace(id, v) \/ Add(id, v) => Map!Put(id, v)
<1>1. ASSUME NEW v \in Vectors, Replace(id, v)
      PROVE  Map!Put(id, v)
  <2>1. ASSUME NEW x \in Ids
        PROVE  Held'[x] = IF x = id THEN v ELSE Held[x]
    BY <1>1 DEF IndexInv, IndexTypeOK, Consistent, Replace, Held
  <2>. QED  BY <2>1 DEF Map!Put, Held
<1>2. ASSUME NEW v \in Vectors, Add(id, v)
      PROVE  Map!Put(id, v)
  <2>1. ASSUME NEW x \in Ids
        PROVE  Held'[x] = IF x = id THEN v ELSE Held[x]
    BY <1>2 DEF IndexInv, IndexTypeOK, Consistent, Add, Push, Held
  <2>. QED  BY <2>1 DEF Map!Put, Held
<1>3. ASSUME Remove(id)
      PROVE  Map!Drop(id)
  <2>1. /\ index_of[id] \in 1..size /\ size \in 1..size
        /\ ids[index_of[id]] = id /\ ids[size] \in DOMAIN index_of
        /\ index_of[ids[size]] = size
    BY <1>3 DEF IndexInv, IndexTypeOK, Consistent, Remove
  <2>2. ASSUME NEW x \in Ids
        PROVE  Held'[x] = IF x = id THEN NoVector ELSE Held[x]
    <3>1. CASE x = id \/ x \notin DOMAIN index_of
      BY <1>3, <3>1 DEF Remove, Reindexed, Held
    <3>2. CASE x # id /\ x \in DOMAIN index_of /\ x = ids[size]
      BY <1>3, <2>1, <3>2 DEF IndexInv, IndexTypeOK, Consistent, Remove, Reindexed,
                              SwapPop, Held
    <3>3. CASE x # id /\ x \in DOMAIN index_of /\ x # ids[size]
      BY <1>3, <2>1, <3>3 DEF IndexInv, IndexTypeOK, Consistent, Remove, Reindexed,
                              SwapPop, Held
    <3>. QED  BY <3>1, <3>2, <3>3
  <2>. QED  BY <2>2 DEF Map!Drop, Held
<1>. QED  BY <1>1, <1>2, <1>3

LEMMA StepRefines == IndexInv /\ [IndexNext]_arrays => [Map!Next]_Held
<1>1. CASE UNCHANGED arrays
  BY <1>1 DEF arrays, Held
<1>. QED
  BY <1>1, OperationsRefine DEF IndexNext, Map!Next

\* The index implements the map: the initial states correspond, and each
\* operation on the arrays is one operation on the map or leaves it alone.
THEOREM IndexImplementsMap == IndexSpec => ImplementsMap
<1>1. IndexSpec => []IndexInv
  BY IndexInitInv, IndexNextInv, PTL DEF IndexSpec
<1>. QED
  BY <1>1, InitRefines, StepRefines, PTL DEF IndexSpec, ImplementsMap, Map!Spec

\* Every upsert and removal changes the map exactly as its arguments say.
THEOREM OperationsCorrect == IndexSpec => OperationsAreTheMaps
<1>1. IndexSpec => []IndexInv
  BY IndexInitInv, IndexNextInv, PTL DEF IndexSpec
<1>2. IndexInv => \A id \in Ids :
          /\ Remove(id) => Map!Drop(id)
          /\ \A v \in Vectors : Replace(id, v) \/ Add(id, v) => Map!Put(id, v)
  BY OperationsRefine
<1>. QED
  BY <1>1, <1>2, PTL DEF OperationsAreTheMaps
-----------------------------------------------------------------------------
(* Search.                                                                 *)

\* Induction on the numbers, as a fact about sets of them.
LEMMA SetInduction ==
    ASSUME NEW S \in SUBSET Nat, 0 \in S, \A n \in S : n + 1 \in S
    PROVE  S = Nat
<1>. SUFFICES ASSUME Nat \ S # {} PROVE FALSE
  OBVIOUS
<1>1. IsWellFoundedOn(OpToRel(<, Nat), Nat)
  BY NatLessThanWellFounded
<1>2. PICK n \in Nat \ S : \A m \in Nat \ S : ~ (<<m, n>> \in OpToRel(<, Nat))
  BY <1>1, WFMin
<1>3. \A m \in Nat \ S : ~(m < n)
  BY <1>2 DEF OpToRel
<1>4. n # 0 /\ n - 1 \in Nat /\ n - 1 < n
  OBVIOUS
<1>5. n - 1 \in S
  BY <1>3, <1>4
<1>. QED  BY <1>5

\* A score is a number: the quotient of two, or 0 where a norm is 0.
LEMMA ScoreType ==
    ASSUME IndexTypeOK, NEW q \in Vectors, NEW i \in 1..size
    PROVE  Score(q, i) \in Int
<1>1. norms[i] \in Nat /\ vectors[i] \in Vectors
  BY DEF IndexTypeOK
<1>2. Norm[q] \in Nat /\ Dot[q][vectors[i]] \in Int /\ Scale \in Nat
  BY <1>1, VectorIndexAssumption
<1>. DEFINE a == Scale * Dot[q][vectors[i]]
            b == Norm[q] * norms[i]
<1>3. a \in Int /\ b \in Nat
  BY <1>1, <1>2
<1>4. Norm[q] # 0 /\ norms[i] # 0 => b # 0
  BY <1>1, <1>2
<1>. HIDE DEF a, b
<1>5. b # 0 => a \div b \in Int
  BY <1>3
<1>. QED  BY <1>4, <1>5 DEF Score, Cosine, a, b

\* The positions are strictly and totally ordered.
LEMMA BelowOrders ==
    ASSUME IndexTypeOK, NEW q \in Vectors
    PROVE  /\ \A i, j \in 1..size : i # j => (Below(q, i, j) <=> ~Below(q, j, i))
           /\ \A i, j, k \in 1..size : Below(q, i, j) /\ Below(q, j, k) => Below(q, i, k)
<1>. DEFINE s(i) == Score(q, i)
<1>1. size \in Nat /\ \A i \in 1..size : s(i) \in Int
  BY ScoreType DEF IndexTypeOK
<1>2. \A i, j \in 1..size :
          Below(q, i, j) <=> (\/ s(i) < s(j)
                              \/ s(i) = s(j) /\ i < j)
  BY DEF Below
<1>. HIDE DEF s
<1>. QED  BY <1>1, <1>2

\* A set of positions has one that leaves a heap first.
LEMMA LeastExists ==
    ASSUME IndexTypeOK, NEW q \in Vectors, NEW T \in SUBSET (1..size), T # {}
    PROVE  Least(q, T) \in T /\ \A j \in T \ {Least(q, T)} : Below(q, Least(q, T), j)
<1>. DEFINE Has(U) == \E i \in U : \A j \in U \ {i} : Below(q, i, j)
            S == {n \in Nat : n <= size => \A U \in SUBSET (1..n) : U # {} => Has(U)}
<1>1. size \in Nat
  BY DEF IndexTypeOK
<1>2. 0 \in S
  <2>1. \A U \in SUBSET (1..0) : U = {}
    OBVIOUS
  <2>. HIDE DEF Has
  <2>. QED  BY <2>1
<1>3. ASSUME NEW n \in S PROVE n + 1 \in S
  <2>. SUFFICES ASSUME n + 1 <= size, NEW U \in SUBSET (1..(n + 1)), U # {} PROVE Has(U)
    OBVIOUS
  <2>1. n \in Nat /\ n <= size /\ \A W \in SUBSET (1..n) : W # {} => Has(W)
    BY <1>1, <1>3
  <2>. DEFINE W == U \ {n + 1}
  <2>2. W \in SUBSET (1..n)
    BY <2>1
  <2>3. CASE W = {}
    <3>1. U = {n + 1}
      BY <2>3
    <3>. QED  BY <3>1
  <2>4. CASE W # {}
    <3>. HIDE DEF W, Has, S
    <3>1. Has(W)
      BY <2>1, <2>2, <2>4
    <3>2. PICK i \in W : \A j \in W \ {i} : Below(q, i, j)
      BY <3>1 DEF Has
    <3>3. i \in U /\ i \in 1..size /\ n + 1 \in 1..size /\ i # n + 1
          /\ U \in SUBSET (1..size)
      BY <1>1, <2>1, <2>2, <3>2 DEF W
    <3>4. CASE n + 1 \notin U \/ Below(q, i, n + 1)
      <4>1. \A j \in U \ {i} : Below(q, i, j)
        BY <3>2, <3>4 DEF W
      <4>. QED  BY <3>3, <4>1 DEF Has
    <3>5. CASE n + 1 \in U /\ ~Below(q, i, n + 1)
      <4>1. Below(q, n + 1, i)
        BY <3>3, <3>5, BelowOrders
      <4>2. \A j \in U \ {n + 1} : Below(q, n + 1, j)
        BY <3>2, <3>3, <4>1, BelowOrders DEF W
      <4>. QED  BY <3>5, <4>2 DEF Has
    <3>. QED  BY <3>4, <3>5
  <2>. QED  BY <2>3, <2>4
<1>4. S = Nat
  <2>1. S \in SUBSET Nat
    OBVIOUS
  <2>. HIDE DEF S
  <2>. QED  BY <1>2, <1>3, <2>1, SetInduction
<1>5. Has(T)
  BY <1>1, <1>4
<1>. QED  BY <1>5 DEF Least

\* What the heap holds after n positions: all of them, or the best `limit`.
Best(q, limit, h, n) ==
    \/ n <= limit /\ h = 1..n
    \/ /\ limit <= n /\ h \subseteq 1..n
       /\ IsFiniteSet(h) /\ Cardinality(h) = limit
       /\ \A x \in h, y \in (1..n) \ h : Below(q, y, x)

Pushed(q, limit, h, i) ==
    IF Cardinality(h \cup {i}) > limit THEN (h \cup {i}) \ {Least(q, h \cup {i})}
    ELSE h \cup {i}

LEMMA PushKeepsBest ==
    ASSUME IndexTypeOK, NEW q \in Vectors, NEW limit \in Nat, limit > 0,
           NEW n \in Nat, n + 1 <= size, NEW h, Best(q, limit, h, n)
    PROVE  Best(q, limit, Pushed(q, limit, h, n + 1), n + 1)
<1>. DEFINE pushed == h \cup {n + 1}
            l == Least(q, pushed)
<1>1. size \in Nat
  BY DEF IndexTypeOK
<1>2. /\ h \in SUBSET (1..n) /\ IsFiniteSet(h) /\ Cardinality(h) \in Nat
      /\ Cardinality(h) <= limit
      /\ (h = 1..n /\ Cardinality(h) = n) \/ Cardinality(h) = limit
      /\ \A x \in h, y \in (1..n) \ h : Below(q, y, x)
  <2>1. CASE n <= limit /\ h = 1..n
    <3>1. IsFiniteSet(1..n) /\ Cardinality(1..n) = n
      <4>1. IsFiniteSet(1..n) /\ Cardinality(1..n) = IF 1 > n THEN 0 ELSE n - 1 + 1
        BY FS_Interval
      <4>. QED  BY <4>1
    <3>. QED  BY <2>1, <3>1
  <2>2. CASE ~(n <= limit /\ h = 1..n)
    BY <2>2 DEF Best
  <2>. QED  BY <2>1, <2>2
<1>3. /\ pushed \in SUBSET (1..(n + 1)) /\ pushed \in SUBSET (1..size) /\ pushed # {}
      /\ n + 1 \notin h
  BY <1>1, <1>2
<1>4. IsFiniteSet(pushed) /\ Cardinality(pushed) = Cardinality(h) + 1
  BY <1>2, <1>3, FS_AddElement
<1>5. l \in pushed /\ \A j \in pushed \ {l} : Below(q, l, j)
  BY <1>3, LeastExists
<1>6. CASE Cardinality(pushed) > limit
  <2>. DEFINE rest == pushed \ {l}
  <2>1. IsFiniteSet(rest) /\ Cardinality(rest) = limit
    <3>1. IsFiniteSet(rest) /\ Cardinality(rest) = Cardinality(pushed) - 1
      BY <1>4, <1>5, FS_RemoveElement
    <3>. HIDE DEF rest, pushed
    <3>. QED  BY <1>2, <1>4, <1>6, <3>1
  <2>2. limit <= n + 1
    <3>1. Cardinality(1..(n + 1)) = n + 1 /\ IsFiniteSet(1..(n + 1))
      <4>1. IsFiniteSet(1..(n + 1))
            /\ Cardinality(1..(n + 1)) = IF 1 > n + 1 THEN 0 ELSE (n + 1) - 1 + 1
        BY FS_Interval
      <4>. QED  BY <4>1
    <3>2. Cardinality(pushed) <= Cardinality(1..(n + 1))
      BY <1>3, <3>1, FS_Subset
    <3>. HIDE DEF pushed
    <3>. QED  BY <1>2, <1>4, <1>6, <3>1, <3>2
  <2>3. ASSUME NEW x \in rest, NEW y \in (1..(n + 1)) \ rest PROVE Below(q, y, x)
    <3>1. CASE y = l
      BY <1>5, <3>1
    <3>2. CASE y # l
      <4>1. y \in (1..n) \ h
        BY <2>3, <3>2
      <4>2. CASE x \in h
        BY <1>2, <4>1, <4>2
      <4>3. CASE x \notin h
        <5>1. x = n + 1 /\ l \in h
          BY <1>5, <4>3
        <5>2. Below(q, y, l) /\ Below(q, l, x)
          BY <1>2, <1>5, <4>1, <5>1
        <5>3. y \in 1..size /\ l \in 1..size /\ x \in 1..size
          BY <1>1, <1>3, <1>5, <4>1
        <5>. HIDE DEF l, rest, pushed
        <5>. QED  BY <5>2, <5>3, BelowOrders
      <4>. QED  BY <4>2, <4>3
    <3>. QED  BY <3>1, <3>2
  <2>4. rest \subseteq 1..(n + 1)
    BY <1>3
  <2>5. Pushed(q, limit, h, n + 1) = rest
    BY <1>6 DEF Pushed
  <2>. HIDE DEF rest
  <2>. QED  BY <2>1, <2>2, <2>3, <2>4, <2>5 DEF Best
<1>7. CASE ~(Cardinality(pushed) > limit)
  <2>1. h = 1..n /\ n + 1 <= limit
    <3>. HIDE DEF pushed
    <3>. QED  BY <1>2, <1>4, <1>7
  <2>2. pushed = 1..(n + 1)
    BY <2>1
  <2>. QED  BY <1>7, <2>1, <2>2 DEF Best, Pushed
<1>. QED  BY <1>6, <1>7

\* The recursion of the heap has a value at every position.
LEMMA HeapIs ==
    ASSUME IndexTypeOK, NEW q \in Vectors, NEW limit \in Nat, limit > 0
    PROVE  Best(q, limit, Heap(q, limit)[size], size)
<1>. DEFINE V == SUBSET (1..size)
            Eq(f) == f = [i \in 0..size |-> IF i = 0 THEN {}
                                            ELSE Pushed(q, limit, f[i - 1], i)]
            Upto(f, n) == /\ f \in [0..size -> V]
                          /\ \A i \in 0..size : i <= n =>
                                f[i] = IF i = 0 THEN {} ELSE Pushed(q, limit, f[i - 1], i)
            heap == CHOOSE f : Eq(f)
            S == {n \in Nat : n <= size => \E f : Upto(f, n)}
            T == {n \in Nat : n <= size => Best(q, limit, heap[n], n)}
<1>1. size \in Nat
  BY DEF IndexTypeOK
<1>2. ASSUME NEW h \in V, NEW i \in 1..size PROVE Pushed(q, limit, h, i) \in V
  BY <1>2 DEF Pushed
<1>. HIDE DEF V
<1>3. 0 \in S
  <2>. DEFINE f == [i \in 0..size |-> {}]
  <2>1. Upto(f, 0)
    BY DEF V
  <2>. QED  BY <2>1
<1>4. ASSUME NEW n \in S PROVE n + 1 \in S
  <2>. SUFFICES ASSUME n + 1 <= size PROVE \E f : Upto(f, n + 1)
    OBVIOUS
  <2>1. PICK f : Upto(f, n)
    BY <1>1, <1>4
  <2>. DEFINE g == [i \in 0..size |-> IF i = n + 1 THEN Pushed(q, limit, f[n], n + 1)
                                      ELSE f[i]]
  <2>2. Pushed(q, limit, f[n], n + 1) \in V
    BY <1>1, <1>2, <1>4, <2>1
  <2>3. g \in [0..size -> V]
    BY <2>1, <2>2
  <2>4. ASSUME NEW i \in 0..size, i <= n + 1
        PROVE  g[i] = IF i = 0 THEN {} ELSE Pushed(q, limit, g[i - 1], i)
    <3>1. CASE i = n + 1
      <4>1. g[i] = Pushed(q, limit, f[n], n + 1) /\ g[n] = f[n] /\ i - 1 = n /\ i # 0
        BY <1>1, <1>4, <3>1
      <4>. HIDE DEF g
      <4>. QED  BY <3>1, <4>1
    <3>2. CASE i # n + 1
      <4>1. g[i] = f[i] /\ i <= n
        BY <1>4, <2>4, <3>2
      <4>2. i # 0 => g[i - 1] = f[i - 1]
        BY <1>1, <2>4, <3>2, <1>4
      <4>. HIDE DEF g
      <4>. QED  BY <2>1, <4>1, <4>2
    <3>. QED  BY <3>1, <3>2
  <2>. HIDE DEF g
  <2>5. Upto(g, n + 1)
    BY <2>3, <2>4
  <2>. QED  BY <2>5
<1>5. S = Nat
  <2>1. S \in SUBSET Nat
    OBVIOUS
  <2>. HIDE DEF S
  <2>. QED  BY <1>3, <1>4, <2>1, SetInduction
<1>6. \E f : Eq(f)
  <2>1. PICK f : Upto(f, size)
    <3>1. size \in S
      BY <1>1, <1>5
    <3>. HIDE DEF Upto
    <3>. QED  BY <1>1, <3>1 DEF S
  <2>2. Eq(f)
    BY <1>1, <2>1
  <2>. HIDE DEF Eq
  <2>. QED  BY <2>2
<1>7. Eq(heap)
  <2>. HIDE DEF Eq
  <2>. QED  BY <1>6
<1>8. Heap(q, limit) = heap
  BY DEF Heap, Pushed
<1>. HIDE DEF heap, S
<1>9. \A i \in 0..size : heap[i] = IF i = 0 THEN {} ELSE Pushed(q, limit, heap[i - 1], i)
  BY <1>7
<1>10. 0 \in T
  <2>1. heap[0] = {}
    BY <1>1, <1>9
  <2>2. 1..0 = {}
    OBVIOUS
  <2>. QED  BY <2>1, <2>2 DEF Best
<1>11. ASSUME NEW n \in T PROVE n + 1 \in T
  <2>. SUFFICES ASSUME n + 1 <= size PROVE Best(q, limit, heap[n + 1], n + 1)
    OBVIOUS
  <2>1. n \in Nat /\ n <= size /\ Best(q, limit, heap[n], n) /\ n + 1 \in 0..size
        /\ (n + 1) - 1 = n /\ n + 1 # 0
    BY <1>1, <1>11
  <2>2. heap[n + 1] = Pushed(q, limit, heap[n], n + 1)
    BY <1>9, <2>1
  <2>. QED  BY <2>1, <2>2, PushKeepsBest
<1>12. T = Nat
  <2>1. T \in SUBSET Nat
    OBVIOUS
  <2>. HIDE DEF T
  <2>. QED  BY <1>10, <1>11, <2>1, SetInduction
<1>. QED  BY <1>1, <1>8, <1>12

\* search finds min(limit, len) memories, nearest first in, for every limit.
LEMMA SearchFinds ==
    ASSUME IndexInv, NEW q \in Vectors, NEW limit \in Nat
    PROVE  LET found == SearchIndex(q, limit)
           IN  /\ Cardinality(found) = IF limit < size THEN limit ELSE size
               /\ \A x \in found, y \in DOMAIN index_of \ found :
                    Cosine(q, Held[x], Norm[Held[x]])
                      >= Cosine(q, Held[y], Norm[Held[y]])
<1>. DEFINE found == SearchIndex(q, limit)
            h == Heap(q, limit)[size]
<1>1. IndexTypeOK /\ Consistent /\ size \in Nat /\ limit \in Nat
  BY DEF IndexInv, IndexTypeOK
<1>2. CASE limit = 0
  <2>1. found = {} /\ Cardinality(found) = 0
    BY <1>2, FS_EmptySet DEF SearchIndex
  <2>. QED  BY <1>1, <1>2, <2>1
<1>3. CASE limit # 0
  <2>1. Best(q, limit, h, size)
    BY <1>1, <1>3, HeapIs
  <2>2. found = {ids[i] : i \in h}
    BY <1>3 DEF SearchIndex
  <2>. HIDE DEF h, found
  <2>3. /\ h \in SUBSET (1..size) /\ IsFiniteSet(h)
        /\ Cardinality(h) = IF limit < size THEN limit ELSE size
        /\ \A x \in h, y \in (1..size) \ h : Below(q, y, x)
    <3>1. IsFiniteSet(1..size) /\ Cardinality(1..size) = size
      <4>1. IsFiniteSet(1..size)
            /\ Cardinality(1..size) = IF 1 > size THEN 0 ELSE size - 1 + 1
        BY <1>1, FS_Interval
      <4>. QED  BY <1>1, <4>1
    <3>2. CASE size <= limit /\ h = 1..size
      BY <1>1, <3>1, <3>2
    <3>3. CASE ~(size <= limit /\ h = 1..size)
      <4>1. limit <= size /\ h \subseteq 1..size /\ IsFiniteSet(h) /\ Cardinality(h) = limit
            /\ \A x \in h, y \in (1..size) \ h : Below(q, y, x)
        BY <2>1, <3>3 DEF Best
      <4>. QED  BY <1>1, <4>1
    <3>. QED  BY <3>2, <3>3
  <2>4. Cardinality(found) = Cardinality(h)
    <3>. DEFINE name == [i \in h |-> ids[i]]
    <3>1. name \in Injection(h, found)
      <4>1. name \in [h -> found]
        BY <2>2
      <4>2. \A i, j \in h : name[i] = name[j] => i = j
        BY <1>1, <2>3 DEF Consistent
      <4>. HIDE DEF name
      <4>. QED  BY <4>1, <4>2 DEF Injection, IsInjective
    <3>2. name \in Surjection(h, found)
      BY <2>2 DEF Surjection
    <3>3. name \in Bijection(h, found)
      BY <3>1, <3>2 DEF Bijection
    <3>. HIDE DEF name
    <3>. QED  BY <2>3, <3>3, FS_Bijection DEF ExistsBijection
  <2>5. ASSUME NEW i \in 1..size
        PROVE  /\ Score(q, i) = Cosine(q, Held[ids[i]], Norm[Held[ids[i]]])
               /\ Score(q, i) \in Int
    <3>1. ids[i] \in Ids /\ ids[i] \in DOMAIN index_of /\ index_of[ids[i]] = i
          /\ norms[i] = Norm[vectors[i]]
      BY <1>1 DEF IndexTypeOK, Consistent
    <3>2. Held[ids[i]] = vectors[i]
      BY <3>1 DEF Held
    <3>. QED  BY <1>1, <3>1, <3>2, ScoreType DEF Score
  <2>6. ASSUME NEW x \in found, NEW y \in DOMAIN index_of \ found
        PROVE  Cosine(q, Held[x], Norm[Held[x]]) >= Cosine(q, Held[y], Norm[Held[y]])
    <3>1. PICK i \in h : x = ids[i]
      BY <2>2
    <3>. DEFINE j == index_of[y]
    <3>2. j \in 1..size /\ ids[j] = y
      BY <1>1 DEF IndexTypeOK, Consistent
    <3>3. j \notin h
      BY <2>2, <2>6, <3>2
    <3>4. Below(q, j, i) /\ i \in 1..size
      BY <2>3, <3>2, <3>3
    <3>. HIDE DEF j
    <3>5. Score(q, i) >= Score(q, j)
      BY <2>5, <3>2, <3>4 DEF Below
    <3>. QED  BY <2>5, <3>1, <3>2, <3>4, <3>5
  <2>. QED  BY <2>3, <2>4, <2>6 DEF found
<1>. QED  BY <1>2, <1>3

\* After any operations, and for every query and limit, search returns the
\* nearest memories: its bounded heap loses none, and no cached norm is stale.
THEOREM SearchIndexCorrect == IndexSpec => []SearchIsTopK
<1>1. IndexInv => SearchIsTopK
  <2>. SUFFICES ASSUME IndexInv, NEW q \in Vectors, NEW limit \in 0..(size + 1)
                PROVE  LET found == SearchIndex(q, limit)
                       IN  /\ Cardinality(found) = IF limit < size THEN limit ELSE size
                           /\ \A x \in found, y \in DOMAIN index_of \ found :
                                Cosine(q, Held[x], Norm[Held[x]])
                                  >= Cosine(q, Held[y], Norm[Held[y]])
    BY DEF SearchIsTopK
  <2>1. limit \in Nat
    BY DEF IndexInv, IndexTypeOK
  <2>. QED  BY <2>1, SearchFinds
<1>. QED  BY <1>1, IndexInitInv, IndexNextInv, PTL DEF IndexSpec

\* What VectorStore lets a probe answer is what the arrays answer: whenever
\* the arrays hold the store's index, their search is one of the store's.
THEOREM ProbeIsIndexSearch ==
    ASSUME IndexInv, index = Held,
           NEW q \in Vectors, \A v \in Vectors : Sim[q][v] = Cosine(q, v, Norm[v]),
           NEW depth \in Nat
    PROVE  SearchIndex(q, depth) \in Nearest(Indexed, depth, Scores(q))
<1>. DEFINE found == SearchIndex(q, depth)
<1>1. /\ size \in Nat /\ DOMAIN index_of \subseteq Ids
      /\ \A id \in DOMAIN index_of : index_of[id] \in 1..size /\ ids[index_of[id]] = id
      /\ \A i \in 1..size : ids[i] \in DOMAIN index_of /\ index_of[ids[i]] = i
      /\ \A i \in 1..size : vectors[i] \in Vectors
  BY DEF IndexInv, IndexTypeOK, Consistent
<1>2. Indexed = DOMAIN index_of
  BY <1>1, VectorIndexAssumption DEF Indexed, Held
<1>3. \A id \in Indexed : Scores(q)[id] = Cosine(q, Held[id], Norm[Held[id]])
  <2>. SUFFICES ASSUME NEW id \in Indexed
                PROVE  Scores(q)[id] = Cosine(q, Held[id], Norm[Held[id]])
    OBVIOUS
  <2>1. Held[id] \in Vectors
    BY <1>1, <1>2 DEF Held
  <2>. QED  BY <2>1 DEF Scores
<1>4. /\ Cardinality(found) = IF depth < size THEN depth ELSE size
      /\ \A x \in found, y \in Indexed \ found : Scores(q)[x] >= Scores(q)[y]
      /\ found \subseteq Indexed
  <2>1. found \subseteq DOMAIN index_of
    <3>1. CASE depth = 0
      BY <3>1 DEF SearchIndex
    <3>2. CASE depth # 0
      <4>1. Heap(q, depth)[size] \subseteq 1..size
        BY <1>1, <3>2, HeapIs DEF Best, IndexInv
      <4>. QED  BY <1>1, <3>2, <4>1 DEF SearchIndex
    <3>. QED  BY <3>1, <3>2
  <2>. HIDE DEF found
  <2>2. /\ Cardinality(found) = IF depth < size THEN depth ELSE size
        /\ \A x \in found, y \in DOMAIN index_of \ found :
             Cosine(q, Held[x], Norm[Held[x]]) >= Cosine(q, Held[y], Norm[Held[y]])
    BY SearchFinds DEF found
  <2>. QED  BY <1>2, <1>3, <2>1, <2>2
<1>5. IsFiniteSet(Indexed) /\ Cardinality(Indexed) = size
  <2>1. index_of \in Bijection(DOMAIN index_of, 1..size)
    <3>1. index_of \in [DOMAIN index_of -> 1..size]
      BY DEF IndexInv, IndexTypeOK
    <3>2. index_of \in Injection(DOMAIN index_of, 1..size)
      BY <1>1, <3>1 DEF Injection, IsInjective
    <3>3. index_of \in Surjection(DOMAIN index_of, 1..size)
      BY <1>1, <3>1 DEF Surjection
    <3>. QED  BY <3>2, <3>3 DEF Bijection
  <2>2. IsFiniteSet(1..size) /\ Cardinality(1..size) = size
    <3>1. IsFiniteSet(1..size)
          /\ Cardinality(1..size) = IF 1 > size THEN 0 ELSE size - 1 + 1
      BY <1>1, FS_Interval
    <3>. QED  BY <1>1, <3>1
  <2>3. IsFiniteSet(Indexed)
    BY <1>1, <1>2, VectorStoreAssumption, FS_Subset
  <2>4. Cardinality(Indexed) = Cardinality(1..size)
    BY <1>2, <2>1, <2>3, FS_Bijection DEF ExistsBijection
  <2>. QED  BY <2>2, <2>3, <2>4
<1>6. depth < size \/ found = Indexed
  <2>. HIDE DEF found
  <2>. QED  BY <1>4, <1>5, FS_Subset
<1>7. Cardinality(found) = depth \/ (Cardinality(found) < depth /\ found = Indexed)
  <2>. HIDE DEF found
  <2>. QED  BY <1>1, <1>4, <1>5, <1>6
<1>. QED  BY <1>4, <1>7 DEF Nearest
=============================================================================
