---------------------------- MODULE ReplayProofs ----------------------------
(***************************************************************************)
(* Proofs about Replay, for any units, messages, checkpoints, questions,   *)
(* batch sizes, numbers of jobs, failures and ticks of the server: what a  *)
(* question can have been answered from, what a unit writes, and that the  *)
(* report counts every question of the runs that came back.                *)
(***************************************************************************)
EXTENDS Replay, FiniteSetTheorems, FunctionTheorems, SequenceTheorems,
        WellFoundedInduction, TLAPS

-----------------------------------------------------------------------------
(* Recursion and induction.                                                *)

LEMMA SetInduction ==
    ASSUME NEW S \in SUBSET Nat, 0 \in S, \A n \in S : n + 1 \in S
    PROVE  S = Nat
<1>. SUFFICES ASSUME Nat \ S # {} PROVE FALSE
  OBVIOUS
<1>1. IsWellFoundedOn(OpToRel(<, Nat), Nat)
  BY NatLessThanWellFounded
<1>2. PICK n \in Nat \ S : \A m \in Nat \ S : ~ (<<m, n>> \in OpToRel(<, Nat))
  BY <1>1, WFMin
<1>3. \A m \in Nat \ S : ~(m < n)
  BY <1>2 DEF OpToRel
<1>4. n # 0 /\ n - 1 \in Nat /\ n - 1 < n
  OBVIOUS
<1>5. n - 1 \in S
  BY <1>3, <1>4
<1>. QED  BY <1>5

-----------------------------------------------------------------------------
(* Sequences of a set's elements.                                          *)

Increasing(s) == \A i, j \in DOMAIN s : i < j => s[i] < s[j]

LEMMA GreatestExists ==
    ASSUME NEW S \in SUBSET Int, IsFiniteSet(S), S # {}
    PROVE  \E m \in S : \A x \in S : x <= m
<1>. DEFINE Has(U) == \E m \in U : \A x \in U : x <= m
            T == {n \in Nat : \A U \in SUBSET S : Cardinality(U) = n /\ U # {} => Has(U)}
<1>1. ASSUME NEW U \in SUBSET S PROVE IsFiniteSet(U) /\ Cardinality(U) \in Nat
  BY FS_Subset, FS_CardinalityType
<1>2. 0 \in T
  <2>1. \A U \in SUBSET S : Cardinality(U) = 0 => U = {}
    BY <1>1, FS_EmptySet
  <2>. HIDE DEF Has
  <2>. QED  BY <2>1
<1>3. ASSUME NEW n \in T PROVE n + 1 \in T
  <2>. SUFFICES ASSUME NEW U \in SUBSET S, Cardinality(U) = n + 1, U # {}
                PROVE  Has(U)
    OBVIOUS
  <2>1. PICK a \in U : TRUE
    OBVIOUS
  <2>. DEFINE W == U \ {a}
  <2>2. W \in SUBSET S /\ Cardinality(W) = n
    <3>1. Cardinality(W) = Cardinality(U) - 1
      BY <1>1, FS_RemoveElement
    <3>. QED  BY <3>1
  <2>3. CASE W = {}
    <3>1. U = {a} /\ a \in Int
      BY <2>3
    <3>. QED  BY <3>1
  <2>4. CASE W # {}
    <3>1. Has(W)
      <4>. HIDE DEF Has, W
      <4>. QED  BY <2>2, <2>4, <1>3
    <3>2. PICK m \in W : \A x \in W : x <= m
      BY <3>1
    <3>3. m \in Int /\ a \in Int /\ m \in U
      OBVIOUS
    <3>4. \A x \in U : x = a \/ x <= m
      BY <3>2
    <3>5. CASE a <= m
      BY <3>3, <3>4, <3>5
    <3>6. CASE m < a
      <4>1. \A x \in U : x <= a
        BY <3>3, <3>4, <3>6
      <4>. QED  BY <4>1
    <3>. QED  BY <3>3, <3>5, <3>6
  <2>. QED  BY <2>3, <2>4
<1>4. T = Nat
  <2>1. T \in SUBSET Nat
    OBVIOUS
  <2>. HIDE DEF T
  <2>. QED  BY <1>2, <1>3, <2>1, SetInduction
<1>. HIDE DEF Has
<1>5. Has(S)
  BY <1>1, <1>4
<1>. QED  BY <1>5 DEF Has

LEMMA IncreasingExists ==
    ASSUME NEW S \in SUBSET Int, IsFiniteSet(S)
    PROVE  \E s \in [1..Cardinality(S) -> S] : Increasing(s)
<1>. DEFINE Has(U, n) == \E s \in [1..n -> U] : Increasing(s)
            T == {n \in Nat : \A U \in SUBSET S : Cardinality(U) = n => Has(U, n)}
<1>1. ASSUME NEW U \in SUBSET S PROVE IsFiniteSet(U) /\ Cardinality(U) \in Nat
  BY FS_Subset, FS_CardinalityType
<1>2. 0 \in T
  <2>1. ASSUME NEW U PROVE Has(U, 0)
    <3>1. [i \in 1..0 |-> i] \in [1..0 -> U] /\ Increasing([i \in 1..0 |-> i])
      BY DEF Increasing
    <3>. QED  BY <3>1
  <2>. HIDE DEF Has
  <2>. QED  BY <2>1
<1>3. ASSUME NEW n \in T PROVE n + 1 \in T
  <2>. SUFFICES ASSUME NEW U \in SUBSET S, Cardinality(U) = n + 1
                PROVE  Has(U, n + 1)
    OBVIOUS
  <2>0. n \in Nat
    OBVIOUS
  <2>1. U # {} /\ U \in SUBSET Int
    BY <1>1, <2>0, FS_EmptySet
  <2>2. PICK m \in U : \A x \in U : x <= m
    BY <1>1, <2>1, GreatestExists
  <2>. DEFINE W == U \ {m}
  <2>3. W \in SUBSET S /\ Cardinality(W) = n
    <3>1. Cardinality(W) = Cardinality(U) - 1
      BY <1>1, FS_RemoveElement
    <3>. QED  BY <3>1
  <2>4. Has(W, n)
    <3>. HIDE DEF Has, W
    <3>. QED  BY <2>3, <1>3
  <2>5. PICK s \in [1..n -> W] : Increasing(s)
    BY <2>4
  <2>. DEFINE r == [i \in 1..(n + 1) |-> IF i = n + 1 THEN m ELSE s[i]]
  <2>6. r \in [1..(n + 1) -> U]
    BY <2>0
  <2>7. \A x \in W : x \in Int /\ x < m
    BY <2>1, <2>2
  <2>8. Increasing(r)
    <3>. SUFFICES ASSUME NEW i \in 1..(n + 1), NEW j \in 1..(n + 1), i < j
                  PROVE  r[i] < r[j]
      BY DEF Increasing
    <3>1. CASE j = n + 1
      <4>1. i \in 1..n /\ r[i] = s[i] /\ r[j] = m
        BY <2>0, <3>1
      <4>. HIDE DEF r, W
      <4>. QED  BY <2>7, <4>1
    <3>2. CASE j # n + 1
      <4>1. i \in 1..n /\ j \in 1..n /\ r[i] = s[i] /\ r[j] = s[j]
        BY <2>0, <3>2
      <4>. QED  BY <2>5, <4>1 DEF Increasing
    <3>. QED  BY <3>1, <3>2
  <2>. HIDE DEF r
  <2>. QED  BY <2>6, <2>8
<1>4. T = Nat
  <2>1. T \in SUBSET Nat
    OBVIOUS
  <2>. HIDE DEF T
  <2>. QED  BY <1>2, <1>3, <2>1, SetInduction
<1>. HIDE DEF Has
<1>5. Has(S, Cardinality(S))
  BY <1>1, <1>4
<1>. QED  BY <1>5 DEF Has

\* Ascending lists each element once.
LEMMA AscendingIs ==
    ASSUME NEW S \in SUBSET Int, IsFiniteSet(S)
    PROVE  /\ Ascending(S) \in Seq(S)
           /\ Increasing(Ascending(S))
           /\ IsInjective(Ascending(S))
           /\ Range(Ascending(S)) = S
<1>. DEFINE n == Cardinality(S)
            s == Ascending(S)
<1>1. n \in Nat
  BY FS_CardinalityType
<1>2. s \in [1..n -> S] /\ Increasing(s)
  BY IncreasingExists DEF Ascending, Increasing
<1>. HIDE DEF s, n
<1>3. \A i, j \in 1..n : s[i] = s[j] => i = j
  <2>1. \A i \in 1..n : s[i] \in Int
    BY <1>2
  <2>. QED  BY <1>1, <1>2, <2>1 DEF Increasing
<1>4. IsInjective(s)
  BY <1>2, <1>3 DEF IsInjective
<1>5. s \in Seq(S)
  BY <1>1, <1>2
<1>6. Range(s) = S
  <2>1. s \in Injection(1..n, S)
    BY <1>2, <1>4 DEF Injection
  <2>2. Cardinality(1..n) = n
    <3>1. Cardinality(1..n) = IF 1 > n THEN 0 ELSE n - 1 + 1
      BY <1>1, FS_Interval
    <3>. QED  BY <1>1, <3>1
  <2>3. s \in Surjection(1..n, S)
    BY <2>1, <2>2, FS_Injection DEF n
  <2>. QED  BY <1>2, <2>3 DEF Surjection, Range
<1>. QED  BY <1>2, <1>4, <1>5, <1>6 DEF s

LEMMA SetToSeqIs ==
    ASSUME NEW S, IsFiniteSet(S)
    PROVE  /\ SetToSeq(S) \in Seq(S)
           /\ Len(SetToSeq(S)) = Cardinality(S)
<1>. DEFINE n == Cardinality(S)
<1>1. n \in Nat /\ ExistsBijection(1..n, S)
  BY FS_CardinalityType
<1>2. \E f \in [1..n -> S] : IsInjective(f)
  BY <1>1 DEF ExistsBijection, Bijection, Injection
<1>3. SetToSeq(S) \in [1..n -> S]
  BY <1>2 DEF SetToSeq
<1>. QED  BY <1>1, <1>3

LEMMA ConcatRange ==
    ASSUME NEW S, NEW s \in Seq(S), NEW r \in Seq(S)
    PROVE  Range(s \o r) = Range(s) \cup Range(r)
<1>1. /\ Len(s \o r) = Len(s) + Len(r) /\ s \o r \in Seq(S)
      /\ Len(s) \in Nat /\ Len(r) \in Nat
  BY ConcatProperties
<1>2. \A i \in 1..Len(s) : (s \o r)[i] = s[i]
  BY <1>1, ConcatProperties
<1>3. \A i \in 1..Len(r) : (s \o r)[Len(s) + i] = r[i]
  BY <1>1, ConcatProperties
<1>4. /\ DOMAIN s = 1..Len(s) /\ DOMAIN r = 1..Len(r)
      /\ DOMAIN (s \o r) = 1..(Len(s) + Len(r))
  BY <1>1
<1>. DEFINE m == Len(s)
            k == Len(r)
            c == s \o r
<1>. HIDE DEF m, k, c
<1>5. \A i \in 1..(m + k) : i \in 1..m \/ (i - m \in 1..k /\ m + (i - m) = i)
  BY <1>1 DEF m, k
<1>6. \A i \in DOMAIN c : c[i] \in Range(s) \cup Range(r)
  <2>. SUFFICES ASSUME NEW i \in 1..(m + k) PROVE c[i] \in Range(s) \cup Range(r)
    BY <1>4 DEF c, m, k
  <2>1. CASE i \in 1..m
    BY <1>2, <1>4, <2>1 DEF c, m, Range
  <2>2. CASE i - m \in 1..k /\ m + (i - m) = i
    <3>1. c[m + (i - m)] = r[i - m]
      BY <1>3, <2>2 DEF c, m, k
    <3>. QED  BY <1>4, <2>2, <3>1 DEF k, Range
  <2>. QED  BY <1>5, <2>1, <2>2
<1>7. \A i \in 1..m : s[i] \in Range(c)
  <2>1. \A i \in 1..m : i \in DOMAIN c /\ c[i] = s[i]
    BY <1>1, <1>2, <1>4 DEF c, m
  <2>. QED  BY <2>1 DEF Range
<1>8. \A i \in 1..k : r[i] \in Range(c)
  <2>1. \A i \in 1..k : m + i \in DOMAIN c /\ c[m + i] = r[i]
    BY <1>1, <1>3, <1>4 DEF c, m, k
  <2>. QED  BY <2>1 DEF Range
<1>9. Range(s) = {s[i] : i \in 1..m} /\ Range(r) = {r[i] : i \in 1..k}
  BY <1>4 DEF Range, m, k
<1>10. Range(c) = {c[i] : i \in DOMAIN c}
  BY DEF Range
<1>. QED  BY <1>6, <1>7, <1>8, <1>9, <1>10 DEF c

LEMMA ConcatInjective ==
    ASSUME NEW S, NEW s \in Seq(S), NEW r \in Seq(S),
           IsInjective(s), IsInjective(r), Range(s) \cap Range(r) = {}
    PROVE  IsInjective(s \o r)
<1>. DEFINE m == Len(s)
            k == Len(r)
            c == s \o r
<1>1. m \in Nat /\ k \in Nat /\ DOMAIN s = 1..m /\ DOMAIN r = 1..k
      /\ DOMAIN c = 1..(m + k)
  BY ConcatProperties
<1>2. \A i \in 1..(m + k) : c[i] = IF i <= m THEN s[i] ELSE r[i - m]
  BY ConcatProperties
<1>. HIDE DEF m, k, c
<1>3. \A i \in 1..m, j \in 1..k : s[i] # r[j]
  BY <1>1 DEF Range
<1>4. ASSUME NEW i \in 1..(m + k), NEW j \in 1..(m + k), c[i] = c[j]
      PROVE  i = j
  <2>1. CASE i <= m /\ j <= m
    BY <1>1, <1>2, <1>4, <2>1 DEF IsInjective
  <2>2. CASE i <= m /\ ~(j <= m)
    <3>1. i \in 1..m /\ j - m \in 1..k
      BY <1>1, <2>2
    <3>. QED  BY <1>2, <1>3, <1>4, <2>2, <3>1
  <2>3. CASE ~(i <= m) /\ j <= m
    <3>1. j \in 1..m /\ i - m \in 1..k
      BY <1>1, <2>3
    <3>. QED  BY <1>2, <1>3, <1>4, <2>3, <3>1
  <2>4. CASE ~(i <= m) /\ ~(j <= m)
    <3>1. i - m \in 1..k /\ j - m \in 1..k
      BY <1>1, <2>4
    <3>2. i - m = j - m
      BY <1>1, <1>2, <1>4, <2>4, <3>1 DEF IsInjective
    <3>. QED  BY <1>1, <3>2
  <2>. QED  BY <2>1, <2>2, <2>3, <2>4
<1>. QED  BY <1>1, <1>4 DEF IsInjective, c

LEMMA PrefixInjective ==
    ASSUME NEW S, NEW s \in Seq(S), NEW r \in Seq(S), IsInjective(s \o r)
    PROVE  IsInjective(s)
BY DEF IsInjective

\* Cutting the front off.
LEMMA CutConcat ==
    ASSUME NEW S, NEW s \in Seq(S), NEW n \in Nat, n <= Len(s)
    PROVE  /\ SubSeq(s, 1, n) \in Seq(S)
           /\ SubSeq(s, n + 1, Len(s)) \in Seq(S)
           /\ SubSeq(s, 1, n) \o SubSeq(s, n + 1, Len(s)) = s
<1>. DEFINE m == Len(s)
            a == SubSeq(s, 1, n)
            b == SubSeq(s, n + 1, m)
<1>1. m \in Nat /\ \A i \in 1..m : s[i] \in S
  OBVIOUS
<1>2. a \in Seq(S) /\ Len(a) = n /\ \A i \in 1..n : a[i] = s[i]
  <2>1. \A i \in 1..n : s[i] \in S
    BY <1>1
  <2>2. /\ a \in Seq(S) /\ Len(a) = IF 1 <= n THEN n - 1 + 1 ELSE 0
        /\ \A i \in 1..(n - 1 + 1) : a[i] = s[1 + i - 1]
    BY <2>1, SubSeqProperties
  <2>. QED  BY <2>2
<1>3. b \in Seq(S) /\ Len(b) = m - n /\ \A i \in 1..(m - n) : b[i] = s[n + i]
  <2>1. \A i \in (n + 1)..m : s[i] \in S
    BY <1>1
  <2>2. /\ b \in Seq(S) /\ Len(b) = IF n + 1 <= m THEN m - (n + 1) + 1 ELSE 0
        /\ \A i \in 1..(m - (n + 1) + 1) : b[i] = s[(n + 1) + i - 1]
    BY <1>1, <2>1, SubSeqProperties
  <2>3. \A i \in 1..(m - n) : i \in 1..(m - (n + 1) + 1) /\ (n + 1) + i - 1 = n + i
    BY <1>1
  <2>. HIDE DEF b, m
  <2>4. Len(b) = m - n
    BY <1>1, <2>2 DEF m
  <2>. QED  BY <2>2, <2>3, <2>4
<1>. HIDE DEF a, b
<1>4. /\ a \o b \in Seq(S) /\ Len(a \o b) = n + (m - n)
      /\ \A i \in 1..m : (a \o b)[i] = IF i <= n THEN a[i] ELSE b[i - n]
  BY <1>1, <1>2, <1>3, ConcatProperties
<1>5. \A i \in 1..m : (a \o b)[i] = s[i]
  <2>. SUFFICES ASSUME NEW i \in 1..m PROVE (a \o b)[i] = s[i]
    OBVIOUS
  <2>1. CASE i <= n
    BY <1>1, <1>2, <1>4, <2>1
  <2>2. CASE ~(i <= n)
    <3>1. i - n \in 1..(m - n) /\ n + (i - n) = i
      BY <1>1, <2>2
    <3>. QED  BY <1>3, <1>4, <2>2, <3>1
  <2>. QED  BY <2>1, <2>2
<1>6. a \o b = s
  <2>1. Len(a \o b) = m /\ Len(s) = m
    BY <1>1, <1>4
  <2>. QED  BY <1>4, <1>5, <2>1, SeqEqual
<1>. QED  BY <1>2, <1>3, <1>6 DEF a, b

-----------------------------------------------------------------------------
(* The inductive invariant.                                                *)

Points == Nat \cup {-1}

\* A row that has no abstract waits for one.
Kept == {r \in Rows : r.abstract \/ r.pending}

Memories == [bucket : Buckets, id : Nat, text : Nat]

Phases == Over \cup {"idle", "next", "write", "drain", "ask"}

Types ==
    /\ command \in Commands
    /\ stored \in [Buckets -> SUBSET Kept]
    /\ batch \in SUBSET Memories
    /\ phase \in [Units -> Phases]
    /\ ends \in [Units -> Seq(Points)]
    /\ prev \in [Units -> Points]
    /\ queue \in [Units -> Seq(Nat)]
    /\ sent \in [Units -> Seq(Nat)]
    /\ waited \in [Units -> 0..Budget]
    /\ asked \in [Questions -> Answered \cup {"new"} \cup Range(Stages)]
    /\ tries \in [Questions -> 0..(Attempts - 1)]
    /\ records \in [Units -> Seq(Questions)]
    /\ errors \in [Units -> Nat]
    /\ skipped \in [Units -> Nat]

\* The unit is at a checkpoint; its run goes on.
Open(u) == phase[u] \in {"write", "drain", "ask"}
Active(u) == Open(u) \/ phase[u] = "next"

\* How far the unit has been replayed.
Reached(u) == IF phase[u] = "next" THEN prev[u] ELSE Head(ends[u])

\* What the unit may have written by then.
Seen(u, end) == {i \in 0..end : i < Messages[u] /\ i \notin Boilerplate(u)}

Untouched(u) ==
    phase[u] = "idle" =>
        /\ prev[u] = -1 /\ sent[u] = <<>> /\ stored[Bucket[u]] = {}
        /\ \A m \in batch : m.bucket # Bucket[u]
        /\ records[u] = <<>> /\ errors[u] = 0 /\ skipped[u] = 0

\* The checkpoints to come ascend from the last one.
Path(u) ==
    /\ Increasing(ends[u])
    /\ \A i \in DOMAIN ends[u] : prev[u] <= ends[u][i]
    /\ command # "pm" => Len(ends[u]) <= 1
    /\ Open(u) => ends[u] # <<>>
    /\ phase[u] = "done" => ends[u] = <<>>

\* Written and about to be written: no message twice, and none missing.
Script(u) == sent[u] \o queue[u]

Writing(u) ==
    /\ IsInjective(Script(u))
    /\ phase[u] \notin {"write", "failed"} => queue[u] = <<>>
    /\ Active(u) /\ command \in {"pm", "ingest"} =>
          Range(Script(u)) = Seen(u, Reached(u))

\* The bucket holds nothing from later, nor does the tick for the bucket.
Early(u, end) ==
    /\ \A r \in stored[Bucket[u]] : r.text \in 0..end
    /\ \A m \in batch : m.bucket = Bucket[u] => m.text \in 0..end

Holding(u) == command = "pm" /\ Active(u) => Early(u, Reached(u))

\* The questions of the checkpoints that are over.
Passed(u) ==
    IF command = "pm" THEN {q \in Of(u) : EndOf[q] \notin Range(ends[u])}
    ELSE IF ends[u] = <<>> THEN Of(u) ELSE {}

Accounted(u) ==
    command # "ingest" /\ (Active(u) \/ phase[u] = "done") =>
        Len(records[u]) + errors[u] + skipped[u] = Cardinality(Passed(u))

UnitInv(u) == Untouched(u) /\ Path(u) /\ Writing(u) /\ Holding(u) /\ Accounted(u)

\* A question is called for only at its checkpoint.
Timely(q) ==
    asked[q] \in Range(Stages) => /\ phase[UnitOf[q]] = "ask"
                                  /\ q \in Due(UnitOf[q])

QuestionsInv == \A q \in Questions : Timely(q)

IInv == /\ Types /\ QuestionsInv /\ AbstractedOrLate
        /\ \A u \in Units : UnitInv(u)

-----------------------------------------------------------------------------
(* What the steps leave alone.                                             *)

LEMMA StagesAre ==
    /\ Range(Stages) \subseteq {"search", "answer", "judge"}
    /\ "search" \in Range(Stages)
    /\ \A stage \in Range(Stages) : Following(stage) \in Range(Stages) \cup {"ok"}
<1>1. CASE command = "qa"
  <2>1. Stages = <<"search", "answer", "judge">>
    BY <1>1 DEF Stages
  <2>2. DOMAIN Stages = {1, 2, 3} /\ Len(Stages) = 3
    BY <2>1
  <2>3. Range(Stages) = {"search", "answer", "judge"}
    BY <2>1, <2>2 DEF Range
  <2>4. ASSUME NEW stage \in Range(Stages)
        PROVE  Following(stage) \in Range(Stages) \cup {"ok"}
    <3>. DEFINE i == CHOOSE i \in DOMAIN Stages : Stages[i] = stage
    <3>1. i \in DOMAIN Stages
      BY DEF Range
    <3>. HIDE DEF i
    <3>2. i = 3 \/ i + 1 \in DOMAIN Stages
      BY <2>2, <3>1
    <3>. QED  BY <2>2, <3>2 DEF Following, i, Range
  <2>. QED  BY <2>3, <2>4
<1>2. CASE command = "pm"
  <2>1. Stages = <<"search", "answer">>
    BY <1>2 DEF Stages
  <2>2. DOMAIN Stages = {1, 2} /\ Len(Stages) = 2
    BY <2>1
  <2>3. Range(Stages) = {"search", "answer"}
    BY <2>1, <2>2 DEF Range
  <2>4. ASSUME NEW stage \in Range(Stages)
        PROVE  Following(stage) \in Range(Stages) \cup {"ok"}
    <3>. DEFINE i == CHOOSE i \in DOMAIN Stages : Stages[i] = stage
    <3>1. i \in DOMAIN Stages
      BY DEF Range
    <3>. HIDE DEF i
    <3>2. i = 2 \/ i + 1 \in DOMAIN Stages
      BY <2>2, <3>1
    <3>. QED  BY <2>2, <3>2 DEF Following, i, Range
  <2>. QED  BY <2>3, <2>4
<1>3. CASE command \notin {"qa", "pm"}
  <2>1. Stages = <<"search">>
    BY <1>3 DEF Stages
  <2>2. DOMAIN Stages = {1} /\ Len(Stages) = 1
    BY <2>1
  <2>3. Range(Stages) = {"search"}
    BY <2>1, <2>2 DEF Range
  <2>4. ASSUME NEW stage \in Range(Stages)
        PROVE  Following(stage) \in Range(Stages) \cup {"ok"}
    <3>. DEFINE i == CHOOSE i \in DOMAIN Stages : Stages[i] = stage
    <3>1. i \in DOMAIN Stages
      BY DEF Range
    <3>. HIDE DEF i
    <3>2. i = 1
      BY <2>2, <3>1
    <3>. QED  BY <2>2, <3>2 DEF Following, i
  <2>. QED  BY <2>3, <2>4
<1>. QED  BY <1>1, <1>2, <1>3

LEMMA StagesKept ==
    ASSUME command' = command
    PROVE  Stages' = Stages
BY DEF Stages

SameUnit(u) ==
    /\ command' = command
    /\ phase'[u] = phase[u] /\ ends'[u] = ends[u] /\ prev'[u] = prev[u]
    /\ queue'[u] = queue[u] /\ sent'[u] = sent[u]
    /\ stored'[Bucket[u]] = stored[Bucket[u]] /\ batch' = batch
    /\ records'[u] = records[u] /\ errors'[u] = errors[u] /\ skipped'[u] = skipped[u]

LEMMA SameUnitInv ==
    ASSUME NEW u, UnitInv(u), SameUnit(u)
    PROVE  UnitInv(u)'
<1>1. Untouched(u)' /\ Path(u)'
  BY DEF UnitInv, SameUnit, Untouched, Path, Open
<1>2. Script(u)' = Script(u) /\ (Active(u)' <=> Active(u))
  BY DEF SameUnit, Script, Active, Open
<1>3. Reached(u)' = Reached(u) /\ Seen(u, Reached(u))' = Seen(u, Reached(u))
  BY DEF SameUnit, Reached, Seen, Boilerplate
<1>4. Writing(u)'
  BY <1>2, <1>3 DEF UnitInv, SameUnit, Writing
<1>5. Holding(u)'
  BY <1>2, <1>3 DEF UnitInv, SameUnit, Holding, Early
<1>6. Passed(u)' = Passed(u)
  BY DEF SameUnit, Passed
<1>7. Accounted(u)'
  BY <1>2, <1>6 DEF UnitInv, SameUnit, Accounted
<1>. QED  BY <1>1, <1>4, <1>5, <1>7 DEF UnitInv

\* Questions in flight are those of units that ask, and a step that is not
\* theirs leaves them their checkpoint.
LEMMA QuestionsKept ==
    ASSUME QuestionsInv, command' = command, asked' = asked,
           command # "ingest" => \A u \in Units : phase[u] = "ask" =>
                phase'[u] = phase[u] /\ ends'[u] = ends[u]
    PROVE  QuestionsInv'
<1>1. ASSUME NEW q \in Questions PROVE Timely(q)'
  <2>. SUFFICES ASSUME asked[q] \in Range(Stages)
                PROVE  phase'[UnitOf[q]] = "ask" /\ q \in Due(UnitOf[q])'
    BY StagesKept DEF Timely
  <2>1. /\ UnitOf[q] \in Units
        /\ phase[UnitOf[q]] = "ask" /\ q \in Due(UnitOf[q])
    BY ReplayAssumption DEF QuestionsInv, Timely
  <2>2. /\ phase'[UnitOf[q]] = "ask" /\ ends'[UnitOf[q]] = ends[UnitOf[q]]
    BY <2>1 DEF Due
  <2>. QED  BY <2>1, <2>2 DEF Due
<1>. QED  BY <1>1 DEF QuestionsInv

LEMMA AbstractedKept ==
    ASSUME AbstractedOrLate, command' = command,
           \A u \in Units : phase'[u] = "ask" =>
                /\ phase[u] = "ask" /\ waited'[u] = waited[u]
                /\ stored'[Bucket[u]] = stored[Bucket[u]]
    PROVE  AbstractedOrLate'
BY DEF AbstractedOrLate

\* A step of one unit.
Alone(u) == \A v \in Units \ {u} : SameUnit(v)

LEMMA AloneInv ==
    ASSUME IInv, NEW u \in Units, Alone(u), Types', UnitInv(u)', QuestionsInv', AbstractedOrLate'
    PROVE  IInv'
<1>1. ASSUME NEW v \in Units PROVE UnitInv(v)'
  BY SameUnitInv DEF IInv, Alone
<1>. QED  BY <1>1 DEF IInv

LEMMA CheckpointsAre ==
    ASSUME NEW u \in Units
    PROVE  /\ Checkpoints(u) \in Seq(Points)
           /\ Increasing(Checkpoints(u))
           /\ Range(Checkpoints(u)) = {EndOf[q] : q \in Of(u)}
           /\ \A i \in DOMAIN Checkpoints(u) : -1 <= Checkpoints(u)[i]
<1>. DEFINE S == {EndOf[q] : q \in Of(u)}
<1>1. IsFiniteSet(S)
  <2>1. IsFiniteSet(Of(u))
    BY ReplayAssumption, FS_Subset DEF Of
  <2>2. [q \in Of(u) |-> EndOf[q]] \in Surjection(Of(u), S)
    BY DEF Surjection
  <2>. QED  BY <2>1, <2>2, FS_Surjection
<1>2. S \in SUBSET Nat
  BY ReplayAssumption DEF Of
<1>. HIDE DEF S
<1>3. /\ Ascending(S) \in Seq(S)
      /\ Increasing(Ascending(S))
      /\ Range(Ascending(S)) = S
  BY <1>1, <1>2, AscendingIs
<1>4. Ascending(S) \in Seq(Points)
  BY <1>2, <1>3, SeqMonotonic DEF Points
<1>5. \A i \in DOMAIN Ascending(S) : -1 <= Ascending(S)[i]
  <2>1. \A i \in DOMAIN Ascending(S) : Ascending(S)[i] \in Range(Ascending(S))
    BY DEF Range
  <2>2. \A x \in S : x \in Int /\ -1 <= x
    BY <1>2
  <2>. QED  BY <1>3, <2>1, <2>2
<1>. QED  BY <1>3, <1>4, <1>5 DEF Checkpoints, S

LEMMA VisibleIs ==
    ASSUME NEW u \in Units, prev[u] \in Points, NEW end \in Points
    PROVE  /\ Ascending(Visible(u, end)) \in Seq(Nat)
           /\ IsInjective(Ascending(Visible(u, end)))
           /\ Range(Ascending(Visible(u, end))) = Visible(u, end)
<1>. DEFINE S == Visible(u, end)
<1>1. S \in SUBSET Nat /\ S \subseteq 0..end
  BY DEF Visible, Points
<1>2. IsFiniteSet(S)
  <2>1. IsFiniteSet(0..end)
    BY FS_Interval DEF Points
  <2>. QED  BY <1>1, <2>1, FS_Subset
<1>. HIDE DEF S
<1>3. /\ Ascending(S) \in Seq(S)
      /\ IsInjective(Ascending(S))
      /\ Range(Ascending(S)) = S
  BY <1>1, <1>2, AscendingIs
<1>4. Ascending(S) \in Seq(Nat)
  BY <1>1, <1>3, SeqMonotonic
<1>. QED  BY <1>3, <1>4 DEF S

LEMMA EmptyScript ==
    /\ <<>> \o <<>> = <<>>
    /\ IsInjective(<<>>) /\ Range(<<>>) = {} /\ Increasing(<<>>)
<1>1. DOMAIN <<>> = {}
  OBVIOUS
<1>. QED  BY <1>1 DEF IsInjective, Range, Increasing

LEMMA NothingSeen == \A u \in Units : Seen(u, -1) = {}
BY DEF Seen

\* A row as insert_memory leaves it, and as consolidation does.
LEMMA NewIs ==
    ASSUME NEW i \in Nat
    PROVE  /\ New(i) \in Kept /\ New(i).text = i
           /\ [New(i) EXCEPT !.abstract = TRUE, !.pending = FALSE] \in Kept
<1>. DEFINE old == [New(i) EXCEPT !.abstract = TRUE, !.pending = FALSE]
<1>1. New(i) \in Rows /\ New(i).text = i /\ New(i).pending = TRUE
  BY DEF New, Rows
<1>2. old \in Rows /\ old.abstract = TRUE
  BY DEF New, Rows
<1>. HIDE DEF old
<1>3. New(i) \in Kept
  BY <1>1 DEF Kept
<1>4. old \in Kept
  BY <1>2 DEF Kept
<1>. QED  BY <1>1, <1>3, <1>4 DEF old

-----------------------------------------------------------------------------
(* The steps of a unit.                                                    *)

LEMMA StartInv ==
    ASSUME IInv, NEW u \in Units, Start(u)
    PROVE  IInv'
<1>1. /\ Types /\ QuestionsInv /\ AbstractedOrLate /\ UnitInv(u)
      /\ phase[u] = "idle" /\ Bucket[u] \in Buckets
  BY DEF IInv, Start, Buckets
<1>2. /\ UNCHANGED <<command, batch, prev, queue, sent, waited, asked, tries,
                     records, errors, skipped>>
      /\ phase' \in [Units -> Phases] /\ phase'[u] \in {"missing", "next"}
      /\ \A v \in Units \ {u} : phase'[v] = phase[v]
  <2>1. phase \in [Units -> Phases]
    BY <1>1 DEF Types
  <2>2. phase' = [phase EXCEPT ![u] = "missing"] \/ phase' = [phase EXCEPT ![u] = "next"]
    BY DEF Start, Become
  <2>. QED  BY <2>1, <2>2 DEF Start, answers, results, Phases, Over
<1>3. Final(u) \in Points /\ <<Final(u)>> \in Seq(Points)
  <2>1. Messages[u] \in Nat
    BY ReplayAssumption
  <2>2. Final(u) \in Points
    BY <2>1 DEF Final, Points
  <2>. QED  BY <2>2
<1>4. /\ Checkpoints(u) \in Seq(Points) /\ Increasing(Checkpoints(u))
      /\ Range(Checkpoints(u)) = {EndOf[q] : q \in Of(u)}
      /\ \A i \in DOMAIN Checkpoints(u) : -1 <= Checkpoints(u)[i]
  BY CheckpointsAre
<1>5. ends' \in [Units -> Seq(Points)] /\ \A v \in Units \ {u} : ends'[v] = ends[v]
  <2>1. ends \in [Units -> Seq(Points)]
    BY <1>1 DEF Types
  <2>. HIDE DEF Points
  <2>2. ends' = ends \/ ends' = [ends EXCEPT ![u] = IF command = "pm" THEN Checkpoints(u)
                                           ELSE <<Final(u)>>]
    BY DEF Start
  <2>. QED  BY <1>3, <1>4, <2>1, <2>2
<1>6. /\ stored' \in [Buckets -> SUBSET Kept]
      /\ \A v \in Units \ {u} : stored'[Bucket[v]] = stored[Bucket[v]]
  <2>. DEFINE new == {[New(i) EXCEPT !.abstract = TRUE, !.pending = FALSE] : i \in 0..Final(u)}
  <2>1. stored \in [Buckets -> SUBSET Kept]
    BY <1>1 DEF Types
  <2>2. stored' = stored \/ stored' = [stored EXCEPT ![Bucket[u]] = new]
    BY DEF Start
  <2>3. new \in SUBSET Kept
    <3>1. \A i \in 0..Final(u) : i \in Nat
      BY <1>3 DEF Points
    <3>. QED  BY <3>1, NewIs
  <2>4. \A v \in Units \ {u} : Bucket[v] # Bucket[u] /\ Bucket[v] \in Buckets
    BY BucketsDiffer DEF Buckets
  <2>. HIDE DEF new
  <2>. QED  BY <1>1, <2>1, <2>2, <2>3, <2>4
<1>7. Types'
  BY <1>1, <1>2, <1>5, <1>6, StagesKept DEF Types
<1>8. Alone(u)
  BY <1>2, <1>5, <1>6 DEF Alone, SameUnit
<1>9. QuestionsInv' /\ AbstractedOrLate'
  <2>1. \A v \in Units : phase[v] = "ask" \/ phase'[v] = "ask" =>
            phase'[v] = phase[v] /\ ends'[v] = ends[v]
    BY <1>1, <1>2, <1>5
  <2>2. \A v \in Units : phase'[v] = "ask" => stored'[Bucket[v]] = stored[Bucket[v]]
    BY <1>2, <1>6
  <2>. QED  BY <1>1, <1>2, <2>1, <2>2, QuestionsKept, AbstractedKept
<1>10. queue[u] = <<>> /\ sent[u] = <<>> /\ prev[u] = -1 /\ stored[Bucket[u]] = {}
       /\ (\A m \in batch : m.bucket # Bucket[u])
       /\ records[u] = <<>> /\ errors[u] = 0 /\ skipped[u] = 0
  BY <1>1 DEF UnitInv, Untouched, Writing
<1>11. Script(u)' = <<>> /\ IsInjective(Script(u)')
  BY <1>2, <1>10, EmptyScript DEF Script
<1>12. CASE phase'[u] = "missing"
  <2>1. Untouched(u)'
    BY <1>12 DEF Untouched
  <2>2. Path(u)'
    <3>1. ends' = ends
      BY <1>1, <1>12 DEF Start, Become, Types
    <3>. QED  BY <1>1, <1>2, <1>12, <3>1 DEF UnitInv, Path, Open
  <2>3. Writing(u)' /\ Holding(u)' /\ Accounted(u)'
    BY <1>2, <1>10, <1>11, <1>12 DEF Writing, Holding, Accounted, Active, Open
  <2>4. UnitInv(u)'
    BY <2>1, <2>2, <2>3 DEF UnitInv
  <2>. QED  BY <1>7, <1>8, <1>9, <2>4, AloneInv
<1>13. CASE phase'[u] = "next"
  <2>0. /\ ends'[u] = IF command = "pm" THEN Checkpoints(u) ELSE <<Final(u)>>
        /\ command = "pm" => stored' = stored
    BY <1>1, <1>13 DEF Start, Become, Types
  <2>1. Untouched(u)'
    BY <1>13 DEF Untouched
  <2>2. Path(u)'
    <3>1. CASE command = "pm"
      BY <1>2, <1>4, <1>10, <1>13, <2>0, <3>1 DEF Path, Open
    <3>2. CASE command # "pm"
      <4>1. /\ DOMAIN <<Final(u)>> = {1} /\ <<Final(u)>>[1] = Final(u)
            /\ Len(<<Final(u)>>) = 1
        OBVIOUS
      <4>2. -1 <= Final(u)
        BY <1>3 DEF Points
      <4>. QED  BY <1>2, <1>10, <1>13, <2>0, <3>2, <4>1, <4>2 DEF Path, Open, Increasing
    <3>. QED  BY <3>1, <3>2
  <2>3. Writing(u)'
    <3>1. Seen(u, Reached(u))' = {} /\ Range(Script(u)') = {}
      BY <1>2, <1>10, <1>11, <1>13, EmptyScript DEF Reached, Seen
    <3>2. queue'[u] = <<>>
      BY <1>2, <1>10
    <3>. QED  BY <1>11, <3>1, <3>2 DEF Writing
  <2>4. Holding(u)'
    <3>1. command = "pm" => stored'[Bucket[u]] = {}
      BY <1>10, <2>0
    <3>. QED  BY <1>2, <1>10, <3>1 DEF Holding, Early
  <2>5. Accounted(u)'
    <3>1. Passed(u)' = {}
      <4>1. CASE command = "pm"
        BY <1>2, <1>4, <2>0, <4>1 DEF Passed
      <4>2. CASE command # "pm"
        BY <1>2, <2>0, <4>2 DEF Passed
      <4>. QED  BY <4>1, <4>2
    <3>2. Len(records'[u]) = 0 /\ errors'[u] = 0 /\ skipped'[u] = 0
      BY <1>2, <1>10
    <3>. QED  BY <3>1, <3>2, FS_EmptySet DEF Accounted
  <2>6. UnitInv(u)'
    BY <2>1, <2>2, <2>3, <2>4, <2>5 DEF UnitInv
  <2>. QED  BY <1>7, <1>8, <1>9, <2>6, AloneInv
<1>. QED  BY <1>2, <1>12, <1>13

\* A step that moves only the unit itself through its phases, and does not
\* begin to ask.
LEMMA StepAlone ==
    ASSUME IInv, NEW u \in Units, NEW where \in Phases \ {"ask"}, phase[u] # "ask",
           Become(u, where),
           UNCHANGED <<command, stored, batch, ends, prev, sent, waited, answers, results>>,
           queue' \in [Units -> Seq(Nat)], \A v \in Units \ {u} : queue'[v] = queue[v],
           UnitInv(u)'
    PROVE  IInv'
<1>1. Types /\ QuestionsInv /\ AbstractedOrLate
  BY DEF IInv
<1>2. /\ phase' \in [Units -> Phases] /\ phase'[u] = where
      /\ \A v \in Units \ {u} : phase'[v] = phase[v]
  BY <1>1 DEF Types, Become
<1>3. UNCHANGED <<asked, tries, records, errors, skipped>>
  BY DEF answers, results
<1>4. Types'
  BY <1>1, <1>2, <1>3, StagesKept DEF Types
<1>5. Alone(u)
  BY <1>2, <1>3 DEF Alone, SameUnit
<1>6. QuestionsInv' /\ AbstractedOrLate'
  <2>1. \A v \in Units : phase[v] = "ask" \/ phase'[v] = "ask" => phase'[v] = phase[v]
    BY <1>1, <1>2
  <2>. QED  BY <1>1, <1>2, <1>3, <2>1, QuestionsKept, AbstractedKept
<1>. QED  BY <1>4, <1>5, <1>6, AloneInv

\* The next checkpoint is no earlier.
LEMMA NextPoint ==
    ASSUME Types, NEW u \in Units, Path(u), ends[u] # <<>>
    PROVE  Head(ends[u]) \in Points /\ prev[u] \in Points /\ prev[u] <= Head(ends[u])
<1>1. ends[u] \in Seq(Points) /\ prev[u] \in Points
  BY DEF Types
<1>2. 1 \in DOMAIN ends[u] /\ Head(ends[u]) = ends[u][1] /\ Head(ends[u]) \in Points
  <2>. HIDE DEF Points
  <2>. QED  BY <1>1
<1>. QED  BY <1>1, <1>2 DEF Path

LEMMA CheckpointInv ==
    ASSUME IInv, NEW u \in Units, Checkpoint(u)
    PROVE  IInv'
<1>. DEFINE end == Head(ends[u])
<1>1. /\ Types /\ Untouched(u) /\ Path(u) /\ Writing(u) /\ Holding(u) /\ Accounted(u)
      /\ phase[u] = "next" /\ ends[u] # <<>>
  BY DEF IInv, UnitInv, Checkpoint
<1>2. end \in Points /\ prev[u] \in Points /\ prev[u] <= end
  BY <1>1, NextPoint
<1>3. /\ Ascending(Visible(u, end)) \in Seq(Nat)
      /\ IsInjective(Ascending(Visible(u, end)))
      /\ Range(Ascending(Visible(u, end))) = Visible(u, end)
  BY <1>2, VisibleIs
<1>4. /\ queue' = [queue EXCEPT ![u] = IF command \in {"pm", "ingest"}
                                       THEN Ascending(Visible(u, end)) ELSE <<>>]
      /\ queue \in [Units -> Seq(Nat)] /\ sent[u] \in Seq(Nat) /\ queue[u] = <<>>
      /\ <<>> \in Seq(Nat)
  BY <1>1 DEF Checkpoint, Types, Writing
<1>5. queue' \in [Units -> Seq(Nat)] /\ \A v \in Units \ {u} : queue'[v] = queue[v]
  BY <1>3, <1>4
<1>6. /\ Become(u, "write") /\ phase'[u] = "write" /\ "write" \in Phases \ {"ask"}
      /\ UNCHANGED <<command, stored, batch, ends, prev, sent, waited, answers, results,
                     records, errors, skipped>>
  BY <1>1 DEF Checkpoint, Become, Types, Phases, Over, server, results
<1>7. Untouched(u)' /\ Path(u)'
  BY <1>1, <1>6 DEF Untouched, Path, Open
<1>8. Script(u) = sent[u]
  BY <1>4 DEF Script
<1>9. Writing(u)'
  <2>1. CASE command \in {"pm", "ingest"}
    <3>1. queue'[u] = Ascending(Visible(u, end))
      BY <1>4, <2>1
    <3>2. IsInjective(sent[u]) /\ Range(sent[u]) = Seen(u, prev[u])
      BY <1>1, <1>8, <2>1 DEF Writing, Active, Reached
    <3>3. Seen(u, prev[u]) \cap Visible(u, end) = {}
      BY <1>2 DEF Seen, Visible, Points
    <3>4. Seen(u, prev[u]) \cup Visible(u, end) = Seen(u, end)
      BY <1>2 DEF Seen, Visible, Points
    <3>5. IsInjective(sent[u] \o queue'[u])
      BY <1>3, <1>4, <3>1, <3>2, <3>3, ConcatInjective
    <3>6. Range(sent[u] \o queue'[u]) = Seen(u, end)
      <4>1. Range(sent[u] \o queue'[u]) = Range(sent[u]) \cup Range(queue'[u])
        BY <1>3, <1>4, <3>1, ConcatRange
      <4>. QED  BY <1>3, <3>1, <3>2, <3>4, <4>1
    <3>7. Script(u)' = sent[u] \o queue'[u]
      BY <1>6 DEF Script
    <3>8. Seen(u, Reached(u))' = Seen(u, end)
      BY <1>6 DEF Reached, Seen, Boilerplate
    <3>. QED  BY <1>6, <3>5, <3>6, <3>7, <3>8 DEF Writing
  <2>2. CASE command \notin {"pm", "ingest"}
    <3>1. Script(u)' = Script(u)
      BY <1>4, <1>6, <2>2 DEF Script
    <3>. QED  BY <1>1, <1>6, <2>2, <3>1 DEF Writing
  <2>. QED  BY <2>1, <2>2
<1>10. Holding(u)'
  <2>1. command = "pm" => Early(u, prev[u])
    BY <1>1 DEF Holding, Active, Reached
  <2>2. 0..prev[u] \subseteq 0..end
    BY <1>2 DEF Points
  <2>3. Reached(u)' = end
    BY <1>6 DEF Reached
  <2>. QED  BY <1>6, <2>1, <2>2, <2>3 DEF Holding, Early
<1>11. Accounted(u)'
  <2>1. Passed(u)' = Passed(u)
    BY <1>6 DEF Passed
  <2>2. Active(u)
    BY <1>1 DEF Active
  <2>. QED  BY <1>1, <1>6, <2>1, <2>2 DEF Accounted
<1>12. UnitInv(u)'
  BY <1>7, <1>9, <1>10, <1>11 DEF UnitInv
<1>. QED  BY <1>1, <1>5, <1>6, <1>12, StepAlone

LEMMA CompleteInv ==
    ASSUME IInv, NEW u \in Units, Complete(u)
    PROVE  IInv'
<1>1. /\ Types /\ Untouched(u) /\ Path(u) /\ Writing(u) /\ Holding(u) /\ Accounted(u)
      /\ phase[u] = "next" /\ ends[u] = <<>>
  BY DEF IInv, UnitInv, Complete
<1>2. /\ Become(u, "done") /\ phase'[u] = "done" /\ "done" \in Phases \ {"ask"}
      /\ UNCHANGED <<command, stored, batch, ends, prev, queue, sent, waited, answers,
                     results, records, errors, skipped>>
  BY <1>1 DEF Complete, Become, Types, Phases, Over, server, results
<1>3. queue' \in [Units -> Seq(Nat)] /\ \A v \in Units \ {u} : queue'[v] = queue[v]
  BY <1>1, <1>2 DEF Types
<1>4. Untouched(u)' /\ Path(u)' /\ Holding(u)'
  BY <1>1, <1>2 DEF Untouched, Path, Open, Holding, Active
<1>5. Writing(u)'
  <2>1. Script(u)' = Script(u) /\ ~Active(u)' /\ queue'[u] = <<>>
    BY <1>1, <1>2 DEF Script, Active, Open, Writing
  <2>. QED  BY <1>1, <2>1 DEF Writing
<1>6. Accounted(u)'
  <2>1. Passed(u)' = Passed(u)
    BY <1>2 DEF Passed
  <2>2. Active(u)
    BY <1>1 DEF Active
  <2>. QED  BY <1>1, <1>2, <2>1, <2>2 DEF Accounted
<1>7. UnitInv(u)'
  BY <1>4, <1>5, <1>6 DEF UnitInv
<1>. QED  BY <1>1, <1>2, <1>3, <1>7, StepAlone

-----------------------------------------------------------------------------
(* Writing and waiting.                                                    *)

LEMMA ChunkIs ==
    ASSUME Types, NEW u \in Units
    PROVE  /\ Chunk(u) \in Seq(Nat)
           /\ SubSeq(queue[u], Len(Chunk(u)) + 1, Len(queue[u])) \in Seq(Nat)
           /\ Chunk(u) \o SubSeq(queue[u], Len(Chunk(u)) + 1, Len(queue[u])) = queue[u]
           /\ Range(Chunk(u)) \subseteq Range(queue[u])
<1>. DEFINE n == Min({BatchSize, Len(queue[u])})
            rest == SubSeq(queue[u], n + 1, Len(queue[u]))
<1>1. queue[u] \in Seq(Nat) /\ Len(queue[u]) \in Nat /\ BatchSize \in Nat
  BY ReplayAssumption DEF Types
<1>2. n \in Nat /\ n <= Len(queue[u])
  <2>. DEFINE a == BatchSize
              b == Len(queue[u])
              Least(x) == x \in {a, b} /\ \A y \in {a, b} : x <= y
  <2>0. a \in Nat /\ b \in Nat
    BY <1>1
  <2>. HIDE DEF a, b
  <2>1. \E x : Least(x)
    <3>1. Least(a) \/ Least(b)
      BY <2>0
    <3>. QED  BY <3>1
  <2>2. n = CHOOSE x \in {a, b} : \A y \in {a, b} : x <= y
    BY DEF Min, a, b
  <2>3. n \in {a, b} /\ \A y \in {a, b} : n <= y
    BY <2>1, <2>2
  <2>4. b = Len(queue[u])
    BY DEF b
  <2>. HIDE DEF n
  <2>. QED  BY <2>0, <2>3, <2>4
<1>. HIDE DEF n
<1>3. Chunk(u) = SubSeq(queue[u], 1, n)
  BY DEF Chunk, n
<1>4. Chunk(u) \in Seq(Nat) /\ rest \in Seq(Nat) /\ Chunk(u) \o rest = queue[u]
  BY <1>1, <1>2, <1>3, CutConcat
<1>5. Len(Chunk(u)) = n
  BY <1>1, <1>2, <1>3
<1>6. Range(queue[u]) = Range(Chunk(u)) \cup Range(rest)
  <2>. HIDE DEF rest
  <2>. QED  BY <1>4, ConcatRange
<1>. QED  BY <1>4, <1>5, <1>6

\* What write_batch may do to the server.
LEMMA HandleIs ==
    ASSUME Types, NEW u \in Units, NEW kept \in SUBSET Nat, Handle(u, kept)
    PROVE  /\ stored' \in [Buckets -> SUBSET Kept]
           /\ \A r \in stored'[Bucket[u]] : r \in stored[Bucket[u]] \/ r.text \in kept
           /\ \A v \in Units \ {u} : stored'[Bucket[v]] = stored[Bucket[v]]
           /\ batch' = batch
<1>. DEFINE new == {New(i) : i \in kept}
<1>1. stored \in [Buckets -> SUBSET Kept] /\ Bucket[u] \in Buckets
  BY DEF Types, Buckets
<1>2. \A v \in Units \ {u} : Bucket[v] # Bucket[u] /\ Bucket[v] \in Buckets
  BY BucketsDiffer DEF Buckets
<1>3. stored' = [stored EXCEPT ![Bucket[u]] = stored[Bucket[u]] \cup new] /\ batch' = batch
  BY DEF Handle
<1>4. new \in SUBSET Kept /\ \A r \in new : r.text \in kept
  BY NewIs
<1>. HIDE DEF new
<1>. QED  BY <1>1, <1>2, <1>3, <1>4

\* Only what has been seen is ever in the queue.
LEMMA QueueSeen ==
    ASSUME Types, NEW u \in Units, Writing(u), phase[u] = "write",
           command \in {"pm", "ingest"}
    PROVE  Range(queue[u]) \subseteq 0..Reached(u)
<1>1. Range(Script(u)) = Seen(u, Reached(u))
  BY DEF Writing, Active, Open
<1>2. Range(Script(u)) = Range(sent[u]) \cup Range(queue[u])
  BY ConcatRange DEF Types, Script
<1>. QED  BY <1>1, <1>2 DEF Seen

LEMMA WriteChunkInv ==
    ASSUME IInv, NEW u \in Units, WriteChunk(u)
    PROVE  IInv'
<1>. DEFINE rest == SubSeq(queue[u], Len(Chunk(u)) + 1, Len(queue[u]))
<1>1. /\ Types /\ QuestionsInv /\ AbstractedOrLate
      /\ Untouched(u) /\ Path(u) /\ Writing(u) /\ Holding(u) /\ Accounted(u)
      /\ phase[u] = "write"
  BY DEF IInv, UnitInv, WriteChunk
<1>2. /\ Chunk(u) \in Seq(Nat) /\ rest \in Seq(Nat)
      /\ Chunk(u) \o rest = queue[u] /\ Range(Chunk(u)) \subseteq Range(queue[u])
  BY <1>1, ChunkIs
<1>3. PICK kept \in SUBSET Range(Chunk(u)) : Handle(u, kept)
  BY DEF WriteChunk
<1>4. kept \in SUBSET Nat
  <2>1. Range(Chunk(u)) \subseteq Nat
    BY <1>2 DEF Range
  <2>. QED  BY <2>1
<1>5. /\ stored' \in [Buckets -> SUBSET Kept]
      /\ \A r \in stored'[Bucket[u]] : r \in stored[Bucket[u]] \/ r.text \in kept
      /\ \A v \in Units \ {u} : stored'[Bucket[v]] = stored[Bucket[v]]
      /\ batch' = batch
  BY <1>1, <1>3, <1>4, HandleIs
<1>6. UNCHANGED <<command, phase, ends, prev, waited, asked, tries, records,
                  errors, skipped>>
  BY DEF WriteChunk, answers, results
<1>7. /\ sent' \in [Units -> Seq(Nat)] /\ sent'[u] = sent[u] \o Chunk(u)
      /\ \A v \in Units \ {u} : sent'[v] = sent[v]
  <2>1. sent \in [Units -> Seq(Nat)] /\ sent[u] \o Chunk(u) \in Seq(Nat)
    BY <1>1, <1>2, ConcatProperties DEF Types
  <2>2. sent' = [sent EXCEPT ![u] = sent[u] \o Chunk(u)]
    BY DEF WriteChunk
  <2>. QED  BY <2>1, <2>2
<1>8. /\ queue' \in [Units -> Seq(Nat)] /\ queue'[u] = rest
      /\ \A v \in Units \ {u} : queue'[v] = queue[v]
  <2>1. queue \in [Units -> Seq(Nat)]
    BY <1>1 DEF Types
  <2>2. queue' = [queue EXCEPT ![u] = rest]
    BY DEF WriteChunk
  <2>. HIDE DEF rest
  <2>. QED  BY <1>2, <2>1, <2>2
<1>. HIDE DEF rest
<1>9. Types'
  BY <1>1, <1>5, <1>6, <1>7, <1>8, StagesKept DEF Types
<1>10. Alone(u)
  BY <1>5, <1>6, <1>7, <1>8 DEF Alone, SameUnit
<1>11. QuestionsInv' /\ AbstractedOrLate'
  BY <1>1, <1>5, <1>6, QuestionsKept, AbstractedKept
<1>12. Script(u)' = Script(u)
  <2>1. sent[u] \in Seq(Nat)
    BY <1>1 DEF Types
  <2>2. \A a, b, c \in Seq(Nat) : (a \o b) \o c = a \o (b \o c)
    BY ConcatAssociative
  <2>3. (sent[u] \o Chunk(u)) \o rest = sent[u] \o (Chunk(u) \o rest)
    BY <1>2, <2>1, <2>2, Zenon
  <2>. QED  BY <1>2, <1>7, <1>8, <2>3 DEF Script
<1>13. Reached(u)' = Reached(u) /\ Seen(u, Reached(u))' = Seen(u, Reached(u))
       /\ (Active(u)' <=> Active(u))
  BY <1>6 DEF Reached, Seen, Boilerplate, Active, Open
<1>14. Untouched(u)' /\ Path(u)'
  BY <1>1, <1>6 DEF Untouched, Path, Open
<1>15. Writing(u)'
  BY <1>1, <1>6, <1>12, <1>13 DEF Writing
<1>16. Holding(u)'
  <2>1. command = "pm" => Early(u, Reached(u))
    BY <1>1 DEF Holding, Active, Open
  <2>2. command = "pm" => kept \subseteq 0..Reached(u)
    BY <1>1, <1>2, QueueSeen
  <2>. QED  BY <1>5, <1>6, <1>13, <2>1, <2>2 DEF Holding, Early
<1>17. Accounted(u)'
  <2>1. Passed(u)' = Passed(u)
    BY <1>6 DEF Passed
  <2>. QED  BY <1>1, <1>6, <1>13, <2>1 DEF Accounted
<1>18. UnitInv(u)'
  BY <1>14, <1>15, <1>16, <1>17 DEF UnitInv
<1>. QED  BY <1>9, <1>10, <1>11, <1>18, AloneInv

\* A unit whose run has failed promises only that it wrote nothing twice.
LEMMA FailedInv ==
    ASSUME NEW u \in Units, UnitInv(u), command' = command, phase'[u] = "failed",
           ends'[u] = ends[u], prev'[u] = prev[u], IsInjective(Script(u)')
    PROVE  UnitInv(u)'
<1>1. Untouched(u)' /\ Path(u)'
  BY DEF UnitInv, Untouched, Path, Open
<1>2. ~Active(u)'
  BY DEF Active, Open
<1>. QED  BY <1>1, <1>2 DEF UnitInv, Writing, Holding, Accounted

LEMMA WriteFailsInv ==
    ASSUME IInv, NEW u \in Units, WriteFails(u)
    PROVE  IInv'
<1>1. /\ Types /\ QuestionsInv /\ AbstractedOrLate /\ UnitInv(u) /\ phase[u] = "write"
  BY DEF IInv, WriteFails
<1>2. Chunk(u) \in Seq(Nat)
  BY <1>1, ChunkIs
<1>3. PICK kept \in SUBSET Range(Chunk(u)) : Handle(u, kept)
  BY DEF WriteFails
<1>4. kept \in SUBSET Nat
  <2>1. Range(Chunk(u)) \subseteq Nat
    BY <1>2 DEF Range
  <2>. QED  BY <2>1
<1>5. /\ stored' \in [Buckets -> SUBSET Kept]
      /\ \A v \in Units \ {u} : stored'[Bucket[v]] = stored[Bucket[v]]
      /\ batch' = batch
  BY <1>1, <1>3, <1>4, HandleIs
<1>6. UNCHANGED <<command, ends, prev, sent, waited, asked, tries, records,
                  errors, skipped>>
  BY DEF WriteFails, answers, results
<1>7. /\ phase' \in [Units -> Phases] /\ phase'[u] = "failed"
      /\ \A v \in Units : \/ phase'[v] = phase[v]
                          \/ phase'[v] = "failed" /\ (v = u \/ command = "ingest")
  BY <1>1 DEF WriteFails, Types, Phases, Over
<1>8. /\ queue' \in [Units -> Seq(Nat)] /\ queue'[u] = <<>>
      /\ \A v \in Units \ {u} : queue'[v] = queue[v]
  <2>1. queue \in [Units -> Seq(Nat)] /\ <<>> \in Seq(Nat)
    BY <1>1 DEF Types
  <2>2. queue' = [queue EXCEPT ![u] = <<>>]
    BY DEF WriteFails
  <2>. QED  BY <2>1, <2>2
<1>9. Types'
  BY <1>1, <1>5, <1>6, <1>7, <1>8, StagesKept DEF Types
<1>10. QuestionsInv'
  BY <1>1, <1>6, <1>7, QuestionsKept
<1>11. AbstractedOrLate'
  <2>1. \A v \in Units : phase'[v] = "ask" => phase[v] = "ask" /\ v # u
    BY <1>1, <1>7
  <2>. QED  BY <1>1, <1>5, <1>6, <2>1, AbstractedKept
<1>12. UnitInv(u)'
  <2>1. sent[u] \in Seq(Nat) /\ queue[u] \in Seq(Nat) /\ sent[u] \o <<>> = sent[u]
    BY <1>1, ConcatEmptySeq DEF Types
  <2>2. IsInjective(sent[u] \o queue[u])
    BY <1>1 DEF UnitInv, Writing, Script
  <2>3. IsInjective(sent[u])
    BY <2>1, <2>2, PrefixInjective
  <2>4. Script(u)' = sent[u]
    BY <1>6, <1>8, <2>1 DEF Script
  <2>. QED  BY <1>1, <1>6, <1>7, <2>3, <2>4, FailedInv
<1>13. ASSUME NEW v \in Units \ {u} PROVE UnitInv(v)'
  <2>1. UnitInv(v)
    BY DEF IInv
  <2>2. CASE phase'[v] = phase[v]
    <3>1. SameUnit(v)
      BY <1>5, <1>6, <1>8, <2>2 DEF SameUnit
    <3>. QED  BY <2>1, <3>1, SameUnitInv
  <2>3. CASE phase'[v] = "failed"
    <3>1. Script(v)' = Script(v)
      BY <1>6, <1>8 DEF Script
    <3>2. IsInjective(Script(v)')
      BY <2>1, <3>1 DEF UnitInv, Writing
    <3>. QED  BY <1>6, <2>1, <2>3, <3>2, FailedInv
  <2>. QED  BY <1>7, <2>2, <2>3
<1>. QED  BY <1>9, <1>10, <1>11, <1>12, <1>13 DEF IInv

\* From writing to asking, perhaps through a drain.
LEMMA OnwardInv ==
    ASSUME IInv, NEW u \in Units, NEW where \in {"drain", "ask"},
           phase[u] \in {"write", "drain"}, queue[u] = <<>>, Become(u, where),
           UNCHANGED <<command, stored, batch, ends, prev, queue, sent, answers, results>>,
           waited' \in [Units -> 0..Budget], \A v \in Units \ {u} : waited'[v] = waited[v],
           AbstractedOrLate'
    PROVE  IInv'
<1>1. /\ Types /\ QuestionsInv /\ UnitInv(u)
  BY DEF IInv
<1>2. /\ phase' \in [Units -> Phases] /\ phase'[u] = where
      /\ \A v \in Units \ {u} : phase'[v] = phase[v]
  BY <1>1 DEF Types, Become, Phases
<1>3. UNCHANGED <<asked, tries, records, errors, skipped>>
  BY DEF answers, results
<1>4. Types'
  BY <1>1, <1>2, <1>3, StagesKept DEF Types
<1>5. Alone(u)
  BY <1>2, <1>3 DEF Alone, SameUnit
<1>6. QuestionsInv'
  <2>1. \A v \in Units : phase[v] = "ask" => phase'[v] = phase[v]
    BY <1>2
  <2>. QED  BY <1>1, <1>3, <2>1, QuestionsKept
<1>7. Active(u) /\ Active(u)' /\ Open(u) /\ Reached(u)' = Reached(u) /\ Script(u)' = Script(u)
      /\ Seen(u, Reached(u))' = Seen(u, Reached(u)) /\ Passed(u)' = Passed(u)
  BY <1>2 DEF Active, Open, Reached, Script, Seen, Boilerplate, Passed
<1>8. Untouched(u)' /\ Path(u)'
  BY <1>1, <1>2, <1>7 DEF UnitInv, Untouched, Path
<1>9. Writing(u)' /\ Holding(u)' /\ Accounted(u)'
  BY <1>1, <1>2, <1>3, <1>7 DEF UnitInv, Writing, Holding, Early, Accounted
<1>10. UnitInv(u)'
  BY <1>8, <1>9 DEF UnitInv
<1>. QED  BY <1>4, <1>5, <1>6, <1>10, AloneInv

LEMMA WrittenInv ==
    ASSUME IInv, NEW u \in Units, Written(u)
    PROVE  IInv'
<1>. DEFINE where == IF command = "pm" /\ Drain THEN "drain" ELSE "ask"
<1>1. /\ Types /\ AbstractedOrLate /\ phase[u] = "write" /\ queue[u] = <<>>
  BY DEF IInv, Written
<1>2. /\ Become(u, where) /\ where \in {"drain", "ask"}
      /\ UNCHANGED <<command, stored, batch, ends, prev, queue, sent, answers, results>>
  BY DEF Written, server
<1>3. waited' \in [Units -> 0..Budget] /\ \A v \in Units \ {u} : waited'[v] = waited[v]
  BY <1>1 DEF Types, Written
<1>4. AbstractedOrLate'
  <2>1. phase'[u] = where /\ \A v \in Units \ {u} : phase'[v] = phase[v]
    BY <1>1, <1>2 DEF Types, Become
  <2>. QED  BY <1>1, <1>2, <1>3, <2>1 DEF AbstractedOrLate
<1>. HIDE DEF where
<1>. QED  BY <1>1, <1>2, <1>3, <1>4, OnwardInv

LEMMA DrainLeftInv ==
    ASSUME IInv, NEW u \in Units, DrainEnds(u) \/ GiveUpDrain(u)
    PROVE  IInv'
<1>1. /\ Types /\ AbstractedOrLate /\ phase[u] = "drain" /\ queue[u] = <<>>
      /\ Become(u, "ask")
      /\ UNCHANGED <<command, stored, batch, ends, prev, queue, sent, waited, answers,
                     results>>
  BY DEF IInv, UnitInv, Writing, DrainEnds, GiveUpDrain, server
<1>2. waited' \in [Units -> 0..Budget] /\ \A v \in Units \ {u} : waited'[v] = waited[v]
  BY <1>1 DEF Types
<1>3. AbstractedOrLate'
  <2>1. phase'[u] = "ask" /\ \A v \in Units \ {u} : phase'[v] = phase[v]
    BY <1>1 DEF Types, Become
  <2>2. (\A r \in stored[Bucket[u]] : r.abstract) \/ ~(waited[u] < Budget)
    <3>1. waited[u] \in 0..Budget /\ Budget \in Nat
      BY <1>1, ReplayAssumption DEF Types
    <3>2. GiveUpDrain(u) => ~(waited[u] < Budget)
      BY <3>1 DEF GiveUpDrain, Exhausted
    <3>3. ASSUME DrainEnds(u), NEW r \in stored[Bucket[u]] PROVE r.abstract
      <4>1. Bucket[u] \in Buckets /\ stored[Bucket[u]] \in SUBSET Kept
        BY <1>1 DEF Types, Buckets
      <4>2. ~r.pending
        <5>1. r.pending => <<Bucket[u], r>> \in Pending
          BY <4>1 DEF Pending
        <5>. QED  BY <3>3, <5>1 DEF DrainEnds, Drained
      <4>. QED  BY <4>1, <4>2 DEF Kept
    <3>. QED  BY <3>2, <3>3
  <2>. QED  BY <1>1, <1>2, <2>1, <2>2 DEF AbstractedOrLate
<1>. QED  BY <1>1, <1>2, <1>3, OnwardInv

\* Steps that touch no unit's own state.
LEMMA UnitsKept ==
    ASSUME IInv,
           UNCHANGED <<command, stored, batch, phase, ends, prev, queue, sent, records, errors,
                       skipped>>
    PROVE  \A u \in Units : UnitInv(u)'
BY SameUnitInv DEF IInv, SameUnit

LEMMA PollInv ==
    ASSUME IInv, NEW u \in Units, Poll(u)
    PROVE  IInv'
<1>1. /\ Types /\ QuestionsInv /\ AbstractedOrLate /\ phase[u] = "drain" /\ waited[u] < Budget
  BY DEF IInv, Poll
<1>2. UNCHANGED <<command, stored, batch, phase, ends, prev, queue, sent, asked, tries,
                  records, errors, skipped>>
  BY DEF Poll, server, answers, results
<1>3. waited' \in [Units -> 0..Budget] /\ \A v \in Units \ {u} : waited'[v] = waited[v]
  <2>1. waited \in [Units -> 0..Budget] /\ waited[u] + 1 \in 0..Budget
    BY <1>1, ReplayAssumption DEF Types
  <2>2. waited' = [waited EXCEPT ![u] = waited[u] + 1]
    BY DEF Poll
  <2>. QED  BY <2>1, <2>2
<1>4. Types'
  BY <1>1, <1>2, <1>3, StagesKept DEF Types
<1>5. QuestionsInv'
  BY <1>1, <1>2, QuestionsKept
<1>6. AbstractedOrLate'
  BY <1>1, <1>2, <1>3 DEF AbstractedOrLate
<1>7. \A v \in Units : UnitInv(v)'
  BY <1>2, UnitsKept
<1>. QED  BY <1>4, <1>5, <1>6, <1>7 DEF IInv

-----------------------------------------------------------------------------
(* The server's tick.                                                      *)

\* The rows it leaves are rows there were, with the content they had or that of
\* a memory listed in their bucket, and none loses its abstract.
Follows(b, n) ==
    \E r \in stored[b] : /\ r.abstract => n.abstract
                         /\ \/ n.text = r.text
                            \/ \E m \in batch : m.bucket = b /\ n.text = m.text

\* What it lists it finds in a bucket.
Listed(n) == n \in batch \/ \E r \in stored[n.bucket] : n.text = r.text

TickIs ==
    /\ stored' \in [Buckets -> SUBSET Kept] /\ batch' \in SUBSET Memories
    /\ \A b \in Buckets : \A n \in stored'[b] : Follows(b, n)
    /\ \A n \in batch' : Listed(n)

LEMMA ConsolidateIs ==
    ASSUME Types, Consolidate
    PROVE  TickIs
<1>1. stored \in [Buckets -> SUBSET Kept]
  BY DEF Types
<1>. DEFINE Save(b, r, saved, marked) ==
                [r EXCEPT !.abstract = @ \/ <<b, r>> \in saved,
                          !.pending = @ /\ <<b, r>> \notin marked]
            Memory(m) == [bucket |-> m[1], id |-> m[2].id, text |-> m[2].text]
<1>2. PICK listed \in kSubset(Min({ServerBatch, Cardinality(Pending)}), Pending) :
          \E saved \in SUBSET listed : \E marked \in {saved, {}} :
              /\ stored' = [b \in Buckets |-> {Save(b, r, saved, marked) : r \in stored[b]}]
              /\ batch' = {Memory(m) : m \in listed}
  BY DEF Consolidate
<1>. HIDE DEF Save, Memory
<1>3. PICK saved \in SUBSET listed : \E marked \in {saved, {}} :
          /\ stored' = [b \in Buckets |-> {Save(b, r, saved, marked) : r \in stored[b]}]
          /\ batch' = {Memory(m) : m \in listed}
  BY <1>2
<1>4. PICK marked \in {saved, {}} :
          /\ stored' = [b \in Buckets |-> {Save(b, r, saved, marked) : r \in stored[b]}]
          /\ batch' = {Memory(m) : m \in listed}
  BY <1>3
<1>5. ASSUME NEW b \in Buckets, NEW n \in stored'[b]
      PROVE  n \in Kept /\ Follows(b, n)
  <2>1. PICK r \in stored[b] : n = Save(b, r, saved, marked)
    BY <1>4, <1>5
  <2>2. r \in Rows /\ (r.abstract \/ r.pending)
    BY <1>1 DEF Kept
  <2>. DEFINE isSaved == <<b, r>> \in saved
              isMarked == <<b, r>> \in marked
  <2>3. isMarked => isSaved
    BY <1>4
  <2>. HIDE DEF isSaved, isMarked
  <2>4. n = [r EXCEPT !.abstract = r.abstract \/ isSaved, !.pending = r.pending /\ ~isMarked]
    BY <2>1 DEF isSaved, isMarked, Save
  <2>5. (r.abstract \/ isSaved) \in BOOLEAN /\ (r.pending /\ ~isMarked) \in BOOLEAN
    OBVIOUS
  <2>6. /\ n \in Rows /\ n.text = r.text
        /\ n.abstract = (r.abstract \/ isSaved)
        /\ n.pending = (r.pending /\ ~isMarked)
    BY <2>2, <2>4, <2>5 DEF Rows
  <2>7. (n.abstract \/ n.pending) /\ (r.abstract => n.abstract)
    BY <2>2, <2>3, <2>6, Zenon
  <2>. QED  BY <2>6, <2>7 DEF Kept, Follows
<1>6. ASSUME NEW n \in batch'
      PROVE  n \in Memories /\ Listed(n)
  <2>1. PICK m \in listed : n = Memory(m)
    BY <1>4, <1>6
  <2>2. m \in Pending
    BY <1>2 DEF kSubset
  <2>3. PICK b \in Buckets : m \in {b} \X {r \in stored[b] : r.pending}
    BY <2>2 DEF Pending
  <2>4. stored[b] \in SUBSET Rows
    BY <1>1 DEF Kept
  <2>. QED  BY <2>1, <2>3, <2>4 DEF Memories, Rows, Listed, Memory
<1>7. stored' \in [Buckets -> SUBSET Kept]
  BY <1>4, <1>5
<1>. QED  BY <1>5, <1>6, <1>7 DEF TickIs

LEMMA AdjudicatedIs ==
    ASSUME Types, NEW m \in batch, NEW rows \in SUBSET Kept, Adjudicated(m, rows),
           \A n \in rows : Follows(m.bucket, n)
    PROVE  TickIs
<1>1. /\ stored \in [Buckets -> SUBSET Kept] /\ batch \in SUBSET Memories
      /\ m.bucket \in Buckets
  BY DEF Types, Memories
<1>2. stored' = [stored EXCEPT ![m.bucket] = rows] /\ batch' = batch \ {m}
  BY DEF Adjudicated
<1>3. ASSUME NEW b \in Buckets, NEW n \in stored'[b] PROVE Follows(b, n)
  <2>1. CASE b = m.bucket
    BY <1>1, <1>2, <2>1
  <2>2. CASE b # m.bucket
    BY <1>1, <1>2, <2>2 DEF Follows
  <2>. QED  BY <2>1, <2>2
<1>. QED  BY <1>1, <1>2, <1>3 DEF TickIs, Listed

LEMMA VerdictIs ==
    ASSUME Types, NEW m \in batch, NEW t \in stored[m.bucket],
           Absorb(m, t.id) \/ Invalidate(m, t.id)
    PROVE  TickIs
<1>1. /\ m.bucket \in Buckets /\ m.text \in Nat
      /\ stored[m.bucket] \in SUBSET Kept
  BY DEF Types, Memories
<1>2. \A r \in stored[m.bucket] : Follows(m.bucket, r)
  BY DEF Follows
<1>3. CASE Invalidate(m, t.id)
  <2>. DEFINE rows == {r \in stored[m.bucket] : r.id # t.id}
  <2>1. rows \in SUBSET Kept /\ \A n \in rows : Follows(m.bucket, n)
    BY <1>1, <1>2
  <2>2. Adjudicated(m, rows)
    BY <1>3 DEF Invalidate
  <2>. HIDE DEF rows
  <2>. QED  BY <2>1, <2>2, AdjudicatedIs
<1>4. CASE Absorb(m, t.id)
  <2>. DEFINE Taken(r) == IF r.id = t.id THEN [r EXCEPT !.text = m.text, !.pending = TRUE] ELSE r
              rows(gone) == {Taken(r) : r \in {s \in stored[m.bucket] : s.id \notin gone}}
  <2>1. PICK gone \in {{}, {m.id}} : Adjudicated(m, rows(gone))
    BY <1>4 DEF Absorb
  <2>2. ASSUME NEW r \in stored[m.bucket]
        PROVE  Taken(r) \in Kept /\ Follows(m.bucket, Taken(r))
    <3>1. r \in Rows /\ (r.abstract \/ r.pending)
      BY <1>1 DEF Kept
    <3>2. CASE r.id # t.id
      BY <1>1, <1>2, <3>2
    <3>3. CASE r.id = t.id
      <4>1. /\ Taken(r) \in Rows /\ Taken(r).text = m.text
            /\ Taken(r).abstract = r.abstract /\ Taken(r).pending = TRUE
        BY <1>1, <3>1, <3>3 DEF Rows
      <4>. HIDE DEF Taken
      <4>. QED  BY <4>1 DEF Kept, Follows
    <3>. QED  BY <3>2, <3>3
  <2>3. rows(gone) \in SUBSET Kept /\ \A n \in rows(gone) : Follows(m.bucket, n)
    <3>. HIDE DEF Taken
    <3>. QED  BY <2>2
  <2>. HIDE DEF rows
  <2>. QED  BY <2>1, <2>3, AdjudicatedIs
<1>. QED  BY <1>3, <1>4

LEMMA TickInv ==
    ASSUME IInv, Tick
    PROVE  IInv'
<1>1. Types /\ QuestionsInv /\ AbstractedOrLate
  BY DEF IInv
<1>2. TickIs
  <2>1. CASE Consolidate
    BY <1>1, <2>1, ConsolidateIs
  <2>2. ASSUME NEW m \in batch, Keep(m) PROVE TickIs
    <3>1. /\ m.bucket \in Buckets /\ stored[m.bucket] \in SUBSET Kept
      BY <1>1 DEF Types, Memories
    <3>. QED  BY <1>1, <2>2, <3>1, AdjudicatedIs DEF Keep, Follows
  <2>3. ASSUME NEW m \in batch, NEW t \in stored[m.bucket],
               Absorb(m, t.id) \/ Invalidate(m, t.id)
        PROVE  TickIs
    BY <1>1, <2>3, VerdictIs
  <2>. QED  BY <2>1, <2>2, <2>3 DEF Tick
<1>3. UNCHANGED <<command, phase, ends, prev, queue, sent, waited, asked, tries,
                  records, errors, skipped>>
  BY DEF Tick, Consolidate, Keep, Absorb, Invalidate, Adjudicated, progress, answers, results
<1>4. Types'
  BY <1>1, <1>2, <1>3, StagesKept DEF Types, TickIs
<1>5. QuestionsInv'
  BY <1>1, <1>3, QuestionsKept
<1>6. AbstractedOrLate'
  BY <1>1, <1>2, <1>3 DEF AbstractedOrLate, TickIs, Follows, Buckets
<1>7. ASSUME NEW u \in Units PROVE UnitInv(u)'
  <2>1. UnitInv(u) /\ Bucket[u] \in Buckets
    BY DEF IInv, Buckets
  <2>2. /\ Script(u)' = Script(u) /\ (Active(u)' <=> Active(u)) /\ Reached(u)' = Reached(u)
        /\ Seen(u, Reached(u))' = Seen(u, Reached(u)) /\ Passed(u)' = Passed(u)
    BY <1>3 DEF Script, Active, Open, Reached, Seen, Boilerplate, Passed
  <2>3. Untouched(u)'
    BY <1>2, <1>3, <2>1 DEF UnitInv, Untouched, TickIs, Follows, Listed
  <2>4. Holding(u)'
    <3>. SUFFICES ASSUME command = "pm", Active(u) PROVE Early(u, Reached(u))'
      BY <1>3, <2>2 DEF Holding
    <3>1. Early(u, Reached(u))
      BY <2>1 DEF UnitInv, Holding
    <3>2. \A n \in stored'[Bucket[u]] : n.text \in 0..Reached(u)
      BY <1>2, <2>1, <3>1 DEF Early, TickIs, Follows
    <3>3. \A n \in batch' : n.bucket = Bucket[u] => n.text \in 0..Reached(u)
      BY <1>2, <3>1 DEF Early, TickIs, Listed
    <3>. QED  BY <2>2, <3>2, <3>3 DEF Early
  <2>5. Path(u)' /\ Writing(u)' /\ Accounted(u)'
    BY <1>3, <2>1, <2>2 DEF UnitInv, Path, Open, Writing, Accounted
  <2>. QED  BY <2>3, <2>4, <2>5 DEF UnitInv
<1>. QED  BY <1>4, <1>5, <1>6, <1>7 DEF IInv

-----------------------------------------------------------------------------
(* Questions.                                                              *)

LEMMA AskInv ==
    ASSUME IInv, NEW q \in Questions, Ask(q)
    PROVE  IInv'
<1>1. /\ Types /\ QuestionsInv /\ AbstractedOrLate
      /\ phase[UnitOf[q]] = "ask" /\ q \in Due(UnitOf[q])
  BY DEF IInv, Ask
<1>2. UNCHANGED <<command, stored, batch, phase, ends, prev, queue, sent, waited, tries,
                  records, errors, skipped>>
  BY DEF Ask, server, progress, results
<1>3. PICK new \in {"skipped", "search"} : asked' = [asked EXCEPT ![q] = new]
  BY DEF Ask
<1>4. Stages' = Stages
  BY <1>2, StagesKept
<1>5. Types'
  <2>1. asked' \in [Questions -> Answered \cup {"new"} \cup Range(Stages)]
    BY <1>1, <1>3, StagesAre DEF Types, Answered
  <2>. QED  BY <1>1, <1>2, <1>4, <2>1 DEF Types
<1>6. QuestionsInv'
  <2>1. ASSUME NEW p \in Questions PROVE Timely(p)'
    <3>1. Due(UnitOf[p])' = Due(UnitOf[p])
      BY <1>2 DEF Due
    <3>2. p = q \/ asked'[p] = asked[p]
      BY <1>1, <1>3 DEF Types
    <3>3. Timely(p)
      BY <1>1 DEF QuestionsInv
    <3>. QED  BY <1>1, <1>2, <1>4, <3>1, <3>2, <3>3 DEF Timely
  <2>. QED  BY <2>1 DEF QuestionsInv
<1>7. AbstractedOrLate'
  BY <1>1, <1>2 DEF AbstractedOrLate
<1>8. \A v \in Units : UnitInv(v)'
  BY <1>2, UnitsKept
<1>. QED  BY <1>5, <1>6, <1>7, <1>8 DEF IInv

\* The call of a question in flight ends: it goes on, or is over.
LEMMA CallEnds ==
    ASSUME IInv, NEW q \in Questions, asked[q] \in Range(Stages),
           NEW new \in Range(Stages) \cup Answered,
           asked' = [asked EXCEPT ![q] = new],
           tries' \in [Questions -> 0..(Attempts - 1)],
           UNCHANGED <<server, progress, results>>
    PROVE  IInv'
<1>1. Types /\ QuestionsInv /\ AbstractedOrLate
  BY DEF IInv
<1>2. UNCHANGED <<command, stored, batch, phase, ends, prev, queue, sent, waited,
                  records, errors, skipped>>
  BY DEF server, progress, results
<1>3. Stages' = Stages
  BY <1>2, StagesKept
<1>4. Types'
  <2>1. asked' \in [Questions -> Answered \cup {"new"} \cup Range(Stages)]
    BY <1>1 DEF Types
  <2>. QED  BY <1>1, <1>2, <1>3, <2>1 DEF Types
<1>5. QuestionsInv'
  <2>1. ASSUME NEW p \in Questions PROVE Timely(p)'
    <3>1. Due(UnitOf[p])' = Due(UnitOf[p])
      BY <1>2 DEF Due
    <3>2. asked'[p] \in Range(Stages) => asked[p] \in Range(Stages)
      BY <1>1 DEF Types
    <3>3. Timely(p)
      BY <1>1 DEF QuestionsInv
    <3>. QED  BY <1>2, <1>3, <3>1, <3>2, <3>3 DEF Timely
  <2>. QED  BY <2>1 DEF QuestionsInv
<1>6. AbstractedOrLate'
  BY <1>1, <1>2 DEF AbstractedOrLate
<1>7. \A v \in Units : UnitInv(v)'
  BY <1>2, UnitsKept
<1>. QED  BY <1>4, <1>5, <1>6, <1>7 DEF IInv

LEMMA SucceedsInv ==
    ASSUME IInv, NEW q \in Questions, Succeeds(q)
    PROVE  IInv'
<1>1. Types /\ asked[q] \in Range(Stages)
  BY DEF IInv, Succeeds
<1>2. Following(asked[q]) \in Range(Stages) \cup Answered
  BY <1>1, StagesAre DEF Answered
<1>3. asked' = [asked EXCEPT ![q] = Following(asked[q])]
  BY DEF Succeeds
<1>4. tries' \in [Questions -> 0..(Attempts - 1)]
  BY <1>1, ReplayAssumption DEF Succeeds, Types
<1>5. UNCHANGED <<server, progress, results>>
  BY DEF Succeeds
<1>. QED  BY <1>1, <1>2, <1>3, <1>4, <1>5, CallEnds

LEMMA FailsInv ==
    ASSUME IInv, NEW q \in Questions, Fails(q)
    PROVE  IInv'
<1>1. Types /\ asked[q] \in Range(Stages)
  BY DEF IInv, Fails
<1>2. UNCHANGED <<server, progress, results>>
  BY DEF Fails
<1>3. tries' \in [Questions -> 0..(Attempts - 1)]
  <2>1. tries \in [Questions -> 0..(Attempts - 1)] /\ Attempts \in Nat \ {0}
    BY <1>1, ReplayAssumption DEF Types
  <2>2. CASE tries[q] + 1 < Attempts
    <3>1. tries' = [tries EXCEPT ![q] = tries[q] + 1] /\ tries[q] + 1 \in 0..(Attempts - 1)
      BY <2>1, <2>2 DEF Fails
    <3>. QED  BY <2>1, <3>1
  <2>3. CASE ~(tries[q] + 1 < Attempts)
    <3>1. tries' = [tries EXCEPT ![q] = 0] /\ 0 \in 0..(Attempts - 1)
      BY <2>1, <2>3 DEF Fails
    <3>. QED  BY <2>1, <3>1
  <2>. QED  BY <2>2, <2>3
<1>4. PICK new \in Range(Stages) \cup Answered : asked' = [asked EXCEPT ![q] = new]
  <2>1. asked = [asked EXCEPT ![q] = asked[q]]
    BY <1>1 DEF Types
  <2>. QED  BY <1>1, <2>1 DEF Fails, Answered
<1>. QED  BY <1>1, <1>2, <1>3, <1>4, CallEnds

-----------------------------------------------------------------------------
(* The end of a checkpoint.                                                *)

\* What is left of a path after its first point.
LEMMA TailIs ==
    ASSUME NEW s \in Seq(Points), Increasing(s), s # <<>>
    PROVE  /\ Tail(s) \in Seq(Points) /\ Increasing(Tail(s)) /\ Len(Tail(s)) = Len(s) - 1
           /\ \A i \in DOMAIN Tail(s) : Head(s) < Tail(s)[i]
           /\ Range(s) = {Head(s)} \cup Range(Tail(s))
           /\ Head(s) \notin Range(Tail(s))
<1>. DEFINE m == Len(s)
            t == Tail(s)
<1>1. /\ m \in Nat \ {0} /\ t \in Seq(Points) /\ Len(t) = m - 1
      /\ DOMAIN s = 1..m /\ DOMAIN t = 1..(m - 1) /\ Head(s) = s[1]
      /\ \A i \in 1..(m - 1) : t[i] = s[i + 1]
  <2>. HIDE DEF Points
  <2>1. m \in Nat \ {0} /\ DOMAIN s = 1..m /\ Head(s) = s[1]
    OBVIOUS
  <2>2. t \in Seq(Points) /\ Len(t) = m - 1
    OBVIOUS
  <2>3. DOMAIN t = 1..(m - 1)
    BY <2>2
  <2>4. \A i \in 1..(m - 1) : t[i] = s[i + 1]
    OBVIOUS
  <2>. QED  BY <2>1, <2>2, <2>3, <2>4
<1>2. \A i \in 1..m : s[i] \in Int
  BY DEF Points
<1>. HIDE DEF m, t
<1>3. \A i \in 1..(m - 1) : i + 1 \in 1..m /\ 1 \in 1..m /\ 1 < i + 1
  BY <1>1
<1>4. Increasing(t)
  <2>. SUFFICES ASSUME NEW i \in 1..(m - 1), NEW j \in 1..(m - 1), i < j
                PROVE  t[i] < t[j]
    BY <1>1 DEF Increasing
  <2>1. i + 1 < j + 1
    BY <1>1
  <2>. QED  BY <1>1, <1>3, <2>1 DEF Increasing
<1>5. \A i \in 1..(m - 1) : Head(s) < t[i]
  BY <1>1, <1>3 DEF Increasing
<1>6. Range(s) = {Head(s)} \cup Range(t)
  <2>1. \A i \in 1..m : i = 1 \/ (i - 1 \in 1..(m - 1) /\ t[i - 1] = s[i])
    BY <1>1
  <2>2. \A i \in 1..m : s[i] \in {Head(s)} \cup Range(t)
    BY <1>1, <2>1 DEF Range
  <2>3. \A i \in 1..(m - 1) : t[i] \in Range(s)
    BY <1>1, <1>3 DEF Range
  <2>4. Head(s) \in Range(s)
    BY <1>1 DEF Range
  <2>5. Range(s) = {s[i] : i \in 1..m} /\ Range(t) = {t[i] : i \in 1..(m - 1)}
    BY <1>1 DEF Range
  <2>. QED  BY <2>2, <2>3, <2>4, <2>5
<1>7. Head(s) \notin Range(t)
  <2>1. s[1] \in Int
    BY <1>1, <1>2
  <2>2. \A i \in 1..(m - 1) : t[i] # Head(s)
    BY <1>1, <1>2, <1>3, <1>5
  <2>. QED  BY <1>1, <2>2 DEF Range
<1>. QED  BY <1>1, <1>4, <1>5, <1>6, <1>7 DEF m, t

\* The questions of a finished checkpoint, each ended in one of three ways.
LEMMA DueEnded ==
    ASSUME Types, NEW u \in Units, Collected(u)
    PROVE  /\ IsFiniteSet(Due(u)) /\ Due(u) \subseteq Of(u)
           /\ \A how : /\ Ended(u, how) \in Seq(Questions)
                       /\ Len(Ended(u, how)) \in Nat
           /\ Cardinality(Due(u)) = Len(Ended(u, "ok")) + Len(Ended(u, "error"))
                                      + Len(Ended(u, "skipped"))
<1>. DEFINE S(how) == {q \in Due(u) : asked[q] = how}
<1>1. Due(u) \subseteq Of(u) /\ Of(u) \subseteq Questions
  BY DEF Due, Of
<1>2. IsFiniteSet(Due(u))
  BY <1>1, ReplayAssumption, FS_Subset
<1>3. ASSUME NEW how
      PROVE  /\ IsFiniteSet(S(how)) /\ Cardinality(S(how)) \in Nat
             /\ Ended(u, how) \in Seq(Questions) /\ Len(Ended(u, how)) = Cardinality(S(how))
  <2>1. IsFiniteSet(S(how)) /\ S(how) \subseteq Questions
    BY <1>1, <1>2, FS_Subset
  <2>2. Ended(u, how) = SetToSeq(S(how))
    BY DEF Ended
  <2>3. /\ SetToSeq(S(how)) \in Seq(S(how))
        /\ Len(SetToSeq(S(how))) = Cardinality(S(how))
    BY <2>1, SetToSeqIs
  <2>. HIDE DEF S
  <2>4. SetToSeq(S(how)) \in Seq(Questions)
    BY <2>1, <2>3, SeqMonotonic
  <2>. QED  BY <2>1, <2>2, <2>3, <2>4, FS_CardinalityType
<1>4. Due(u) = (S("ok") \cup S("error")) \cup S("skipped")
  BY DEF Collected, Answered
<1>5. S("ok") \cap S("error") = {} /\ (S("ok") \cup S("error")) \cap S("skipped") = {}
  OBVIOUS
<1>. HIDE DEF S
<1>6. Cardinality(S("ok") \cup S("error")) = Cardinality(S("ok")) + Cardinality(S("error"))
  <2>1. Cardinality(S("ok") \cup S("error")) =
            Cardinality(S("ok")) + Cardinality(S("error")) - Cardinality({})
    BY <1>3, <1>5, FS_Union
  <2>. QED  BY <1>3, <2>1, FS_EmptySet
<1>7. Cardinality(Due(u)) =
          Cardinality(S("ok") \cup S("error")) + Cardinality(S("skipped"))
  <2>1. IsFiniteSet(S("ok") \cup S("error"))
    BY <1>3, FS_Union
  <2>2. Cardinality((S("ok") \cup S("error")) \cup S("skipped")) =
            Cardinality(S("ok") \cup S("error")) + Cardinality(S("skipped"))
                - Cardinality({})
    BY <1>3, <1>5, <2>1, FS_Union
  <2>3. Cardinality(S("ok") \cup S("error")) \in Nat
    BY <2>1, FS_CardinalityType
  <2>. QED  BY <1>3, <1>4, <2>2, <2>3, FS_EmptySet
<1>. QED  BY <1>1, <1>2, <1>3, <1>6, <1>7

LEMMA CollectInv ==
    ASSUME IInv, NEW u \in Units, Collect(u)
    PROVE  IInv'
<1>. DEFINE end == Head(ends[u])
            rest == Tail(ends[u])
<1>1. /\ Types /\ QuestionsInv /\ AbstractedOrLate
      /\ Untouched(u) /\ Path(u) /\ Writing(u) /\ Holding(u) /\ Accounted(u)
      /\ phase[u] = "ask" /\ Collected(u) /\ ends[u] # <<>> /\ queue[u] = <<>>
  BY DEF IInv, UnitInv, Collect, Path, Open, Writing
<1>2. /\ ends[u] \in Seq(Points) /\ end \in Points
      /\ rest \in Seq(Points) /\ Increasing(rest) /\ Len(rest) = Len(ends[u]) - 1
      /\ \A i \in DOMAIN rest : end < rest[i]
      /\ Range(ends[u]) = {end} \cup Range(rest) /\ end \notin Range(rest)
  <2>1. ends[u] \in Seq(Points) /\ Increasing(ends[u])
    BY <1>1 DEF Types, Path
  <2>. QED  BY <1>1, <2>1, TailIs, NextPoint
<1>3. /\ IsFiniteSet(Due(u)) /\ Due(u) \subseteq Of(u)
      /\ \A how : Ended(u, how) \in Seq(Questions) /\ Len(Ended(u, how)) \in Nat
      /\ Cardinality(Due(u)) = Len(Ended(u, "ok")) + Len(Ended(u, "error"))
                                 + Len(Ended(u, "skipped"))
  BY <1>1, DueEnded
<1>4. /\ UNCHANGED <<command, stored, batch, queue, sent, tries>>
      /\ waited' \in [Units -> 0..Budget] /\ \A v \in Units \ {u} : waited'[v] = waited[v]
  <2>1. waited \in [Units -> 0..Budget] /\ 0 \in 0..Budget
    BY <1>1, ReplayAssumption DEF Types
  <2>. QED  BY <2>1 DEF Collect, server
<1>5. asked' = asked
  <2>1. asked = [q \in Questions |-> asked[q]]
    BY <1>1 DEF Types
  <2>2. asked' = [q \in Questions |-> asked[q]]
    BY <1>2 DEF Collect
  <2>. QED  BY <2>1, <2>2
<1>6. /\ phase' \in [Units -> Phases] /\ phase'[u] = "next"
      /\ \A v \in Units \ {u} : phase'[v] = phase[v]
  BY <1>1 DEF Collect, Become, Types, Phases
<1>. HIDE DEF end, rest
<1>7. /\ ends' \in [Units -> Seq(Points)] /\ ends'[u] = rest
      /\ \A v \in Units \ {u} : ends'[v] = ends[v]
  <2>1. ends \in [Units -> Seq(Points)] /\ ends' = [ends EXCEPT ![u] = rest]
    BY <1>1 DEF Types, Collect, rest
  <2>. HIDE DEF Points
  <2>. QED  BY <1>2, <2>1
<1>8. /\ prev' \in [Units -> Points] /\ prev'[u] = end
      /\ \A v \in Units \ {u} : prev'[v] = prev[v]
  <2>1. prev \in [Units -> Points] /\ prev' = [prev EXCEPT ![u] = end]
    BY <1>1 DEF Types, Collect, end
  <2>. HIDE DEF Points
  <2>. QED  BY <1>2, <2>1
<1>9. /\ records' \in [Units -> Seq(Questions)]
      /\ Len(records'[u]) = Len(records[u]) + Len(Ended(u, "ok"))
      /\ \A v \in Units \ {u} : records'[v] = records[v]
  <2>1. /\ records \in [Units -> Seq(Questions)]
        /\ records' = [records EXCEPT ![u] = records[u] \o Ended(u, "ok")]
    BY <1>1 DEF Types, Collect
  <2>2. /\ records[u] \o Ended(u, "ok") \in Seq(Questions)
        /\ Len(records[u] \o Ended(u, "ok")) = Len(records[u]) + Len(Ended(u, "ok"))
    BY <1>3, <2>1, ConcatProperties
  <2>. QED  BY <2>1, <2>2
<1>10. /\ errors' \in [Units -> Nat]
       /\ errors'[u] = errors[u] + Len(Ended(u, "error"))
       /\ \A v \in Units \ {u} : errors'[v] = errors[v]
  BY <1>1, <1>3 DEF Types, Collect
<1>11. /\ skipped' \in [Units -> Nat]
       /\ skipped'[u] = skipped[u] + Len(Ended(u, "skipped"))
       /\ \A v \in Units \ {u} : skipped'[v] = skipped[v]
  BY <1>1, <1>3 DEF Types, Collect
<1>12. Types'
  BY <1>1, <1>4, <1>5, <1>6, <1>7, <1>8, <1>9, <1>10, <1>11, StagesKept DEF Types
<1>13. Alone(u)
  BY <1>4, <1>6, <1>7, <1>8, <1>9, <1>10, <1>11 DEF Alone, SameUnit
<1>14. QuestionsInv'
  <2>1. ASSUME NEW q \in Questions PROVE Timely(q)'
    <3>1. UnitOf[q] \in Units /\ Timely(q)
      BY <1>1, ReplayAssumption DEF QuestionsInv
    <3>2. CASE UnitOf[q] = u
      <4>1. asked[q] \notin Range(Stages)
        BY <1>1, <3>1, <3>2, StagesAre DEF Timely, Collected, Answered
      <4>. QED  BY <1>4, <1>5, <4>1, StagesKept DEF Timely
    <3>3. CASE UnitOf[q] # u
      <4>1. Due(UnitOf[q])' = Due(UnitOf[q])
        BY <1>4, <1>7, <3>1, <3>3 DEF Due
      <4>. QED  BY <1>4, <1>5, <1>6, <3>1, <3>3, <4>1, StagesKept DEF Timely
    <3>. QED  BY <3>2, <3>3
  <2>. QED  BY <2>1 DEF QuestionsInv
<1>15. AbstractedOrLate'
  BY <1>1, <1>4, <1>6 DEF AbstractedOrLate
<1>16. Reached(u) = end /\ Reached(u)' = end /\ Active(u) /\ Active(u)'
  BY <1>1, <1>6, <1>8 DEF Reached, Active, Open, end
<1>17. Untouched(u)' /\ Path(u)'
  <2>1. command # "pm" => Len(rest) <= 1
    <3>1. Len(ends[u]) \in Nat /\ (command # "pm" => Len(ends[u]) <= 1)
      BY <1>1, <1>2 DEF Path
    <3>. QED  BY <1>2, <3>1
  <2>2. \A i \in DOMAIN rest : end <= rest[i]
    <3>1. \A i \in DOMAIN rest : rest[i] \in Int /\ end \in Int
      BY <1>2 DEF Points
    <3>. QED  BY <1>2, <3>1
  <2>. QED  BY <1>2, <1>4, <1>6, <1>7, <1>8, <2>1, <2>2 DEF Untouched, Path, Open
<1>18. Writing(u)'
  <2>1. Script(u)' = Script(u) /\ Seen(u, Reached(u))' = Seen(u, Reached(u))
    BY <1>4, <1>16 DEF Script, Seen, Boilerplate
  <2>. QED  BY <1>1, <1>4, <1>16, <2>1 DEF Writing
<1>19. Holding(u)'
  BY <1>1, <1>4, <1>16 DEF Holding, Early
<1>20. Accounted(u)'
  <2>. SUFFICES ASSUME command # "ingest"
                PROVE  Len(records'[u]) + errors'[u] + skipped'[u] = Cardinality(Passed(u)')
    BY <1>4 DEF Accounted
  <2>1. Passed(u)' = Passed(u) \cup Due(u) /\ Passed(u) \cap Due(u) = {}
    <3>1. CASE command = "pm"
      <4>1. Passed(u) = {q \in Of(u) : EndOf[q] \notin Range(ends[u])}
        BY <3>1 DEF Passed
      <4>2. Passed(u)' = {q \in Of(u) : EndOf[q] \notin Range(rest)}
        BY <1>4, <1>7, <3>1 DEF Passed
      <4>3. Due(u) = {q \in Of(u) : EndOf[q] = end}
        BY <3>1 DEF Due, end
      <4>. QED  BY <1>2, <4>1, <4>2, <4>3
    <3>2. CASE command # "pm"
      <4>1. rest = <<>>
        <5>1. Len(ends[u]) \in Nat /\ Len(ends[u]) <= 1
          BY <1>1, <1>2, <3>2 DEF Path
        <5>2. Len(rest) \in Nat
          BY <1>2
        <5>3. Len(rest) = Len(ends[u]) - 1
          BY <1>2
        <5>. DEFINE k == Len(rest)
                    l == Len(ends[u])
        <5>. HIDE DEF k, l
        <5>4. k \in Nat /\ l \in Nat /\ l <= 1 /\ k = l - 1
          BY <5>1, <5>2, <5>3 DEF k, l
        <5>5. k = 0
          BY <5>4
        <5>6. Len(rest) = 0
          BY <5>5 DEF k
        <5>. QED  BY <1>2, <5>6, EmptySeq
      <4>2. Passed(u) = {} /\ Due(u) = Of(u)
        BY <1>1, <3>2 DEF Passed, Due
      <4>3. Passed(u)' = Of(u)
        BY <1>4, <1>7, <3>2, <4>1 DEF Passed
      <4>. QED  BY <4>2, <4>3
    <3>. QED  BY <3>1, <3>2
  <2>2. IsFiniteSet(Passed(u)) /\ Cardinality(Passed(u)) \in Nat
    <3>1. Passed(u) \subseteq Questions
      BY DEF Passed, Of
    <3>. QED  BY <3>1, ReplayAssumption, FS_Subset, FS_CardinalityType
  <2>3. Cardinality(Passed(u) \cup Due(u)) = Cardinality(Passed(u)) + Cardinality(Due(u))
    <3>1. Cardinality(Passed(u) \cup Due(u)) =
              Cardinality(Passed(u)) + Cardinality(Due(u)) - Cardinality({})
      BY <1>3, <2>1, <2>2, FS_Union
    <3>2. Cardinality(Due(u)) \in Nat
      BY <1>3, FS_CardinalityType
    <3>. QED  BY <2>2, <3>1, <3>2, FS_EmptySet
  <2>4. Len(records[u]) + errors[u] + skipped[u] = Cardinality(Passed(u))
    BY <1>1, <1>16 DEF Accounted
  <2>5. Len(records[u]) \in Nat /\ errors[u] \in Nat /\ skipped[u] \in Nat
    BY <1>1 DEF Types
  <2>. DEFINE a == Len(Ended(u, "ok"))
              b == Len(Ended(u, "error"))
              c == Len(Ended(u, "skipped"))
  <2>6. a \in Nat /\ b \in Nat /\ c \in Nat /\ Cardinality(Due(u)) = a + b + c
    BY <1>3
  <2>7. Len(records'[u]) + errors'[u] + skipped'[u] =
            (Len(records[u]) + a) + (errors[u] + b) + (skipped[u] + c)
    BY <1>9, <1>10, <1>11
  <2>8. Cardinality(Passed(u)') = Cardinality(Passed(u)) + (a + b + c)
    BY <2>1, <2>3, <2>6
  <2>. HIDE DEF a, b, c
  <2>. QED  BY <2>4, <2>5, <2>6, <2>7, <2>8
<1>21. UnitInv(u)'
  BY <1>17, <1>18, <1>19, <1>20 DEF UnitInv
<1>. QED  BY <1>12, <1>13, <1>14, <1>15, <1>21, AloneInv

-----------------------------------------------------------------------------
(* The invariant holds.                                                    *)

LEMMA InitInv == Init => IInv
<1>. SUFFICES ASSUME Init PROVE IInv
  OBVIOUS
<1>1. Types
  <2>1. /\ stored \in [Buckets -> SUBSET Kept] /\ batch \in SUBSET Memories
        /\ phase \in [Units -> Phases] /\ ends \in [Units -> Seq(Points)]
        /\ prev \in [Units -> Points] /\ queue \in [Units -> Seq(Nat)]
        /\ sent \in [Units -> Seq(Nat)] /\ records \in [Units -> Seq(Questions)]
        /\ errors \in [Units -> Nat] /\ skipped \in [Units -> Nat]
    <3>1. -1 \in Points /\ "idle" \in Phases
      BY DEF Points, Phases
    <3>. QED  BY <3>1 DEF Init
  <2>2. 0 \in 0..Budget /\ 0 \in 0..(Attempts - 1)
    BY ReplayAssumption
  <2>. QED  BY <2>1, <2>2 DEF Init, Types
<1>2. QuestionsInv
  <2>1. "new" \notin Range(Stages)
    BY StagesAre
  <2>. QED  BY <2>1 DEF Init, QuestionsInv, Timely
<1>3. AbstractedOrLate
  BY DEF Init, AbstractedOrLate
<1>4. ASSUME NEW u \in Units PROVE UnitInv(u)
  <2>1. /\ phase[u] = "idle" /\ ends[u] = <<>> /\ prev[u] = -1 /\ queue[u] = <<>>
        /\ sent[u] = <<>> /\ records[u] = <<>> /\ errors[u] = 0 /\ skipped[u] = 0
        /\ stored[Bucket[u]] = {} /\ batch = {}
    BY DEF Init, Buckets
  <2>2. Untouched(u) /\ Path(u)
    BY <2>1, EmptyScript DEF Untouched, Path, Open
  <2>3. Writing(u) /\ Holding(u) /\ Accounted(u)
    BY <2>1, EmptyScript DEF Writing, Script, Holding, Accounted, Active, Open
  <2>. QED  BY <2>2, <2>3 DEF UnitInv
<1>. QED  BY <1>1, <1>2, <1>3, <1>4 DEF IInv

LEMMA NextInv == IInv /\ [Next]_vars => IInv'
<1>. SUFFICES ASSUME IInv, [Next]_vars PROVE IInv'
  OBVIOUS
<1>1. ASSUME NEW u \in Units, Walk(u) PROVE IInv'
  <2>1. CASE Start(u)
    BY <2>1, StartInv
  <2>2. CASE Checkpoint(u)
    BY <2>2, CheckpointInv
  <2>3. CASE Complete(u)
    BY <2>3, CompleteInv
  <2>4. CASE WriteChunk(u)
    BY <2>4, WriteChunkInv
  <2>5. CASE WriteFails(u)
    BY <2>5, WriteFailsInv
  <2>6. CASE Written(u)
    BY <2>6, WrittenInv
  <2>7. CASE DrainEnds(u) \/ GiveUpDrain(u)
    BY <2>7, DrainLeftInv
  <2>8. CASE Poll(u)
    BY <2>8, PollInv
  <2>9. CASE Collect(u)
    BY <2>9, CollectInv
  <2>. QED  BY <1>1, <2>1, <2>2, <2>3, <2>4, <2>5, <2>6, <2>7, <2>8, <2>9 DEF Walk
<1>2. ASSUME NEW q \in Questions, Answer(q) PROVE IInv'
  BY <1>2, AskInv, SucceedsInv, FailsInv DEF Answer
<1>3. CASE Tick
  BY <1>3, TickInv
<1>4. CASE UNCHANGED vars
  <2>1. UNCHANGED <<command, stored, batch, phase, ends, prev, queue, sent, waited,
                    asked, tries, records, errors, skipped>>
    BY <1>4 DEF vars
  <2>2. Types' /\ QuestionsInv' /\ AbstractedOrLate'
    BY <2>1, StagesKept, QuestionsKept DEF IInv, Types, AbstractedOrLate
  <2>3. \A u \in Units : UnitInv(u)'
    BY <2>1, UnitsKept
  <2>. QED  BY <2>2, <2>3 DEF IInv
<1>. QED  BY <1>1, <1>2, <1>3, <1>4 DEF Next

\* The inductive invariant of the harness.
THEOREM InvHolds == Spec => []IInv
BY InitInv, NextInv, PTL DEF Spec

\* Every variable keeps its type, whichever command runs and whatever fails.
THEOREM TypeCorrect == Spec => []TypeOK
<1>1. IInv => TypeOK
  BY DEF IInv, Types, TypeOK, Points, Phases, Kept, Memories
<1>. QED  BY <1>1, InvHolds, PTL

\* While a question of pm-run may be searching, its bucket holds no message past
\* its checkpoint: neither a neighbour's replay nor its own next batch reaches
\* the bucket before the last answer of the checkpoint is in, and no absorption
\* carries content over from another bucket.
THEOREM LeaksNothing == Spec => []NoFutureLeakage
<1>1. ASSUME IInv, command = "pm", NEW q \in Questions, asked[q] = "search",
             NEW r \in stored[Bucket[UnitOf[q]]]
      PROVE  r.text \in 0..EndOf[q]
  <2>. DEFINE u == UnitOf[q]
  <2>1. u \in Units /\ UnitInv(u) /\ Timely(q)
    BY <1>1, ReplayAssumption DEF IInv, QuestionsInv
  <2>2. phase[u] = "ask" /\ q \in Due(u)
    BY <1>1, <2>1, StagesAre DEF Timely
  <2>3. EndOf[q] = Reached(u)
    BY <1>1, <2>2 DEF Due, Reached
  <2>4. Early(u, Reached(u))
    BY <1>1, <2>1, <2>2 DEF UnitInv, Holding, Active, Open
  <2>. QED  BY <2>3, <2>4 DEF Early
<1>2. IInv => NoFutureLeakage
  BY <1>1 DEF NoFutureLeakage, Texts
<1>. QED  BY <1>2, InvHolds, PTL

\* With --drain-consolidation a checkpoint's questions meet no memory of their
\* bucket without an abstract, unless the drain ran out of polls, whatever the
\* tick does between two polls and after the last.
THEOREM AbstractsOrIsLate == Spec => []AbstractedOrLate
<1>1. IInv => AbstractedOrLate
  BY DEF IInv
<1>. QED  BY <1>1, InvHolds, PTL

\* No message is sent twice, over any checkpoints, batches and failures, and
\* before a checkpoint's questions are asked all that it shows has been sent.
THEOREM WritesOnce == Spec => []WrittenOnce
<1>1. ASSUME IInv, NEW u \in Units PROVE IsInjective(sent[u])
  <2>1. sent[u] \in Seq(Nat) /\ queue[u] \in Seq(Nat)
    BY <1>1 DEF IInv, Types
  <2>2. IsInjective(sent[u] \o queue[u])
    BY <1>1 DEF IInv, UnitInv, Writing, Script
  <2>. QED  BY <2>1, <2>2, PrefixInjective
<1>2. ASSUME IInv, NEW u \in Units, phase[u] = "ask", command = "pm"
      PROVE  Range(sent[u]) = {i \in 0..Head(ends[u]) : i < Messages[u]
                                                      /\ i \notin Boilerplate(u)}
  <2>1. Writing(u) /\ sent[u] \in Seq(Nat)
    BY <1>2 DEF IInv, UnitInv, Types
  <2>2. queue[u] = <<>> /\ Reached(u) = Head(ends[u]) /\ Active(u)
    BY <1>2, <2>1 DEF Writing, Reached, Active, Open
  <2>3. Script(u) = sent[u]
    BY <2>1, <2>2, ConcatEmptySeq DEF Script
  <2>. QED  BY <1>2, <2>1, <2>2, <2>3 DEF Writing, Seen
<1>3. IInv => WrittenOnce
  BY <1>1, <1>2 DEF WrittenOnce
<1>. QED  BY <1>3, InvHolds, PTL

-----------------------------------------------------------------------------
(* The report.                                                             *)

Pick(s) == CHOOSE x \in s : TRUE

\* T has the sums of f over the subsets of S.
Sums(T, f, S) ==
    /\ T \in [SUBSET S -> Nat]
    /\ \A s \in SUBSET S : T[s] = IF s = {} THEN 0 ELSE f[Pick(s)] + T[s \ {Pick(s)}]

LEMMA SumIs ==
    ASSUME NEW S, IsFiniteSet(S), NEW f \in [S -> Nat]
    PROVE  \E T : Sums(T, f, S) /\ Sum(f) = T[S]
<1>. DEFINE E(T, s) == T[s] = IF s = {} THEN 0 ELSE f[Pick(s)] + T[s \ {Pick(s)}]
            Has(n) == \E T \in [SUBSET S -> Nat] :
                          \A s \in SUBSET S : Cardinality(s) <= n => E(T, s)
            N == {n \in Nat : Has(n)}
<1>1. \A s \in SUBSET S : IsFiniteSet(s) /\ Cardinality(s) \in Nat
  BY FS_Subset, FS_CardinalityType
<1>2. \A s \in SUBSET S : s # {} =>
          /\ Pick(s) \in s /\ f[Pick(s)] \in Nat
          /\ s \ {Pick(s)} \in SUBSET S
          /\ Cardinality(s \ {Pick(s)}) = Cardinality(s) - 1
  <2>. SUFFICES ASSUME NEW s \in SUBSET S, s # {}
                PROVE  /\ Pick(s) \in s /\ f[Pick(s)] \in Nat
                       /\ Cardinality(s \ {Pick(s)}) = Cardinality(s) - 1
    OBVIOUS
  <2>1. Pick(s) \in s
    BY DEF Pick
  <2>. QED  BY <1>1, <2>1, FS_RemoveElement
<1>3. 0 \in N
  <2>. DEFINE T == [s \in SUBSET S |-> 0]
  <2>1. \A s \in SUBSET S : Cardinality(s) <= 0 => s = {}
    BY <1>1, FS_EmptySet
  <2>2. T \in [SUBSET S -> Nat] /\ \A s \in SUBSET S : T[s] = 0
    OBVIOUS
  <2>. HIDE DEF T
  <2>. QED  BY <2>1, <2>2
<1>4. ASSUME NEW n \in N PROVE n + 1 \in N
  <2>1. PICK T \in [SUBSET S -> Nat] :
            \A s \in SUBSET S : Cardinality(s) <= n => E(T, s)
    OBVIOUS
  <2>. DEFINE Q == [s \in SUBSET S |-> IF s = {} THEN 0
                                       ELSE f[Pick(s)] + T[s \ {Pick(s)}]]
  <2>2. Q \in [SUBSET S -> Nat]
    <3>1. ASSUME NEW s \in SUBSET S, s # {} PROVE f[Pick(s)] + T[s \ {Pick(s)}] \in Nat
      <4>1. s \ {Pick(s)} \in SUBSET S /\ f[Pick(s)] \in Nat
        BY <1>2, <3>1
      <4>2. T[s \ {Pick(s)}] \in Nat
        BY <4>1
      <4>. QED  BY <4>1, <4>2
    <3>. QED  BY <3>1
  <2>3. \A s \in SUBSET S : Q[s] = IF s = {} THEN 0 ELSE f[Pick(s)] + T[s \ {Pick(s)}]
    OBVIOUS
  <2>. HIDE DEF Q
  <2>4. \A s \in SUBSET S : Cardinality(s) <= n => Q[s] = T[s]
    BY <2>1, <2>3
  <2>5. ASSUME NEW s \in SUBSET S, Cardinality(s) <= n + 1 PROVE E(Q, s)
    <3>1. CASE s = {}
      BY <2>3, <3>1
    <3>2. CASE s # {}
      <4>1. Cardinality(s \ {Pick(s)}) <= n
        BY <1>1, <1>2, <2>5, <3>2
      <4>2. Q[s \ {Pick(s)}] = T[s \ {Pick(s)}]
        BY <1>2, <2>4, <3>2, <4>1
      <4>. QED  BY <2>3, <3>2, <4>2
    <3>. QED  BY <3>1, <3>2
  <2>. HIDE DEF E
  <2>. QED  BY <2>2, <2>5
<1>5. N = Nat
  <2>1. N \in SUBSET Nat
    OBVIOUS
  <2>. HIDE DEF N
  <2>. QED  BY <1>3, <1>4, <2>1, SetInduction
<1>6. \E T : T = [s \in SUBSET S |-> IF s = {} THEN 0 ELSE f[Pick(s)] + T[s \ {Pick(s)}]]
  <2>1. IsFiniteSet(S) /\ Cardinality(S) \in Nat
    BY <1>1
  <2>2. Has(Cardinality(S))
    <3>. HIDE DEF Has
    <3>. QED  BY <1>5, <2>1
  <2>3. PICK T \in [SUBSET S -> Nat] :
            \A s \in SUBSET S : Cardinality(s) <= Cardinality(S) => E(T, s)
    BY <2>2
  <2>4. \A s \in SUBSET S : Cardinality(s) <= Cardinality(S)
    BY <1>1, FS_Subset
  <2>5. \A s \in SUBSET S : E(T, s)
    BY <2>3, <2>4
  <2>6. T = [s \in SUBSET S |-> T[s]]
    OBVIOUS
  <2>7. T = [s \in SUBSET S |-> IF s = {} THEN 0 ELSE f[Pick(s)] + T[s \ {Pick(s)}]]
    BY <2>5, <2>6
  <2>. QED  BY <2>7
<1>. DEFINE T == CHOOSE T : T = [s \in SUBSET S |-> IF s = {} THEN 0
                                                  ELSE f[Pick(s)] + T[s \ {Pick(s)}]]
<1>7. T = [s \in SUBSET S |-> IF s = {} THEN 0 ELSE f[Pick(s)] + T[s \ {Pick(s)}]]
  BY <1>6
<1>8. Sum(f) = T[S]
  <2>1. DOMAIN f = S
    OBVIOUS
  <2>. QED  BY <2>1 DEF Sum, FoldFunction, FoldFunctionOnSet, MapThenFoldSet, Pick
<1>. HIDE DEF T
<1>9. \A s \in SUBSET S : T[s] = IF s = {} THEN 0 ELSE f[Pick(s)] + T[s \ {Pick(s)}]
  BY <1>7
<1>10. T \in [SUBSET S -> Nat]
  <2>. DEFINE M == {n \in Nat : \A s \in SUBSET S : Cardinality(s) = n => T[s] \in Nat}
  <2>1. 0 \in M
    <3>1. \A s \in SUBSET S : Cardinality(s) = 0 => s = {}
      BY <1>1, FS_EmptySet
    <3>2. \A s \in SUBSET S : s = {} => T[s] = 0
      BY <1>9
    <3>. QED  BY <3>1, <3>2
  <2>2. ASSUME NEW n \in M PROVE n + 1 \in M
    <3>. SUFFICES ASSUME NEW s \in SUBSET S, Cardinality(s) = n + 1 PROVE T[s] \in Nat
      OBVIOUS
    <3>0. n \in Nat /\ \A r \in SUBSET S : Cardinality(r) = n => T[r] \in Nat
      OBVIOUS
    <3>. HIDE DEF M
    <3>1. s # {}
      BY <1>1, <3>0, FS_EmptySet
    <3>2. s \ {Pick(s)} \in SUBSET S /\ Cardinality(s \ {Pick(s)}) = n /\ f[Pick(s)] \in Nat
      BY <1>2, <3>0, <3>1
    <3>3. T[s \ {Pick(s)}] \in Nat
      BY <3>0, <3>2
    <3>4. T[s] = f[Pick(s)] + T[s \ {Pick(s)}]
      BY <1>9, <3>1
    <3>. QED  BY <3>2, <3>3, <3>4
  <2>3. M = Nat
    <3>1. M \in SUBSET Nat
      OBVIOUS
    <3>. HIDE DEF M
    <3>. QED  BY <2>1, <2>2, <3>1, SetInduction
  <2>4. \A s \in SUBSET S : T[s] \in Nat
    BY <1>1, <2>3
  <2>5. DOMAIN T = SUBSET S /\ T = [s \in DOMAIN T |-> T[s]]
    BY <1>7
  <2>. QED  BY <2>4, <2>5
<1>. QED  BY <1>8, <1>9, <1>10 DEF Sums

\* The questions of some units.
OfSome(s) == {q \in Questions : UnitOf[q] \in s}

\* Four counters that add up to its questions in each unit do so in the sums.
LEMMA SumsCount ==
    ASSUME NEW S \in SUBSET Units, IsFiniteSet(S),
           NEW f1 \in [S -> Nat], NEW f2 \in [S -> Nat],
           NEW f3 \in [S -> Nat], NEW f4 \in [S -> Nat],
           \A u \in S : f1[u] + f2[u] + f3[u] + f4[u] = Cardinality(Of(u))
    PROVE  Sum(f1) + Sum(f2) + Sum(f3) + Sum(f4) = Cardinality(OfSome(S))
<1>1. PICK T1 : Sums(T1, f1, S) /\ Sum(f1) = T1[S]
  BY SumIs
<1>2. PICK T2 : Sums(T2, f2, S) /\ Sum(f2) = T2[S]
  BY SumIs
<1>3. PICK T3 : Sums(T3, f3, S) /\ Sum(f3) = T3[S]
  BY SumIs
<1>4. PICK T4 : Sums(T4, f4, S) /\ Sum(f4) = T4[S]
  BY SumIs
<1>. DEFINE Adds(s) == T1[s] + T2[s] + T3[s] + T4[s] = Cardinality(OfSome(s))
            M == {n \in Nat : \A s \in SUBSET S : Cardinality(s) = n => Adds(s)}
<1>5. \A s \in SUBSET S : IsFiniteSet(s) /\ Cardinality(s) \in Nat
  BY FS_Subset, FS_CardinalityType
<1>6. 0 \in M
  <2>1. \A s \in SUBSET S : Cardinality(s) = 0 => s = {}
    BY <1>5, FS_EmptySet
  <2>2. \A s \in SUBSET S : s = {} => T1[s] = 0 /\ T2[s] = 0 /\ T3[s] = 0 /\ T4[s] = 0
    BY <1>1, <1>2, <1>3, <1>4 DEF Sums
  <2>3. \A s \in SUBSET S : s = {} => Cardinality(OfSome(s)) = 0
    <3>1. OfSome({}) = {}
      BY DEF OfSome
    <3>. QED  BY <3>1, FS_EmptySet
  <2>4. \A s \in SUBSET S : s = {} => Adds(s)
    BY <2>2, <2>3
  <2>. HIDE DEF Adds
  <2>. QED  BY <2>1, <2>4
<1>7. ASSUME NEW n \in M PROVE n + 1 \in M
  <2>0. n \in Nat /\ \A r \in SUBSET S : Cardinality(r) = n => Adds(r)
    OBVIOUS
  <2>. SUFFICES ASSUME NEW s \in SUBSET S, Cardinality(s) = n + 1 PROVE Adds(s)
    BY <2>0
  <2>. HIDE DEF M
  <2>. DEFINE x == Pick(s)
              r == s \ {x}
  <2>1. s # {}
    BY <1>5, <2>0, FS_EmptySet
  <2>2. x \in s /\ x \in S /\ r \in SUBSET S /\ Cardinality(r) = n
    <3>1. x \in s
      BY <2>1 DEF Pick
    <3>2. Cardinality(r) = Cardinality(s) - 1
      BY <1>5, <3>1, FS_RemoveElement
    <3>. QED  BY <2>0, <3>1, <3>2
  <2>3. /\ T1[s] = f1[x] + T1[r] /\ T2[s] = f2[x] + T2[r]
        /\ T3[s] = f3[x] + T3[r] /\ T4[s] = f4[x] + T4[r]
    BY <1>1, <1>2, <1>3, <1>4, <2>1 DEF Sums
  <2>4. /\ T1[r] \in Nat /\ T2[r] \in Nat /\ T3[r] \in Nat /\ T4[r] \in Nat
        /\ f1[x] \in Nat /\ f2[x] \in Nat /\ f3[x] \in Nat /\ f4[x] \in Nat
    <3>1. r \in SUBSET S /\ x \in S
      BY <2>2
    <3>. HIDE DEF x, r
    <3>. QED  BY <1>1, <1>2, <1>3, <1>4, <3>1 DEF Sums
  <2>5. Cardinality(OfSome(s)) = Cardinality(OfSome(r)) + Cardinality(Of(x))
    <3>1. IsFiniteSet(OfSome(r)) /\ IsFiniteSet(Of(x))
      BY ReplayAssumption, FS_Subset DEF OfSome, Of
    <3>2. OfSome(s) = OfSome(r) \cup Of(x) /\ OfSome(r) \cap Of(x) = {}
      BY <2>2 DEF OfSome, Of
    <3>. HIDE DEF x, r
    <3>3. Cardinality(OfSome(r) \cup Of(x)) =
              Cardinality(OfSome(r)) + Cardinality(Of(x)) - Cardinality({})
      <4>1. Cardinality(OfSome(r) \cup Of(x)) =
              Cardinality(OfSome(r)) + Cardinality(Of(x))
                - Cardinality(OfSome(r) \cap Of(x))
        BY <3>1, FS_Union
      <4>. QED  BY <3>2, <4>1
    <3>4. Cardinality(OfSome(r)) \in Nat /\ Cardinality(Of(x)) \in Nat
      BY <3>1, FS_CardinalityType
    <3>. QED  BY <3>2, <3>3, <3>4, FS_EmptySet
  <2>6. T1[r] + T2[r] + T3[r] + T4[r] = Cardinality(OfSome(r))
    BY <2>0, <2>2
  <2>7. f1[x] + f2[x] + f3[x] + f4[x] = Cardinality(Of(x))
    BY <2>2
  <2>. HIDE DEF x, r
  <2>. QED  BY <2>3, <2>4, <2>5, <2>6, <2>7
<1>8. M = Nat
  <2>1. M \in SUBSET Nat
    OBVIOUS
  <2>. HIDE DEF M
  <2>. QED  BY <1>6, <1>7, <2>1, SetInduction
<1>9. Adds(S)
  <2>. HIDE DEF Adds
  <2>. QED  BY <1>5, <1>8
<1>. QED  BY <1>1, <1>2, <1>3, <1>4, <1>9

\* The report counts every question of the runs that came back exactly once:
\* scored, without evidence, skipped or an error.
THEOREM EveryQuestionCounted == Spec => []AccountsAddUp
<1>1. ASSUME IInv, command # "ingest"
      PROVE  Report.questions + Report.unscored + Report.errors + Report.skipped
                = Cardinality({q \in Questions : UnitOf[q] \in Done})
  <2>. DEFINE f1 == [u \in Done |-> Cardinality(Scored(records[u]))]
              f2 == [u \in Done |-> Cardinality(DOMAIN records[u] \ Scored(records[u]))]
              f3 == [u \in Done |-> errors[u]]
              f4 == [u \in Done |-> skipped[u]]
  <2>1. Done \in SUBSET Units /\ IsFiniteSet(Done)
    BY ReplayAssumption, FS_Subset DEF Done
  <2>2. ASSUME NEW u \in Done
        PROVE  /\ Cardinality(Scored(records[u])) \in Nat
               /\ Cardinality(DOMAIN records[u] \ Scored(records[u])) \in Nat
               /\ Cardinality(Scored(records[u]))
                    + Cardinality(DOMAIN records[u] \ Scored(records[u])) = Len(records[u])
    <3>. DEFINE R == records[u]
                A == Scored(R)
                B == DOMAIN R \ A
    <3>1. R \in Seq(Questions) /\ Len(R) \in Nat /\ DOMAIN R = 1..Len(R)
      BY <1>1, <2>1 DEF IInv, Types
    <3>2. IsFiniteSet(DOMAIN R) /\ Cardinality(DOMAIN R) = Len(R)
      <4>1. /\ IsFiniteSet(1..Len(R))
            /\ Cardinality(1..Len(R)) = IF 1 > Len(R) THEN 0 ELSE Len(R) - 1 + 1
        BY <3>1, FS_Interval
      <4>. QED  BY <3>1, <4>1
    <3>3. A \subseteq DOMAIN R
      BY DEF Scored
    <3>. HIDE DEF A
    <3>4. IsFiniteSet(A) /\ IsFiniteSet(B)
      BY <3>2, <3>3, FS_Subset
    <3>5. Cardinality(A \cup B) = Cardinality(A) + Cardinality(B) - Cardinality(A \cap B)
      BY <3>4, FS_Union
    <3>6. A \cup B = DOMAIN R /\ A \cap B = {}
      BY <3>3
    <3>7. Cardinality(A) \in Nat /\ Cardinality(B) \in Nat
      BY <3>4, FS_CardinalityType
    <3>8. Cardinality(A) + Cardinality(B) = Len(R)
      <4>1. Cardinality(A \cup B) = Len(R) /\ Cardinality(A \cap B) = 0
        BY <3>2, <3>6, FS_EmptySet
      <4>. HIDE DEF B, R
      <4>. QED  BY <3>5, <3>7, <4>1
    <3>. QED  BY <3>7, <3>8 DEF A
  <2>3. ASSUME NEW u \in Done
        PROVE  Len(records[u]) + errors[u] + skipped[u] = Cardinality(Of(u))
    <3>1. UnitInv(u) /\ phase[u] = "done"
      BY <1>1 DEF IInv, Done
    <3>2. ends[u] = <<>>
      BY <3>1 DEF UnitInv, Path
    <3>3. Passed(u) = Of(u)
      BY <3>2, EmptyScript DEF Passed
    <3>. QED  BY <1>1, <3>1, <3>3 DEF UnitInv, Accounted
  <2>4. /\ f1 \in [Done -> Nat] /\ f2 \in [Done -> Nat]
        /\ f3 \in [Done -> Nat] /\ f4 \in [Done -> Nat]
    <3>1. \A u \in Done : errors[u] \in Nat /\ skipped[u] \in Nat
      BY <1>1, <2>1 DEF IInv, Types
    <3>. QED  BY <2>2, <3>1
  <2>5. ASSUME NEW u \in Done PROVE f1[u] + f2[u] + f3[u] + f4[u] = Cardinality(Of(u))
    <3>1. errors[u] \in Nat /\ skipped[u] \in Nat
      BY <1>1, <2>1 DEF IInv, Types
    <3>2. f1[u] + f2[u] = Len(records[u]) /\ f3[u] = errors[u] /\ f4[u] = skipped[u]
      BY <2>2
    <3>. QED  BY <2>3, <2>4, <3>2
  <2>6. /\ Report.questions = Sum(f1) /\ Report.unscored = Sum(f2)
        /\ Report.errors = Sum(f3) /\ Report.skipped = Sum(f4)
    BY DEF Report
  <2>7. OfSome(Done) = {q \in Questions : UnitOf[q] \in Done}
    BY DEF OfSome
  <2>. HIDE DEF f1, f2, f3, f4
  <2>8. Sum(f1) + Sum(f2) + Sum(f3) + Sum(f4) = Cardinality(OfSome(Done))
    BY <2>1, <2>4, <2>5, SumsCount
  <2>. QED  BY <2>6, <2>7, <2>8
<1>2. IInv => AccountsAddUp
  BY <1>1 DEF AccountsAddUp
<1>. QED  BY <1>2, InvHolds, PTL
=============================================================================
