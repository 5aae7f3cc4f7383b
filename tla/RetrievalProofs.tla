--------------------------- MODULE RetrievalProofs ---------------------------
(***************************************************************************)
(* Proofs about Retrieval: what a request may disclose, how full its pages *)
(* are, what demand it records and how it answers for its edges, for any   *)
(* tables, rankings, requests, failures and writes of others.              *)
(***************************************************************************)
EXTENDS Retrieval, FiniteSetTheorems, FunctionTheorems, SequenceTheorems,
        WellFoundedInduction, TLAPS

-----------------------------------------------------------------------------
(* Orders and rankings.                                                    *)

\* before orders S strictly and totally.
StrictOrder(S, before) ==
    /\ \A x \in S : <<x, x>> \notin before
    /\ \A x, y, z \in S : <<x, y>> \in before /\ <<y, z>> \in before => <<x, z>> \in before
    /\ \A x, y \in S : x = y \/ <<x, y>> \in before \/ <<y, x>> \in before

Below(S, before, x) == {y \in S : <<y, x>> \in before}

\* Of two elements the lower one has fewer below it.
LEMMA BelowCount ==
    ASSUME NEW S, IsFiniteSet(S), NEW before, StrictOrder(S, before), NEW x \in S
    PROVE  /\ Cardinality(Below(S, before, x)) \in Nat
           /\ Cardinality(Below(S, before, x)) < Cardinality(S)
           /\ \A y \in S : <<x, y>> \in before =>
                Cardinality(Below(S, before, x)) < Cardinality(Below(S, before, y))
<1>. DEFINE size(y) == Cardinality(Below(S, before, y))
            n == Cardinality(S)
<1>1. n \in Nat
  BY FS_CardinalityType
<1>2. ASSUME NEW y \in S PROVE IsFiniteSet(Below(S, before, y)) /\ size(y) \in Nat
  <2>1. Below(S, before, y) \in SUBSET S
    BY DEF Below
  <2>. QED  BY <2>1, FS_Subset, FS_CardinalityType
<1>3. size(x) < n
  <2>1. Below(S, before, x) \in SUBSET S /\ x \notin Below(S, before, x)
    BY DEF Below, StrictOrder
  <2>2. size(x) <= n /\ size(x) # n
    BY <2>1, FS_Subset
  <2>. HIDE DEF size, n
  <2>. QED  BY <1>1, <1>2, <2>2
<1>4. ASSUME NEW y \in S, <<x, y>> \in before PROVE size(x) < size(y)
  <2>1. Below(S, before, x) \subseteq Below(S, before, y)
    BY <1>4 DEF Below, StrictOrder
  <2>2. x \in Below(S, before, y) /\ x \notin Below(S, before, x)
    BY <1>4 DEF Below, StrictOrder
  <2>3. size(x) <= size(y) /\ size(x) # size(y)
    BY <1>2, <2>1, <2>2, FS_Subset
  <2>. HIDE DEF size
  <2>. QED  BY <1>2, <2>3
<1>. QED  BY <1>2, <1>3, <1>4

\* Every place is taken.
LEMMA PlacesTaken ==
    ASSUME NEW S, IsFiniteSet(S), NEW before, StrictOrder(S, before),
           NEW i \in 1..Cardinality(S)
    PROVE  \E x \in S : Cardinality(Below(S, before, x)) = i - 1
<1>. DEFINE size(y) == Cardinality(Below(S, before, y))
            n == Cardinality(S)
            place == [x \in S |-> size(x) + 1]
<1>1. n \in Nat
  BY FS_CardinalityType
<1>2. \A x \in S : size(x) \in Nat /\ size(x) < n
  BY BelowCount
<1>3. \A x, y \in S : <<x, y>> \in before => size(x) < size(y)
  BY BelowCount
<1>. HIDE DEF n, size
<1>4. place \in [S -> 1..n]
  <2>1. \A x \in S : size(x) + 1 \in 1..n
    BY <1>1, <1>2
  <2>. QED  BY <2>1
<1>5. \A x, y \in S : place[x] = place[y] => x = y
  <2>. SUFFICES ASSUME NEW x \in S, NEW y \in S, size(x) + 1 = size(y) + 1 PROVE x = y
    OBVIOUS
  <2>1. size(x) \in Nat /\ size(y) \in Nat /\ size(x) = size(y)
    BY <1>2
  <2>2. <<x, y>> \notin before /\ <<y, x>> \notin before
    BY <1>3, <2>1
  <2>. QED  BY <2>2 DEF StrictOrder
<1>6. place \in Surjection(S, 1..n)
  <2>1. IsFiniteSet(1..n) /\ Cardinality(1..n) = Cardinality(S)
    BY <1>1, FS_Interval DEF n
  <2>. QED  BY <1>4, <1>5, <2>1, Fun_IsInj, FS_Injection
<1>7. PICK x \in S : place[x] = i
  BY <1>6 DEF Surjection, n
<1>. QED  BY <1>2, <1>7 DEF size

\* Sorted lists every element once, in order.
LEMMA SortedLists ==
    ASSUME NEW S, IsFiniteSet(S), NEW before, StrictOrder(S, before)
    PROVE  /\ Sorted(S, before) \in Seq(S)
           /\ Len(Sorted(S, before)) = Cardinality(S)
           /\ Range(Sorted(S, before)) = S
           /\ IsInjective(Sorted(S, before))
           /\ \A i, j \in 1..Cardinality(S) :
                <<Sorted(S, before)[i], Sorted(S, before)[j]>> \in before <=> i < j
<1>. DEFINE n == Cardinality(S)
            s == Sorted(S, before)
            size(y) == Cardinality(Below(S, before, y))
<1>1. n \in Nat
  BY FS_CardinalityType
<1>2. s = [i \in 1..n |-> CHOOSE x \in S : size(x) = i - 1]
  BY DEF Sorted, Below
<1>3. \A i \in 1..n : \E x \in S : size(x) = i - 1
  BY PlacesTaken
<1>4. \A x \in S : size(x) \in Nat /\ size(x) < n
  BY BelowCount
<1>5. \A x, y \in S : <<x, y>> \in before => size(x) < size(y)
  BY BelowCount
<1>. HIDE DEF n, s, size
<1>6. \A i \in 1..n : s[i] \in S /\ size(s[i]) = i - 1
  BY <1>2, <1>3
<1>7. s \in [1..n -> S] /\ DOMAIN s = 1..n
  BY <1>2, <1>6
<1>8. s \in Seq(S) /\ Len(s) = n
  BY <1>1, <1>7
<1>9. \A i, j \in 1..n : <<s[i], s[j]>> \in before => i < j
  <2>. SUFFICES ASSUME NEW i \in 1..n, NEW j \in 1..n, <<s[i], s[j]>> \in before PROVE i < j
    OBVIOUS
  <2>1. i - 1 < j - 1
    BY <1>5, <1>6
  <2>. QED  BY <2>1
<1>10. \A i, j \in 1..n : s[i] = s[j] => i = j
  <2>. SUFFICES ASSUME NEW i \in 1..n, NEW j \in 1..n, s[i] = s[j] PROVE i = j
    OBVIOUS
  <2>1. i - 1 = j - 1
    BY <1>6
  <2>. QED  BY <2>1
<1>11. \A i, j \in 1..n : i < j => <<s[i], s[j]>> \in before
  <2>. SUFFICES ASSUME NEW i \in 1..n, NEW j \in 1..n, i < j PROVE <<s[i], s[j]>> \in before
    OBVIOUS
  <2>1. s[i] # s[j] /\ s[i] \in S /\ s[j] \in S
    BY <1>6, <1>10
  <2>2. <<s[j], s[i]>> \notin before
    BY <1>9
  <2>. QED  BY <2>1, <2>2 DEF StrictOrder
<1>12. S \subseteq Range(s)
  <2>. SUFFICES ASSUME NEW x \in S PROVE x \in Range(s)
    OBVIOUS
  <2>1. size(x) \in Nat /\ size(x) < n /\ size(x) + 1 \in 1..n
    BY <1>1, <1>4
  <2>2. PICK i \in 1..n : i = size(x) + 1
    BY <2>1
  <2>3. size(s[i]) = size(x) /\ s[i] \in S
    BY <1>6, <2>1, <2>2
  <2>4. <<s[i], x>> \notin before /\ <<x, s[i]>> \notin before
    BY <1>4, <1>5, <2>3
  <2>5. s[i] = x
    BY <2>3, <2>4 DEF StrictOrder
  <2>. QED  BY <1>7, <2>5 DEF Range
<1>13. Range(s) = S
  BY <1>6, <1>7, <1>12 DEF Range
<1>. QED  BY <1>7, <1>8, <1>9, <1>10, <1>11, <1>13 DEF n, s, IsInjective

\* The part of a ranking that is in a set, and the head of a ranking, rank.
LEMMA RankInList ==
    ASSUME NEW list, IsRanking(list)
    PROVE  /\ Range(list) \in SUBSET Ids /\ IsFiniteSet(Range(list))
           /\ Cardinality(Range(list)) = Len(list) /\ Len(list) \in Nat
           /\ DOMAIN list = 1..Len(list)
           /\ \A id \in Range(list) : /\ RankIn(list, id) \in 1..Len(list)
                                      /\ list[RankIn(list, id)] = id
           /\ \A i \in 1..Len(list) : list[i] \in Range(list) /\ RankIn(list, list[i]) = i
<1>1. list \in [1..Len(list) -> Ids] /\ Len(list) \in Nat /\ DOMAIN list = 1..Len(list)
  BY DEF IsRanking
<1>2. Range(list) \in SUBSET Ids
  BY <1>1 DEF Range
<1>3. IsFiniteSet(Range(list))
  <2>1. IsFiniteSet(Ids)
    BY FusionAssumption
  <2>. QED  BY <1>2, <2>1, FS_Subset
<1>4. Cardinality(Range(list)) = Len(list)
  <2>. DEFINE n == Len(list)
  <2>. HIDE DEF n
  <2>1. IsFiniteSet(1..n) /\ Cardinality(1..n) = n
    <3>1. n \in Nat
      BY <1>1 DEF n
    <3>. QED  BY <3>1, FS_Interval
  <2>2. list \in [1..Len(list) -> Range(list)]
    BY <1>1 DEF Range
  <2>3. \A i, j \in 1..Len(list) : list[i] = list[j] => i = j
    BY <1>1 DEF IsRanking, IsInjective
  <2>4. \A x \in Range(list) : \E i \in 1..Len(list) : list[i] = x
    BY <1>1 DEF Range
  <2>5. list \in Bijection(1..Len(list), Range(list))
    BY <2>2, <2>3, <2>4, Fun_IsBij
  <2>6. list \in Bijection(1..n, Range(list))
    BY <2>5 DEF n
  <2>7. Cardinality(Range(list)) = n
    <3>. DEFINE S == 1..n
                T == Range(list)
    <3>. HIDE DEF S, T
    <3>1. IsFiniteSet(S) /\ Cardinality(S) = n /\ list \in Bijection(S, T)
      BY <2>1, <2>6 DEF S, T
    <3>2. ExistsBijection(S, T)
      BY <3>1 DEF ExistsBijection
    <3>3. Cardinality(T) = Cardinality(S)
      BY <3>1, <3>2, FS_Bijection
    <3>. QED  BY <3>1, <3>3 DEF T
  <2>. QED  BY <2>7 DEF n
<1>5. \A id \in Range(list) : RankIn(list, id) \in 1..Len(list) /\ list[RankIn(list, id)] = id
  BY <1>1 DEF Range, RankIn
<1>6. \A i \in 1..Len(list) : list[i] \in Range(list)
  BY <1>1 DEF Range
<1>7. \A i \in 1..Len(list) : RankIn(list, list[i]) = i
  BY <1>1, <1>5, <1>6 DEF IsRanking, IsInjective
<1>. QED  BY <1>1, <1>2, <1>3, <1>4, <1>5, <1>6, <1>7

LEMMA OnlyRanks ==
    ASSUME NEW list, IsRanking(list), NEW S
    PROVE  /\ IsRanking(Only(list, S))
           /\ Range(Only(list, S)) = Range(list) \cap S
           /\ Len(Only(list, S)) = Cardinality(Range(list) \cap S)
           /\ \A i, j \in DOMAIN Only(list, S) :
                i < j <=> RankIn(list, Only(list, S)[i]) < RankIn(list, Only(list, S)[j])
<1>. DEFINE ids == Range(list) \cap S
            before == {p \in ids \X ids : RankIn(list, p[1]) < RankIn(list, p[2])}
            s == Sorted(ids, before)
<1>1. ids \in SUBSET Ids /\ IsFiniteSet(ids) /\ ids \in SUBSET Range(list)
  BY RankInList, FS_Subset
<1>2. \A x \in ids : RankIn(list, x) \in Int /\ list[RankIn(list, x)] = x
  BY RankInList
<1>3. \A x, y \in ids : <<x, y>> \in before <=> RankIn(list, x) < RankIn(list, y)
  OBVIOUS
<1>4. Only(list, S) = s
  BY DEF Only
<1>. HIDE DEF before, ids
<1>5. StrictOrder(ids, before)
  BY <1>2, <1>3 DEF StrictOrder
<1>6. /\ s \in Seq(ids) /\ Len(s) = Cardinality(ids)
      /\ Range(s) = ids /\ IsInjective(s)
      /\ \A i, j \in 1..Cardinality(ids) : <<s[i], s[j]>> \in before <=> i < j
  BY <1>1, <1>5, SortedLists
<1>. HIDE DEF s
<1>7. IsRanking(s)
  BY <1>1, <1>6 DEF IsRanking
<1>8. DOMAIN s = 1..Cardinality(ids) /\ \A i \in DOMAIN s : s[i] \in ids
  BY <1>6
<1>9. \A i, j \in DOMAIN s : i < j <=> RankIn(list, s[i]) < RankIn(list, s[j])
  BY <1>3, <1>6, <1>8
<1>. QED  BY <1>4, <1>6, <1>7, <1>9 DEF ids

LEMMA TruncateRanks ==
    ASSUME NEW list, IsRanking(list), NEW n \in Nat
    PROVE  /\ IsRanking(Truncate(list, n))
           /\ Range(Truncate(list, n)) \in SUBSET Range(list)
           /\ Len(Truncate(list, n)) = IF n < Len(list) THEN n ELSE Len(list)
           /\ \A i \in 1..Len(Truncate(list, n)) : Truncate(list, n)[i] = list[i]
<1>. DEFINE m == IF n < Len(list) THEN n ELSE Len(list)
            s == Truncate(list, n)
<1>1. list \in Seq(Ids) /\ Len(list) \in Nat /\ m \in Nat /\ m <= Len(list)
  BY DEF IsRanking
<1>2. s = SubSeq(list, 1, m)
  BY DEF Truncate
<1>. HIDE DEF m, s
<1>3. s \in Seq(Ids) /\ Len(s) = m /\ DOMAIN s = 1..m /\ \A i \in 1..m : s[i] = list[i]
  BY <1>1, <1>2
<1>4. \A i, j \in 1..m : list[i] = list[j] => i = j
  BY <1>1 DEF IsRanking, IsInjective
<1>5. IsRanking(s)
  BY <1>3, <1>4 DEF IsRanking, IsInjective
<1>6. Range(s) \in SUBSET Range(list)
  BY <1>1, <1>3 DEF Range
<1>. QED  BY <1>3, <1>5, <1>6 DEF m, s

-----------------------------------------------------------------------------
(* Recursion and induction.                                                *)

LEMMA SetInduction ==
    ASSUME NEW S \in SUBSET Nat, 0 \in S, \A n \in S : n + 1 \in S
    PROVE  S = Nat
<1>. SUFFICES ASSUME Nat \ S # {} PROVE FALSE
  OBVIOUS
<1>1. IsWellFoundedOn(OpToRel(<, Nat), Nat)
  BY NatLessThanWellFounded
<1>2. PICK n \in Nat \ S : \A m \in Nat \ S : ~ (<<m, n>> \in OpToRel(<, Nat))
  BY <1>1, WFMin
<1>3. \A m \in Nat \ S : ~(m < n)
  BY <1>2 DEF OpToRel
<1>4. n # 0 /\ n - 1 \in Nat /\ n - 1 < n
  OBVIOUS
<1>5. n - 1 \in S
  BY <1>3, <1>4
<1>. QED  BY <1>5

\* A function by recursion over 0..n exists.
Recurs(f, n, base, step) == f[0] = base /\ \A i \in 1..n : f[i] = step[i][f[i - 1]]

LEMMA RecursiveOn ==
    ASSUME NEW n \in Nat, NEW V, NEW base \in V, NEW step \in [1..n -> [V -> V]]
    PROVE  \E f \in [0..n -> V] : Recurs(f, n, base, step)
<1>. DEFINE Upto(k) == \E f \in [0..n -> V] :
                            f[0] = base /\ \A i \in 1..n : i <= k => f[i] = step[i][f[i - 1]]
            S == {k \in Nat : k <= n => Upto(k)}
<1>1. Upto(0)
  <2>. DEFINE f == [i \in 0..n |-> base]
  <2>1. f \in [0..n -> V] /\ f[0] = base /\ \A i \in 1..n : i <= 0 => f[i] = step[i][f[i - 1]]
    OBVIOUS
  <2>. QED  BY <2>1
<1>2. ASSUME NEW k \in Nat, Upto(k), k + 1 <= n PROVE Upto(k + 1)
  <2>1. PICK f \in [0..n -> V] :
            f[0] = base /\ \A i \in 1..n : i <= k => f[i] = step[i][f[i - 1]]
    BY <1>2
  <2>. DEFINE g == [i \in 0..n |-> IF i = k + 1 THEN step[k + 1][f[k]] ELSE f[i]]
  <2>2. step[k + 1][f[k]] \in V
    BY <1>2
  <2>3. g \in [0..n -> V] /\ g[0] = base
    BY <2>1, <2>2
  <2>4. ASSUME NEW i \in 1..n, i <= k + 1 PROVE g[i] = step[i][g[i - 1]]
    <3>1. CASE i = k + 1
      BY <3>1
    <3>2. CASE i <= k
      BY <2>1, <3>2
    <3>. QED  BY <2>4, <3>1, <3>2
  <2>. HIDE DEF g
  <2>. QED  BY <2>3, <2>4
<1>. HIDE DEF Upto
<1>3. S = Nat
  <2>1. S \in SUBSET Nat /\ 0 \in S
    BY <1>1
  <2>2. \A k \in S : k + 1 \in S
    BY <1>2
  <2>. HIDE DEF S
  <2>. QED  BY <2>1, <2>2, SetInduction
<1>4. Upto(n)
  BY <1>3
<1>. QED  BY <1>4 DEF Upto, Recurs

-----------------------------------------------------------------------------
(* The scores of a fusion are numbers, its result is a ranking.            *)

LEMMA RisingIs ==
    /\ Cardinality(Ids) \in Nat
    /\ \A n \in 0..Cardinality(Ids) :
        /\ Rising[n] \in Nat \ {0}
        /\ Rising[n] = IF n = 0 THEN 1 ELSE (K + n) * Rising[n - 1]
<1>. DEFINE C == Cardinality(Ids)
            V == Nat \ {0}
            step == [i \in 1..C |-> [v \in V |-> (K + i) * v]]
            Eq(f) == f = [n \in 0..C |-> IF n = 0 THEN 1 ELSE (K + n) * f[n - 1]]
<1>1. C \in Nat /\ K \in Nat
  BY FusionAssumption, FS_CardinalityType
<1>. HIDE DEF C
<1>2. \A i \in 1..C, v \in V : (K + i) * v \in V
  <2>. SUFFICES ASSUME NEW i \in 1..C, NEW v \in V PROVE (K + i) * v \in V
    OBVIOUS
  <2>. DEFINE k == K + i
  <2>1. k \in Nat /\ k > 0 /\ v \in Nat /\ v > 0
    BY <1>1
  <2>. HIDE DEF k
  <2>2. k * v \in Nat /\ k * v > 0
    BY <2>1
  <2>. QED  BY <2>2 DEF k
<1>3. step \in [1..C -> [V -> V]]
  BY <1>2
<1>4. PICK f \in [0..C -> V] : f[0] = 1 /\ \A i \in 1..C : f[i] = step[i][f[i - 1]]
  <2>1. 1 \in V
    OBVIOUS
  <2>. HIDE DEF V, step
  <2>2. \E f \in [0..C -> V] : Recurs(f, C, 1, step)
    BY <1>1, <1>3, <2>1, RecursiveOn
  <2>. QED  BY <2>2 DEF Recurs
<1>5. Eq(f)
  <2>1. \A i \in 1..C : f[i] = (K + i) * f[i - 1]
    <3>. SUFFICES ASSUME NEW i \in 1..C PROVE f[i] = (K + i) * f[i - 1]
      OBVIOUS
    <3>1. i - 1 \in 0..C
      BY <1>1
    <3>2. f[i - 1] \in V
      BY <3>1
    <3>. QED  BY <1>4, <3>2
  <2>2. \A n \in 0..C : n = 0 \/ n \in 1..C
    BY <1>1
  <2>. HIDE DEF V
  <2>. QED  BY <1>4, <2>1, <2>2
<1>6. Eq(Rising)
  <2>1. Rising = CHOOSE g : Eq(g)
    BY DEF Rising, C
  <2>. HIDE DEF Eq
  <2>. QED  BY <1>5, <2>1
<1>7. \A n \in 0..C : Rising[n] = IF n = 0 THEN 1 ELSE (K + n) * Rising[n - 1]
  BY <1>6
<1>8. \A n \in 0..C : Rising[n] \in V
  <2>. DEFINE S == {n \in Nat : n <= C => Rising[n] \in V}
  <2>1. 0 \in S
    BY <1>1, <1>7
  <2>2. ASSUME NEW n \in S PROVE n + 1 \in S
    <3>. SUFFICES ASSUME n + 1 <= C PROVE Rising[n + 1] \in V
      OBVIOUS
    <3>1. n \in Nat /\ n <= C /\ Rising[n] \in V /\ n + 1 \in 1..C /\ n + 1 \in 0..C
          /\ (n + 1) - 1 = n /\ n + 1 # 0
      BY <1>1, <2>2
    <3>2. Rising[n + 1] = (K + (n + 1)) * Rising[n]
      BY <1>7, <3>1
    <3>. HIDE DEF V, S
    <3>. QED  BY <1>2, <3>1, <3>2
  <2>3. S \in SUBSET Nat
    OBVIOUS
  <2>4. S = Nat
    <3>. HIDE DEF S
    <3>. QED  BY <2>1, <2>2, <2>3, SetInduction
  <2>. QED  BY <1>1, <2>4
<1>. QED  BY <1>1, <1>7, <1>8 DEF C

LEMMA Quotient ==
    ASSUME NEW a \in Nat, NEW b \in Nat, b > 0
    PROVE  a \div b \in Nat
OBVIOUS

\* A larger set has more sequences.
LEMMA SeqMonotone ==
    ASSUME NEW T, NEW S \in SUBSET T, NEW s \in Seq(S)
    PROVE  s \in Seq(T)
<1>1. Len(s) \in Nat /\ s \in [1..Len(s) -> S]
  OBVIOUS
<1>2. s \in [1..Len(s) -> T]
  BY <1>1
<1>. QED  BY <1>1, <1>2

LEMMA FusedNumber ==
    ASSUME NEW bm25, IsRanking(bm25), NEW vector, IsRanking(vector), NEW id
    PROVE  /\ Share(bm25, BmShare, id) \in Nat /\ Share(vector, VecShare, id) \in Nat
           /\ Fused(bm25, vector, id) \in Nat
           /\ FusedMax \in Nat
<1>1. K \in Nat /\ BmShare \in Nat /\ VecShare \in Nat
  BY FusionAssumption
<1>2. Unit \in Nat
  BY RisingIs DEF Unit
<1>3. ASSUME NEW weight \in Nat, NEW list, IsRanking(list)
      PROVE  Share(list, weight, id) \in Nat
  <2>1. weight * Unit \in Nat
    BY <1>2
  <2>2. CASE id \in Range(list)
    <3>1. RankIn(list, id) \in 1..Len(list) /\ Len(list) \in Nat
      BY <1>3, <2>2, RankInList
    <3>2. K + RankIn(list, id) \in Nat /\ K + RankIn(list, id) > 0
      BY <1>1, <3>1
    <3>3. (weight * Unit) \div (K + RankIn(list, id)) \in Nat
      BY <2>1, <3>2, Quotient
    <3>. QED  BY <2>2, <3>3 DEF Share
  <2>3. CASE id \notin Range(list)
    BY <2>3 DEF Share
  <2>. QED  BY <2>2, <2>3
<1>4. FusedMax \in Nat
  <2>1. (BmShare + VecShare) * Unit \in Nat /\ K + 1 \in Nat /\ K + 1 > 0
    BY <1>1, <1>2
  <2>. QED  BY <2>1, Quotient DEF FusedMax
<1>5. Share(bm25, BmShare, id) \in Nat /\ Share(vector, VecShare, id) \in Nat
  BY <1>1, <1>3
<1>. QED  BY <1>4, <1>5 DEF Fused

\* The fused ranking, before it is cut, holds every id of the two channels.
FusedIds(bm25, vector) == Range(bm25) \cup Range(vector)

FusedBefore(bm25, vector) ==
    {p \in FusedIds(bm25, vector) \X FusedIds(bm25, vector) :
        \/ Fused(bm25, vector, p[1]) > Fused(bm25, vector, p[2])
        \/ Fused(bm25, vector, p[1]) = Fused(bm25, vector, p[2]) /\ p[1] < p[2]}

LEMMA FuseRanks ==
    ASSUME NEW bm25, IsRanking(bm25), NEW vector, IsRanking(vector), NEW limit \in Nat
    PROVE  LET ids == FusedIds(bm25, vector)
               all == Sorted(ids, FusedBefore(bm25, vector))
               s == RrfFuse(bm25, vector, limit)
           IN  /\ ids \in SUBSET Ids /\ IsFiniteSet(ids)
               /\ IsRanking(all) /\ Range(all) = ids /\ Len(all) = Cardinality(ids)
               /\ \A i, j \in 1..Cardinality(ids) :
                    i < j <=> <<all[i], all[j]>> \in FusedBefore(bm25, vector)
               /\ s = IF BmShare + VecShare = 0 THEN <<>> ELSE Truncate(all, limit)
               /\ IsRanking(s) /\ Range(s) \in SUBSET ids /\ Len(s) <= limit
<1>. DEFINE ids == FusedIds(bm25, vector)
            F(id) == Fused(bm25, vector, id)
            before == FusedBefore(bm25, vector)
            all == Sorted(ids, before)
            s == RrfFuse(bm25, vector, limit)
<1>1. ids \in SUBSET Ids /\ IsFiniteSet(ids) /\ ids \in SUBSET Nat
  <2>1. ids \in SUBSET Ids
    BY RankInList DEF FusedIds
  <2>2. IsFiniteSet(Ids) /\ Ids \in SUBSET Nat
    BY FusionAssumption
  <2>. QED  BY <2>1, <2>2, FS_Subset
<1>2. \A id \in ids : F(id) \in Nat
  BY FusedNumber
<1>3. s = IF BmShare + VecShare = 0 THEN <<>> ELSE Truncate(all, limit)
  <2>. DEFINE score == [id \in ids |-> F(id)]
              bef == {p \in ids \X ids : \/ score[p[1]] > score[p[2]]
                                         \/ score[p[1]] = score[p[2]] /\ p[1] < p[2]}
  <2>1. bef = before
    BY DEF FusedBefore
  <2>2. s = IF BmShare + VecShare = 0 THEN <<>> ELSE Truncate(Sorted(ids, bef), limit)
    BY DEF RrfFuse, FusedIds
  <2>. HIDE DEF bef, before
  <2>. QED  BY <2>1, <2>2
<1>4. \A x, y \in ids : <<x, y>> \in before <=> F(x) > F(y) \/ (F(x) = F(y) /\ x < y)
  BY DEF FusedBefore
<1>. HIDE DEF before, ids, F
<1>5. StrictOrder(ids, before)
  BY <1>1, <1>2, <1>4 DEF StrictOrder
<1>6. /\ all \in Seq(ids) /\ Len(all) = Cardinality(ids) /\ Range(all) = ids
      /\ IsInjective(all)
      /\ \A i, j \in 1..Cardinality(ids) : <<all[i], all[j]>> \in before <=> i < j
  BY <1>1, <1>5, SortedLists
<1>. HIDE DEF all, s
<1>7. IsRanking(all)
  <2>1. all \in Seq(Ids)
    BY <1>1, <1>6, SeqMonotone
  <2>. QED  BY <1>6, <2>1 DEF IsRanking
<1>8. IsRanking(s) /\ Range(s) \in SUBSET ids /\ Len(s) <= limit
  <2>1. CASE BmShare + VecShare = 0
    <3>1. s = <<>>
      BY <1>3, <2>1
    <3>. QED  BY <3>1 DEF IsRanking, IsInjective, Range
  <2>2. CASE BmShare + VecShare # 0
    <3>1. Len(all) \in Nat
      BY <1>7 DEF IsRanking
    <3>. QED  BY <1>3, <1>6, <1>7, <2>2, <3>1, TruncateRanks
  <2>. QED  BY <2>1, <2>2
<1>. QED  BY <1>1, <1>3, <1>6, <1>7, <1>8 DEF ids, before, all, s

LEMMA CompositeRanks ==
    ASSUME NEW ranking, IsRanking(ranking), NEW score \in [Range(ranking) -> Nat],
           NEW some \in SUBSET Range(ranking)
    PROVE  /\ IsFiniteSet(some)
           /\ \A id \in some : Composite(score[id], id) \in Nat
           /\ IsRanking(ByComposite(ranking, score, some))
           /\ Range(ByComposite(ranking, score, some)) = some
           /\ \A i, j \in DOMAIN ByComposite(ranking, score, some) : i < j =>
                LET x == ByComposite(ranking, score, some)[i]
                    y == ByComposite(ranking, score, some)[j]
                IN  Composite(score[x], x) >= Composite(score[y], y)
<1>. DEFINE total == [id \in some |-> Composite(score[id], id)]
            before == {p \in some \X some :
                          \/ total[p[1]] > total[p[2]]
                          \/ /\ total[p[1]] = total[p[2]]
                             /\ RankIn(ranking, p[1]) < RankIn(ranking, p[2])}
            s == Sorted(some, before)
<1>1. some \in SUBSET Ids /\ IsFiniteSet(some)
  BY RankInList, FS_Subset
<1>2. ASSUME NEW id \in some PROVE Composite(score[id], id) \in Nat
  <2>1. id \in Ids /\ score[id] \in Nat
    BY <1>1
  <2>2. /\ SearchShare \in Nat /\ WeightShare \in Nat /\ ImportanceShare \in Nat
        /\ WeightOf[id] \in Nat /\ ImportanceOf[id] \in Nat
    BY <2>1, FusionAssumption
  <2>3. FusedMax \in Nat
    <3>1. IsRanking(<<>>)
      BY DEF IsRanking, IsInjective
    <3>. QED  BY <3>1, FusedNumber
  <2>4. WeightShare * WeightOf[id] \in Nat /\ ImportanceShare * ImportanceOf[id] \in Nat
    BY <2>2
  <2>5. WeightShare * WeightOf[id] + ImportanceShare * ImportanceOf[id] \in Nat
    BY <2>4
  <2>6. FusedMax * (WeightShare * WeightOf[id] + ImportanceShare * ImportanceOf[id]) \in Nat
    BY <2>3, <2>5
  <2>7. 10 * SearchShare \in Nat
    BY <2>2
  <2>8. 10 * SearchShare * score[id] \in Nat
    BY <2>1, <2>7
  <2>. QED  BY <2>6, <2>8 DEF Composite
<1>3. \A x \in some : RankIn(ranking, x) \in Int /\ ranking[RankIn(ranking, x)] = x
  BY RankInList
<1>4. total \in [some -> Nat]
  BY <1>2
<1>5. \A x, y \in some : <<x, y>> \in before <=>
        \/ total[x] > total[y]
        \/ total[x] = total[y] /\ RankIn(ranking, x) < RankIn(ranking, y)
  OBVIOUS
<1>6. ByComposite(ranking, score, some) = s
  BY DEF ByComposite
<1>7. \A x \in some : total[x] = Composite(score[x], x)
  OBVIOUS
<1>. HIDE DEF total, before
<1>8. StrictOrder(some, before)
  BY <1>3, <1>4, <1>5 DEF StrictOrder
<1>9. /\ s \in Seq(some) /\ Len(s) = Cardinality(some) /\ Range(s) = some /\ IsInjective(s)
      /\ \A i, j \in 1..Cardinality(some) : <<s[i], s[j]>> \in before <=> i < j
  BY <1>1, <1>8, SortedLists
<1>. HIDE DEF s
<1>10. IsRanking(s)
  <2>1. s \in Seq(Ids)
    BY <1>1, <1>9, SeqMonotone
  <2>. QED  BY <1>9, <2>1 DEF IsRanking
<1>11. DOMAIN s = 1..Cardinality(some) /\ \A i \in DOMAIN s : s[i] \in some
  BY <1>9
<1>12. ASSUME NEW i \in DOMAIN s, NEW j \in DOMAIN s, i < j
       PROVE  Composite(score[s[i]], s[i]) >= Composite(score[s[j]], s[j])
  <2>1. <<s[i], s[j]>> \in before /\ s[i] \in some /\ s[j] \in some
    BY <1>9, <1>11, <1>12
  <2>2. total[s[i]] >= total[s[j]]
    BY <1>4, <1>5, <2>1
  <2>. QED  BY <1>7, <2>1, <2>2
<1>. QED  BY <1>1, <1>2, <1>6, <1>9, <1>10, <1>12

-----------------------------------------------------------------------------
(* Context assembly: what the removal of near duplicates and the packing   *)
(* keep, drop and spend.                                                   *)

LEMMA SimilarIsSymmetric ==
    \A x, y : Similar(x, y) <=> Similar(y, x)
<1>1. \A x, y : /\ WordsOf[x] \cap WordsOf[y] = WordsOf[y] \cap WordsOf[x]
                /\ WordsOf[x] \cup WordsOf[y] = WordsOf[y] \cup WordsOf[x]
  OBVIOUS
<1>. QED  BY <1>1, Zenon DEF Similar

\* What MmrDedup has kept of the first n hits.
Deduped(hits, s, n) ==
    /\ s \in Seq(Ids)
    /\ IsInjective(s)
    /\ \A i \in DOMAIN s : \E m \in 1..n : s[i] = hits[m]
    /\ \A x, y \in Range(s) : x # y => ~Similar(x, y)
    /\ \A m \in 1..n : \/ hits[m] \in Range(s)
                       \/ \E k \in 1..(m - 1) : hits[k] \in Range(s) /\ Similar(hits[m], hits[k])

LEMMA DedupStep ==
    ASSUME NEW hits, IsRanking(hits), NEW n \in Nat, n + 1 <= Len(hits),
           NEW s, Deduped(hits, s, n)
    PROVE  Deduped(hits, IF Redundant(s, hits[n + 1]) THEN s ELSE Append(s, hits[n + 1]), n + 1)
<1>. DEFINE x == hits[n + 1]
<1>1. /\ s \in Seq(Ids) /\ Len(s) \in Nat /\ DOMAIN s = 1..Len(s) /\ IsInjective(s)
      /\ \A i \in DOMAIN s : s[i] \in Ids
      /\ \A i \in DOMAIN s : \E m \in 1..n : s[i] = hits[m]
      /\ \A u, v \in Range(s) : u # v => ~Similar(u, v)
      /\ \A m \in 1..n : \/ hits[m] \in Range(s)
                         \/ \E k \in 1..(m - 1) : hits[k] \in Range(s) /\ Similar(hits[m], hits[k])
  BY DEF Deduped
<1>2. /\ Len(hits) \in Nat /\ DOMAIN hits = 1..Len(hits) /\ n + 1 \in 1..Len(hits)
      /\ \A i, j \in 1..Len(hits) : hits[i] = hits[j] => i = j
      /\ x \in Ids
  BY DEF IsRanking, IsInjective
<1>3. \A m \in 1..(n + 1) : m \in 1..n \/ m = n + 1
  OBVIOUS
<1>4. 1..n \in SUBSET 1..(n + 1)
  OBVIOUS
<1>5. CASE Redundant(s, x)
  <2>1. PICK i \in DOMAIN s : Similar(x, s[i])
    BY <1>5 DEF Redundant
  <2>2. PICK k \in 1..n : s[i] = hits[k]
    BY <1>1
  <2>3. hits[k] \in Range(s) /\ Similar(hits[n + 1], hits[k]) /\ k \in 1..((n + 1) - 1)
    BY <2>1, <2>2 DEF Range
  <2>4. \A m \in 1..(n + 1) :
            \/ hits[m] \in Range(s)
            \/ \E j \in 1..(m - 1) : hits[j] \in Range(s) /\ Similar(hits[m], hits[j])
    BY <1>1, <1>3, <2>3
  <2>5. \A j \in DOMAIN s : \E m \in 1..(n + 1) : s[j] = hits[m]
    BY <1>1, <1>4
  <2>6. Deduped(hits, s, n + 1)
    BY <1>1, <2>4, <2>5, Zenon DEF Deduped
  <2>. QED  BY <1>5, <2>6
<1>6. CASE ~Redundant(s, x)
  <2>. DEFINE t == Append(s, x)
  <2>1. /\ t \in Seq(Ids) /\ Len(t) = Len(s) + 1 /\ DOMAIN t = 1..(Len(s) + 1)
        /\ t[Len(s) + 1] = x /\ \A i \in 1..Len(s) : t[i] = s[i]
    BY <1>1, <1>2
  <2>. HIDE DEF t
  <2>2. \A i \in DOMAIN t : i \in DOMAIN s \/ i = Len(s) + 1
    BY <1>1, <2>1
  <2>3. \A i \in DOMAIN s : s[i] # x
    <3>. SUFFICES ASSUME NEW i \in DOMAIN s PROVE s[i] # x
      OBVIOUS
    <3>1. PICK m \in 1..n : s[i] = hits[m]
      BY <1>1
    <3>2. m \in 1..Len(hits) /\ m # n + 1
      BY <1>2
    <3>. QED  BY <1>2, <3>1, <3>2
  <2>4. IsInjective(t)
    BY <1>1, <2>1, <2>2, <2>3 DEF IsInjective
  <2>5. Range(t) = Range(s) \cup {x}
    <3>1. \A i \in DOMAIN t : t[i] \in Range(s) \cup {x}
      BY <1>1, <2>1, <2>2 DEF Range
    <3>2. \A i \in DOMAIN s : i \in DOMAIN t /\ t[i] = s[i]
      BY <1>1, <2>1
    <3>3. Len(s) + 1 \in DOMAIN t
      BY <1>1, <2>1
    <3>. QED  BY <2>1, <3>1, <3>2, <3>3 DEF Range
  <2>6. \A i \in DOMAIN t : \E m \in 1..(n + 1) : t[i] = hits[m]
    <3>. SUFFICES ASSUME NEW i \in DOMAIN t PROVE \E m \in 1..(n + 1) : t[i] = hits[m]
      OBVIOUS
    <3>1. CASE i \in DOMAIN s
      BY <1>1, <1>4, <2>1, <3>1
    <3>2. CASE i = Len(s) + 1
      <4>1. n + 1 \in 1..(n + 1)
        OBVIOUS
      <4>. QED  BY <2>1, <3>2, <4>1
    <3>. QED  BY <2>2, <3>1, <3>2
  <2>7. \A u \in Range(s) : ~Similar(x, u)
    BY <1>6 DEF Redundant, Range
  <2>8. \A u, v \in Range(t) : u # v => ~Similar(u, v)
    BY <1>1, <2>5, <2>7, SimilarIsSymmetric
  <2>9. \A m \in 1..(n + 1) :
            \/ hits[m] \in Range(t)
            \/ \E j \in 1..(m - 1) : hits[j] \in Range(t) /\ Similar(hits[m], hits[j])
    <3>. SUFFICES ASSUME NEW m \in 1..(n + 1)
                  PROVE  \/ hits[m] \in Range(t)
                         \/ \E j \in 1..(m - 1) : hits[j] \in Range(t) /\ Similar(hits[m], hits[j])
      OBVIOUS
    <3>1. CASE m \in 1..n
      BY <1>1, <2>5, <3>1
    <3>2. CASE m = n + 1
      BY <2>5, <3>2
    <3>. QED  BY <1>3, <3>1, <3>2
  <2>10. Deduped(hits, t, n + 1)
    BY <2>1, <2>4, <2>6, <2>8, <2>9, Zenon DEF Deduped
  <2>. QED  BY <1>6, <2>10 DEF t
<1>. QED  BY <1>5, <1>6

LEMMA DedupIs ==
    ASSUME NEW hits, IsRanking(hits)
    PROVE  Deduped(hits, MmrDedup(hits), Len(hits))
<1>. DEFINE n == Len(hits)
            V == Seq(Ids)
            next(s, x) == IF Redundant(s, x) THEN s ELSE Append(s, x)
            step == [i \in 1..n |-> [s \in V |-> next(s, hits[i])]]
            Eq(f) == f = [i \in 0..n |-> IF i = 0 THEN <<>> ELSE next(f[i - 1], hits[i])]
            got == CHOOSE f : Eq(f)
<1>1. n \in Nat /\ DOMAIN hits = 1..n /\ \A i \in 1..n : hits[i] \in Ids
  BY DEF IsRanking
<1>2. MmrDedup(hits) = got[n]
  BY DEF MmrDedup
<1>. HIDE DEF n
<1>3. step \in [1..n -> [V -> V]]
  <2>1. \A i \in 1..n, s \in V : next(s, hits[i]) \in V
    BY <1>1
  <2>. HIDE DEF V, next
  <2>. QED  BY <2>1
<1>4. PICK f \in [0..n -> V] : f[0] = <<>> /\ \A i \in 1..n : f[i] = step[i][f[i - 1]]
  <2>1. n \in Nat /\ <<>> \in V
    BY <1>1
  <2>. HIDE DEF V, step
  <2>2. \E f \in [0..n -> V] : Recurs(f, n, <<>>, step)
    BY <1>3, <2>1, RecursiveOn
  <2>. QED  BY <2>2 DEF Recurs
<1>. HIDE DEF V
<1>5. Eq(f)
  <2>. HIDE DEF next
  <2>1. ASSUME NEW i \in 1..n PROVE f[i] = next(f[i - 1], hits[i])
    <3>1. i - 1 \in 0..n
      BY <1>1
    <3>2. f[i - 1] \in V
      BY <3>1
    <3>. QED  BY <1>4, <3>2
  <2>2. \A i \in 0..n : i = 0 \/ i \in 1..n
    BY <1>1
  <2>. QED  BY <1>4, <2>1, <2>2
<1>6. Eq(got)
  <2>. HIDE DEF Eq
  <2>. QED  BY <1>5
<1>. HIDE DEF got
<1>7. \A i \in 0..n : got[i] = IF i = 0 THEN <<>> ELSE next(got[i - 1], hits[i])
  <2>. HIDE DEF next
  <2>. QED  BY <1>6
<1>. DEFINE S == {i \in Nat : i <= n => Deduped(hits, got[i], i)}
<1>8. 0 \in S
  <2>1. got[0] = <<>>
    BY <1>1, <1>7
  <2>2. Deduped(hits, <<>>, 0)
    BY DEF Deduped, IsInjective, Range
  <2>. QED  BY <2>1, <2>2
<1>9. ASSUME NEW i \in S PROVE i + 1 \in S
  <2>. SUFFICES ASSUME i + 1 <= n PROVE Deduped(hits, got[i + 1], i + 1)
    OBVIOUS
  <2>1. i \in Nat /\ i <= n /\ Deduped(hits, got[i], i) /\ i + 1 \in 0..n
        /\ (i + 1) - 1 = i /\ i + 1 # 0
    BY <1>1, <1>9
  <2>2. got[i + 1] = next(got[i], hits[i + 1])
    <3>. HIDE DEF next, S
    <3>. QED  BY <1>7, <2>1
  <2>. QED  BY <2>1, <2>2, DedupStep DEF n
<1>10. S = Nat
  <2>1. S \in SUBSET Nat
    OBVIOUS
  <2>. HIDE DEF S
  <2>. QED  BY <1>8, <1>9, <2>1, SetInduction
<1>11. Deduped(hits, got[n], n)
  BY <1>1, <1>10
<1>. QED  BY <1>2, <1>11 DEF n

\* The running cost of a sequence of memories.
Sums(f, s) ==
    /\ f \in [0..Len(s) -> Nat]
    /\ f[0] = 0
    /\ \A i \in 1..Len(s) : f[i] = f[i - 1] + CostOf[s[i]]

LEMMA SpentIs ==
    ASSUME NEW s \in Seq(Ids)
    PROVE  \E f : Sums(f, s) /\ Spent(s) = f[Len(s)]
<1>. DEFINE n == Len(s)
            step == [i \in 1..n |-> [v \in Nat |-> v + CostOf[s[i]]]]
            Eq(f) == f = [i \in 0..n |-> IF i = 0 THEN 0 ELSE f[i - 1] + CostOf[s[i]]]
            got == CHOOSE f : Eq(f)
<1>1. n \in Nat /\ \A i \in 1..n : CostOf[s[i]] \in Nat
  <2>1. n \in Nat /\ \A i \in 1..n : s[i] \in Ids
    OBVIOUS
  <2>. HIDE DEF n
  <2>. QED  BY <2>1, FusionAssumption
<1>2. Spent(s) = got[n]
  BY DEF Spent
<1>. HIDE DEF n
<1>3. step \in [1..n -> [Nat -> Nat]]
  BY <1>1
<1>4. PICK f \in [0..n -> Nat] : f[0] = 0 /\ \A i \in 1..n : f[i] = step[i][f[i - 1]]
  <2>1. 0 \in Nat
    OBVIOUS
  <2>. HIDE DEF step
  <2>2. \E f \in [0..n -> Nat] : Recurs(f, n, 0, step)
    BY <1>1, <1>3, <2>1, RecursiveOn
  <2>. QED  BY <2>2 DEF Recurs
<1>5. Eq(f)
  <2>1. ASSUME NEW i \in 1..n PROVE f[i] = f[i - 1] + CostOf[s[i]]
    <3>1. i - 1 \in 0..n
      BY <1>1
    <3>2. f[i - 1] \in Nat
      BY <3>1
    <3>. QED  BY <1>4, <3>2
  <2>2. \A i \in 0..n : i = 0 \/ i \in 1..n
    BY <1>1
  <2>. QED  BY <1>4, <2>1, <2>2
<1>6. Eq(got)
  <2>. HIDE DEF Eq
  <2>. QED  BY <1>5
<1>. HIDE DEF got
<1>7. \A i \in 0..n : got[i] = IF i = 0 THEN 0 ELSE got[i - 1] + CostOf[s[i]]
  BY <1>6
<1>. DEFINE S == {i \in Nat : i <= n => got[i] \in Nat}
<1>8. 0 \in S
  BY <1>1, <1>7
<1>9. ASSUME NEW i \in S PROVE i + 1 \in S
  <2>. SUFFICES ASSUME i + 1 <= n PROVE got[i + 1] \in Nat
    OBVIOUS
  <2>1. i \in Nat /\ got[i] \in Nat /\ i + 1 \in 1..n /\ i + 1 \in 0..n
        /\ (i + 1) - 1 = i /\ i + 1 # 0
    BY <1>1, <1>9
  <2>2. got[i + 1] = got[i] + CostOf[s[i + 1]] /\ CostOf[s[i + 1]] \in Nat
    <3>. HIDE DEF S
    <3>. QED  BY <1>1, <1>7, <2>1
  <2>. QED  BY <2>1, <2>2
<1>10. S = Nat
  <2>1. S \in SUBSET Nat
    OBVIOUS
  <2>. HIDE DEF S
  <2>. QED  BY <1>8, <1>9, <2>1, SetInduction
<1>11. got \in [0..n -> Nat]
  <2>1. \A i \in 0..n : got[i] \in Nat
    BY <1>1, <1>10
  <2>2. DOMAIN got = 0..n /\ got = [i \in 0..n |-> got[i]]
    BY <1>6
  <2>. QED  BY <2>1, <2>2
<1>12. \A i \in 1..n : i \in 0..n /\ i # 0
  BY <1>1
<1>13. 0 \in 0..n
  BY <1>1
<1>14. got[0] = 0 /\ \A i \in 1..n : got[i] = got[i - 1] + CostOf[s[i]]
  BY <1>7, <1>12, <1>13
<1>. QED  BY <1>2, <1>11, <1>14 DEF Sums, n

LEMMA SpentAppend ==
    /\ Spent(<<>>) = 0
    /\ \A s \in Seq(Ids), x \in Ids :
        Spent(s) \in Nat /\ Spent(Append(s, x)) = Spent(s) + CostOf[x]
<1>1. Spent(<<>>) = 0
  <2>. DEFINE s == <<>>
  <2>0. s \in Seq(Ids) /\ Len(s) = 0
    OBVIOUS
  <2>. HIDE DEF s
  <2>1. PICK f : Sums(f, s) /\ Spent(s) = f[Len(s)]
    BY <2>0, SpentIs
  <2>2. Spent(s) = 0
    BY <2>0, <2>1 DEF Sums
  <2>. QED  BY <2>2 DEF s
<1>2. ASSUME NEW s \in Seq(Ids), NEW x \in Ids
      PROVE  Spent(s) \in Nat /\ Spent(Append(s, x)) = Spent(s) + CostOf[x]
  <2>. DEFINE n == Len(s)
              t == Append(s, x)
  <2>1. n \in Nat /\ t \in Seq(Ids) /\ Len(t) = n + 1 /\ t[n + 1] = x
        /\ \A i \in 1..n : t[i] = s[i]
    OBVIOUS
  <2>2. PICK f : Sums(f, s) /\ Spent(s) = f[Len(s)]
    BY SpentIs
  <2>3. PICK g : Sums(g, t) /\ Spent(t) = g[Len(t)]
    BY <2>1, SpentIs
  <2>4. f \in [0..n -> Nat] /\ f[0] = 0 /\ \A i \in 1..n : f[i] = f[i - 1] + CostOf[s[i]]
    BY <2>2 DEF Sums
  <2>5. g[0] = 0 /\ \A i \in 1..(n + 1) : g[i] = g[i - 1] + CostOf[t[i]]
    BY <2>1, <2>3 DEF Sums
  <2>6. Spent(s) = f[n] /\ Spent(t) = g[n + 1]
    BY <2>1, <2>2, <2>3
  <2>. HIDE DEF n, t
  <2>. DEFINE S == {i \in Nat : i <= n => g[i] = f[i]}
  <2>7. 0 \in S
    BY <2>4, <2>5
  <2>8. ASSUME NEW i \in S PROVE i + 1 \in S
    <3>. SUFFICES ASSUME i + 1 <= n PROVE g[i + 1] = f[i + 1]
      OBVIOUS
    <3>1. i \in Nat /\ i + 1 \in 1..n /\ i + 1 \in 1..(n + 1) /\ (i + 1) - 1 = i /\ g[i] = f[i]
      BY <2>1, <2>8
    <3>2. f[i + 1] = f[i] + CostOf[s[i + 1]] /\ g[i + 1] = g[i] + CostOf[t[i + 1]]
          /\ t[i + 1] = s[i + 1]
      <4>. HIDE DEF S
      <4>. QED  BY <2>1, <2>4, <2>5, <3>1
    <3>. QED  BY <3>1, <3>2
  <2>9. S = Nat
    <3>1. S \in SUBSET Nat
      OBVIOUS
    <3>. HIDE DEF S
    <3>. QED  BY <2>7, <2>8, <3>1, SetInduction
  <2>10. g[n] = f[n] /\ n + 1 \in 1..(n + 1) /\ (n + 1) - 1 = n /\ n \in 0..n
    BY <2>1, <2>9
  <2>11. g[n + 1] = g[n] + CostOf[x]
    BY <2>1, <2>5, <2>10
  <2>. QED  BY <2>4, <2>6, <2>10, <2>11 DEF t
<1>. QED  BY <1>1, <1>2

\* What GreedyPack has packed of the first n items.
Packed(items, budget, acc, n) ==
    /\ acc \in [packed : Seq(Ids), remaining : Nat, dropped : Nat]
    /\ IsInjective(acc.packed)
    /\ \A i \in DOMAIN acc.packed : \E m \in 1..n : acc.packed[i] = items[m]
    /\ Spent(acc.packed) + acc.remaining = budget
    /\ \A m \in 1..n : items[m] \in Range(acc.packed) \/ CostOf[items[m]] > acc.remaining

LEMMA PackStep ==
    ASSUME NEW items, IsRanking(items), NEW budget \in Nat,
           NEW n \in Nat, n + 1 <= Len(items), NEW acc, Packed(items, budget, acc, n)
    PROVE  Packed(items, budget, Pack(acc, items[n + 1]), n + 1)
<1>. DEFINE x == items[n + 1]
            s == acc.packed
            r == acc.remaining
<1>1. /\ acc \in [packed : Seq(Ids), remaining : Nat, dropped : Nat]
      /\ s \in Seq(Ids) /\ Len(s) \in Nat /\ DOMAIN s = 1..Len(s) /\ r \in Nat
      /\ acc.dropped \in Nat
      /\ IsInjective(s)
      /\ \A i \in DOMAIN s : \E m \in 1..n : s[i] = items[m]
      /\ Spent(s) + r = budget
      /\ \A m \in 1..n : items[m] \in Range(s) \/ CostOf[items[m]] > r
  BY DEF Packed
<1>2. /\ Len(items) \in Nat /\ DOMAIN items = 1..Len(items) /\ n + 1 \in 1..Len(items)
      /\ \A i, j \in 1..Len(items) : items[i] = items[j] => i = j
      /\ \A i \in 1..Len(items) : items[i] \in Ids
      /\ x \in Ids
  BY DEF IsRanking, IsInjective
<1>3. \A m \in 1..(n + 1) : m \in 1..n \/ m = n + 1
  OBVIOUS
<1>4. 1..n \in SUBSET 1..(n + 1) /\ 1..n \in SUBSET 1..Len(items) /\ n + 1 \in 1..(n + 1)
  BY <1>2
<1>5. \A id \in Ids : CostOf[id] \in Nat
  BY FusionAssumption
<1>6. CASE ~(CostOf[x] <= r)
  <2>. DEFINE a == [acc EXCEPT !.dropped = @ + 1]
  <2>1. Pack(acc, x) = a
    BY <1>6 DEF Pack
  <2>2. a.packed = s /\ a.remaining = r
        /\ a \in [packed : Seq(Ids), remaining : Nat, dropped : Nat]
    BY <1>1
  <2>. HIDE DEF a, s, r
  <2>3. \A m \in 1..(n + 1) : items[m] \in Range(s) \/ CostOf[items[m]] > r
    BY <1>1, <1>2, <1>3, <1>5, <1>6
  <2>4. \A i \in DOMAIN s : \E m \in 1..(n + 1) : s[i] = items[m]
    BY <1>1, <1>4
  <2>5. Packed(items, budget, a, n + 1)
    BY <1>1, <2>2, <2>3, <2>4, Zenon DEF Packed
  <2>. QED  BY <2>1, <2>5
<1>7. CASE CostOf[x] <= r
  <2>. DEFINE t == Append(s, x)
              q == r - CostOf[x]
              a == [acc EXCEPT !.packed = t, !.remaining = q]
  <2>1. Pack(acc, x) = a
    BY <1>7 DEF Pack
  <2>2. /\ t \in Seq(Ids) /\ Len(t) = Len(s) + 1 /\ DOMAIN t = 1..(Len(s) + 1)
        /\ t[Len(s) + 1] = x /\ \A i \in 1..Len(s) : t[i] = s[i]
    BY <1>1, <1>2
  <2>3. q \in Nat /\ q <= r
    BY <1>1, <1>2, <1>5, <1>7
  <2>4. Spent(t) = Spent(s) + CostOf[x] /\ Spent(s) \in Nat
    BY <1>1, <1>2, SpentAppend
  <2>5. Spent(t) + q = budget
    BY <1>1, <1>2, <1>5, <2>4
  <2>6. a \in [packed : Seq(Ids), remaining : Nat, dropped : Nat]
        /\ a.packed = t /\ a.remaining = q
    BY <1>1, <2>2, <2>3
  <2>. HIDE DEF a, t, q, s, r
  <2>7. \A i \in DOMAIN t : i \in DOMAIN s \/ i = Len(s) + 1
    BY <1>1, <2>2
  <2>8. \A i \in DOMAIN s : s[i] # x
    <3>. SUFFICES ASSUME NEW i \in DOMAIN s PROVE s[i] # x
      OBVIOUS
    <3>1. PICK m \in 1..n : s[i] = items[m]
      BY <1>1
    <3>2. m \in 1..Len(items) /\ m # n + 1
      BY <1>4
    <3>. QED  BY <1>2, <3>1, <3>2
  <2>9. IsInjective(t)
    BY <1>1, <2>2, <2>7, <2>8 DEF IsInjective
  <2>10. Range(s) \in SUBSET Range(t) /\ x \in Range(t)
    <3>1. \A i \in DOMAIN s : i \in DOMAIN t /\ t[i] = s[i]
      BY <1>1, <2>2
    <3>2. Len(s) + 1 \in DOMAIN t
      BY <1>1, <2>2
    <3>. QED  BY <2>2, <3>1, <3>2 DEF Range
  <2>11. \A i \in DOMAIN t : \E m \in 1..(n + 1) : t[i] = items[m]
    <3>. SUFFICES ASSUME NEW i \in DOMAIN t PROVE \E m \in 1..(n + 1) : t[i] = items[m]
      OBVIOUS
    <3>1. CASE i \in DOMAIN s
      BY <1>1, <1>4, <2>2, <3>1
    <3>2. CASE i = Len(s) + 1
      BY <1>4, <2>2, <3>2
    <3>. QED  BY <2>7, <3>1, <3>2
  <2>12. \A m \in 1..(n + 1) : items[m] \in Range(t) \/ CostOf[items[m]] > q
    <3>. SUFFICES ASSUME NEW m \in 1..(n + 1) PROVE items[m] \in Range(t) \/ CostOf[items[m]] > q
      OBVIOUS
    <3>1. CASE m \in 1..n
      <4>1. items[m] \in Ids /\ CostOf[items[m]] \in Nat
        BY <1>2, <1>4, <1>5, <3>1
      <4>2. items[m] \in Range(s) \/ CostOf[items[m]] > r
        BY <1>1, <3>1
      <4>. QED  BY <1>1, <2>3, <2>10, <4>1, <4>2
    <3>2. CASE m = n + 1
      BY <2>10, <3>2
    <3>. QED  BY <1>3, <3>1, <3>2
  <2>13. Packed(items, budget, a, n + 1)
    BY <2>5, <2>6, <2>9, <2>11, <2>12, Zenon DEF Packed
  <2>. QED  BY <2>1, <2>13
<1>. QED  BY <1>6, <1>7

LEMMA PackIs ==
    ASSUME NEW items, IsRanking(items), NEW budget \in Nat
    PROVE  Packed(items, budget, GreedyPack(items, budget), Len(items))
<1>. DEFINE n == Len(items)
            V == [packed : Seq(Ids), remaining : Int, dropped : Nat]
            start == [packed |-> <<>>, remaining |-> budget, dropped |-> 0]
            step == [i \in 1..n |-> [a \in V |-> Pack(a, items[i])]]
            Eq(f) == f = [i \in 0..n |-> IF i = 0 THEN start ELSE Pack(f[i - 1], items[i])]
            got == CHOOSE f : Eq(f)
<1>1. n \in Nat /\ DOMAIN items = 1..n /\ \A i \in 1..n : items[i] \in Ids /\ CostOf[items[i]] \in Nat
  <2>1. n \in Nat /\ DOMAIN items = 1..n /\ \A i \in 1..n : items[i] \in Ids
    BY DEF IsRanking
  <2>. HIDE DEF n
  <2>. QED  BY <2>1, FusionAssumption
<1>2. GreedyPack(items, budget) = got[n]
  BY DEF GreedyPack
<1>3. start \in V
  OBVIOUS
<1>4. ASSUME NEW a \in V, NEW i \in 1..n PROVE Pack(a, items[i]) \in V
  <2>1. items[i] \in Ids /\ CostOf[items[i]] \in Nat
    BY <1>1
  <2>2. Append(a.packed, items[i]) \in Seq(Ids) /\ a.remaining - CostOf[items[i]] \in Int
        /\ a.dropped + 1 \in Nat
    BY <2>1
  <2>. QED  BY <2>2 DEF Pack
<1>. HIDE DEF n, start
<1>5. step \in [1..n -> [V -> V]]
  <2>. HIDE DEF V
  <2>. QED  BY <1>4
<1>6. PICK f \in [0..n -> V] : f[0] = start /\ \A i \in 1..n : f[i] = step[i][f[i - 1]]
  <2>. HIDE DEF V, step
  <2>1. \E f \in [0..n -> V] : Recurs(f, n, start, step)
    BY <1>1, <1>3, <1>5, RecursiveOn
  <2>. QED  BY <2>1 DEF Recurs
<1>. HIDE DEF V
<1>7. Eq(f)
  <2>1. ASSUME NEW i \in 1..n PROVE f[i] = Pack(f[i - 1], items[i])
    <3>1. i - 1 \in 0..n
      BY <1>1
    <3>2. f[i - 1] \in V
      BY <3>1
    <3>. QED  BY <1>6, <3>2
  <2>2. \A i \in 0..n : i = 0 \/ i \in 1..n
    BY <1>1
  <2>. QED  BY <1>6, <2>1, <2>2
<1>8. Eq(got)
  <2>. HIDE DEF Eq
  <2>. QED  BY <1>7
<1>. HIDE DEF got
<1>9. \A i \in 0..n : got[i] = IF i = 0 THEN start ELSE Pack(got[i - 1], items[i])
  BY <1>8
<1>. DEFINE S == {i \in Nat : i <= n => Packed(items, budget, got[i], i)}
<1>10. 0 \in S
  <2>1. got[0] = start
    BY <1>1, <1>9
  <2>2. Packed(items, budget, start, 0)
    BY SpentAppend DEF Packed, IsInjective, start
  <2>. QED  BY <2>1, <2>2
<1>11. ASSUME NEW i \in S PROVE i + 1 \in S
  <2>. SUFFICES ASSUME i + 1 <= n PROVE Packed(items, budget, got[i + 1], i + 1)
    OBVIOUS
  <2>1. i \in Nat /\ i <= n /\ Packed(items, budget, got[i], i) /\ i + 1 \in 0..n
        /\ (i + 1) - 1 = i /\ i + 1 # 0
    BY <1>1, <1>11
  <2>2. got[i + 1] = Pack(got[i], items[i + 1])
    <3>. HIDE DEF S
    <3>. QED  BY <1>9, <2>1
  <2>. QED  BY <2>1, <2>2, PackStep DEF n
<1>12. S = Nat
  <2>1. S \in SUBSET Nat
    OBVIOUS
  <2>. HIDE DEF S
  <2>. QED  BY <1>10, <1>11, <2>1, SetInduction
<1>13. Packed(items, budget, got[n], n)
  BY <1>1, <1>12
<1>. QED  BY <1>2, <1>13 DEF n

-----------------------------------------------------------------------------
(* The inductive invariant.                                                *)

\* Where a request of each kind may be.
Placed ==
    /\ at \in {"idle", "vector", "text", "fuse", "hydrate", "serve", "expand", "record",
               "edges", "validate", "validate_target", "exists", "insert", "answered", Failed}
    /\ at = "idle" => req = [op |-> "none"]
    /\ at # "idle" => req \in Requests
    /\ at \in {"vector", "record"} => req.op \in Searches \cup {"context"}
    /\ at \in {"text", "fuse", "hydrate"} => Fusing
    /\ at = "serve" => req.op \in {"fast", "deep"}
    /\ at = "expand" => req.op \in {"deep", "graph"}
    /\ at = "edges" => req.op \in Searches \cup {"context", "graph"}
    /\ at \in {"validate", "validate_target"} => req.op = "relate"
    /\ at = "exists" => req.op = "relate_batch"
    /\ at = "insert" => req.op \in {"relate", "relate_batch"}

\* The tables, and the rankings a request holds.
Typed ==
    /\ rows \in [Ids -> Status] /\ edges \in SUBSET EdgeRow
    /\ IsRanking(text) /\ IsRanking(vhits) /\ IsRanking(bhits) /\ IsRanking(missing)
    /\ accesses \in [Ids -> Nat]
    /\ kept \in SUBSET Ids /\ page \in SUBSET Ids /\ existing \in SUBSET Ids
    /\ todo \in Seq(EdgeRow)
    /\ outcomes \in Seq([edge : EdgeRow, created : BOOLEAN])
    /\ writes \in Nat /\ failures \in Nat

\* Whatever a request has found so far.
Found == Range(vhits) \cup Range(bhits) \cup Range(missing) \cup kept
           \cup {n.id : n \in neighbors} \cup page

\* A request has found only what was retrievable since it began.
Witnessed ==
    /\ shown \in SUBSET Bucket
    /\ \A id \in shown : rows[id] # "unborn"
    /\ at = "idle" => Found = {} /\ DOMAIN graph = {}
    /\ at # "idle" => Retrievable \subseteq shown
    /\ Found \subseteq shown
    /\ \A e \in DOMAIN graph : \A id \in {e.source, e.target} :
            id \in shown \/ (req.op = "graph" /\ id = req.center)

\* Nothing is counted, or said to have failed to count, before it is served.
Counted ==
    /\ DemandIsServed
    /\ at \in {"idle", "vector", "text", "fuse", "hydrate", "serve", "expand", "validate",
               "validate_target", "exists", "insert"} => page = {}
    /\ at \notin {"edges", "answered"} => "record" \notin down
    /\ req.op \in {"relate", "relate_batch", "none"} => page = {}

\* The edges answered and the edges still to relate are the request's, in
\* order; what is about to be inserted has been seen.
Accounted ==
    /\ \A i \in DOMAIN outcomes : outcomes[i].edge = req.edges[i]
    /\ at \in {"validate", "validate_target", "exists"} => outcomes = <<>> /\ todo = req.edges
    /\ at = "idle" => outcomes = <<>>
    /\ at = "insert" =>
        /\ todo # <<>> /\ Len(outcomes) + Len(todo) = Len(req.edges)
        /\ \A i \in DOMAIN todo : todo[i] = req.edges[Len(outcomes) + i]
    /\ at = "answered" /\ req.op \in {"relate", "relate_batch"} =>
        Len(outcomes) = Len(req.edges)
    /\ at = "validate_target" => rows[Head(todo).source] # "unborn"
    /\ at = "insert" /\ req.op = "relate" =>
        rows[Head(todo).source] # "unborn" /\ rows[Head(todo).target] # "unborn"
    /\ \A id \in existing : rows[id] # "unborn"
    /\ at \in {"validate", "validate_target", "exists", "insert"} => Len(req.edges) \in Nat
    /\ \A i \in DOMAIN outcomes :
        LET e == outcomes[i].edge
        IN  IF outcomes[i].created
            THEN \/ rows[e.source] = "deleted" \/ rows[e.target] = "deleted"
                 \/ \E f \in edges : SameKey(f, e)
            ELSE \/ e.source = e.target \/ "insert" \in down
                 \/ rows[e.source] = "deleted" \/ rows[e.target] = "deleted"
                 \/ req.op = "relate_batch" /\ ~({e.source, e.target} \subseteq existing)

\* Hydration works off the fused ranking.
Ranked == at = "hydrate" => kept \cup Range(missing) \subseteq Range(Ranking)

Inv == Placed /\ Typed /\ Ranked /\ Witnessed /\ Counted /\ Accounted

-----------------------------------------------------------------------------
(* What the operators of the actions yield.                                *)

LEMMA RequestIs ==
    ASSUME NEW r \in Requests
    PROVE  /\ r.edges \in Seq(EdgeRow)
           /\ r.op \in Searches \cup {"context", "graph", "relate", "relate_batch"}
           /\ r.op \in Searches => r.limit \in Nat /\ r.offset \in Nat /\ r.threshold \in Nat
                                   /\ r.depth \in Nat /\ r.wanted \subseteq Ids
           /\ r.op = "context" => r.limit \in Nat /\ r.budget \in Nat
           /\ r.op = "graph" => r.center \in Ids
           /\ r.op = "relate" => Len(r.edges) = 1
<1>1. IsRequest(r)
  BY RetrievalAssumption
<1>2. CASE r.op \in Searches
  BY <1>1, <1>2 DEF IsRequest, Searches
<1>3. CASE r.op = "context"
  BY <1>1, <1>3 DEF IsRequest, Searches
<1>4. CASE r.op = "graph"
  BY <1>1, <1>4 DEF IsRequest, Searches
<1>5. CASE r.op = "relate"
  BY <1>1, <1>5 DEF IsRequest, Searches
<1>6. CASE r.op \notin Searches \cup {"context", "graph", "relate"}
  BY <1>1, <1>6 DEF IsRequest, Searches
<1>. QED  BY <1>2, <1>3, <1>4, <1>5, <1>6

LEMMA CallIs ==
    ASSUME NEW ok \in BOOLEAN, Call(ok)
    PROVE  /\ failures \in Nat => failures' \in Nat
           /\ down \subseteq down' /\ down' \subseteq down \cup {at}
           /\ ok => down' = down
           /\ ~ok => at \in down'
BY DEF Call, faults

LEMMA LimitsAre ==
    ASSUME req \in Requests
    PROVE  /\ Fusing => /\ FusionLimit \in Nat /\ Oversample \in Nat
                        /\ Oversample = 2 * FusionLimit
                        /\ req.op = "context" => FusionLimit = req.limit
                        /\ req.op = "hybrid" =>
                             FusionLimit = Pool /\ Pool \in Nat
                             /\ Pool >= req.offset + req.limit
           /\ req.op \in Searches \cup {"context"} => VectorLimit \in Nat
<1>1. req.op \in Searches => req.limit \in Nat /\ req.offset \in Nat /\ Pool \in Nat
                             /\ Pool >= req.offset + req.limit
  BY RequestIs DEF Pool
<1>2. req.op = "context" => req.limit \in Nat
  BY RequestIs
<1>3. Fusing => /\ FusionLimit \in Nat
                /\ req.op = "context" => FusionLimit = req.limit
                /\ req.op = "hybrid" => FusionLimit = Pool
  BY <1>1, <1>2 DEF Fusing, FusionLimit, Searches
<1>4. Fusing => Oversample \in Nat /\ Oversample = 2 * FusionLimit
  BY <1>3 DEF Oversample
<1>5. req.op \in Searches \cup {"context"} => VectorLimit \in Nat
  BY <1>1, <1>4 DEF VectorLimit, Searches, Fusing
<1>. QED  BY <1>1, <1>3, <1>4, <1>5 DEF Searches

LEMMA RankingIs ==
    ASSUME req \in Requests, Fusing, IsRanking(vhits), IsRanking(bhits)
    PROVE  /\ IsRanking(Ranking)
           /\ Range(Ranking) \subseteq Range(bhits) \cup Range(vhits)
           /\ IsRanking(Relevant) /\ Range(Relevant) \subseteq Range(Ranking)
<1>1. FusionLimit \in Nat
  BY LimitsAre
<1>2. IsRanking(Ranking) /\ Range(Ranking) \subseteq Range(bhits) \cup Range(vhits)
  BY <1>1, FuseRanks DEF Ranking, FusedIds
<1>3. IsRanking(Relevant) /\ Range(Relevant) \subseteq Range(Ranking)
  <2>. DEFINE S == {id \in Range(Ranking) :
                ClearsFloor(Fused(bhits, vhits, id), IF req.op = "context" THEN 0
                                                     ELSE req.threshold)}
  <2>1. Relevant = Only(Ranking, S)
    BY DEF Relevant
  <2>. HIDE DEF S
  <2>2. IsRanking(Only(Ranking, S)) /\ Range(Only(Ranking, S)) = Range(Ranking) \cap S
    BY <1>2, OnlyRanks
  <2>. QED  BY <2>1, <2>2
<1>. QED  BY <1>2, <1>3

\* The channels find retrievable memories.
LEMMA ChannelsFind ==
    ASSUME req \in Requests
    PROVE  /\ req.op \in Searches \cup {"context"} =>
                LET hits == Truncate(Only(VectorRanking, Retrievable), VectorLimit)
                IN  IsRanking(hits) /\ Range(hits) \subseteq Retrievable
           /\ Fusing /\ IsRanking(text) =>
                IsRanking(Truncate(Matches, Oversample))
                /\ Range(Truncate(Matches, Oversample)) \subseteq Retrievable
<1>1. IsRanking(VectorRanking)
  BY RetrievalAssumption
<1>2. ASSUME NEW list, IsRanking(list), NEW n \in Nat
      PROVE  /\ IsRanking(Truncate(Only(list, Retrievable), n))
             /\ Range(Truncate(Only(list, Retrievable), n)) \subseteq Retrievable
  <2>. DEFINE o == Only(list, Retrievable)
  <2>0. IsRanking(o) /\ Range(o) = Range(list) \cap Retrievable
    BY <1>2, OnlyRanks
  <2>. HIDE DEF o
  <2>1. IsRanking(o) /\ Range(o) \subseteq Retrievable
    BY <2>0
  <2>2. IsRanking(Truncate(o, n)) /\ Range(Truncate(o, n)) \in SUBSET Range(o)
    BY <2>1, TruncateRanks
  <2>. QED  BY <2>1, <2>2 DEF o
<1>3. Fusing => Oversample \in Nat
  BY LimitsAre
<1>4. req.op \in Searches \cup {"context"} => VectorLimit \in Nat
  BY LimitsAre
<1>. QED  BY <1>1, <1>2, <1>3, <1>4 DEF Matches

\* An expansion returns nodes that are retrievable.
LEMMA ExpansionFinds ==
    ASSUME NEW found \in Neighborhoods
    PROVE  {n.id : n \in found} \subseteq Retrievable
<1>1. CASE Seeds = {} \/ req.depth = 0
  BY <1>1 DEF Neighborhoods
<1>2. CASE ~(Seeds = {} \/ req.depth = 0)
  <2>. DEFINE rs == PathRows(Seeds, edges, Passable, Retrievable, req.depth)
  <2>1. found \in BfsExpand(Seeds, edges, Passable, Retrievable, req.depth, DegreeLimit)
    BY <1>2 DEF Neighborhoods
  <2>2. \A r \in rs : r.id \in Retrievable
    BY DEF PathRows
  <2>3. PICK taken \in Nearest(rs, DegreeLimit, Precedence(rs)) : found = FirstRows(taken)
    BY <2>1 DEF BfsExpand
  <2>4. taken \subseteq rs
    BY <2>3 DEF Nearest
  <2>5. \A n \in found : \E r \in taken : n.id = r.id
    BY <2>3 DEF FirstRows
  <2>. HIDE DEF rs
  <2>. QED  BY <2>2, <2>4, <2>5
<1>. QED  BY <1>1, <1>2

\* A page is made of results.
LEMMA PagesHold ==
    ASSUME NEW p \in Pages(Filtered), req.op \in Searches
    PROVE  p \subseteq kept \cup Range(vhits) \cup {n.id : n \in neighbors}
<1>1. p \subseteq DOMAIN Filtered
  BY DEF Pages, Nearest
<1>2. DOMAIN Filtered \subseteq DOMAIN Results
  BY DEF Filtered
<1>3. DOMAIN Results \subseteq kept \cup Range(vhits) \cup {n.id : n \in neighbors}
  <2>1. CASE req.op = "hybrid"
    BY <2>1 DEF Results
  <2>2. CASE req.op = "fast"
    BY <2>2 DEF Results
  <2>3. CASE req.op = "deep"
    BY <2>3 DEF Results
  <2>. QED  BY <2>1, <2>2, <2>3 DEF Searches
<1>. QED  BY <1>1, <1>2, <1>3

\* The hits of a context, best first, and what is packed of them.
LEMMA HitsAre ==
    ASSUME req \in Requests, Fusing, IsRanking(vhits), IsRanking(bhits),
           kept \subseteq Range(Ranking)
    PROVE  /\ IsRanking(Hits) /\ Range(Hits) = kept
           /\ \A i, j \in DOMAIN Hits : i < j =>
                Composite(Fused(bhits, vhits, Hits[i]), Hits[i])
                  >= Composite(Fused(bhits, vhits, Hits[j]), Hits[j])
           /\ \A id \in kept : Composite(Fused(bhits, vhits, id), id) \in Nat
<1>. DEFINE score == [id \in Range(Ranking) |-> Fused(bhits, vhits, id)]
            hits == ByComposite(Ranking, score, kept)
<1>1. IsRanking(Ranking)
  BY RankingIs
<1>2. score \in [Range(Ranking) -> Nat]
  BY FusedNumber
<1>3. Hits = hits
  BY DEF Hits
<1>4. \A id \in kept : score[id] = Fused(bhits, vhits, id)
  OBVIOUS
<1>. HIDE DEF score
<1>5. /\ \A id \in kept : Composite(score[id], id) \in Nat
      /\ IsRanking(hits) /\ Range(hits) = kept
      /\ \A i, j \in DOMAIN hits : i < j =>
            Composite(score[hits[i]], hits[i]) >= Composite(score[hits[j]], hits[j])
  BY <1>1, <1>2, CompositeRanks
<1>. HIDE DEF hits
<1>6. \A i \in DOMAIN hits : hits[i] \in kept
  BY <1>5 DEF Range
<1>. QED  BY <1>3, <1>4, <1>5, <1>6

-----------------------------------------------------------------------------
(* The invariant holds at the start and every step keeps it.               *)

LEMMA InitInv ==
    Init => Inv
<1>. SUFFICES ASSUME Init PROVE Inv
  OBVIOUS
<1>1. Placed
  BY DEF Init, Placed, Fusing, Searches, Failed
<1>2. IsRanking(<<>>) /\ Range(<<>>) = {}
  BY DEF IsRanking, IsInjective, Range
<1>3. Typed
  <2>1. rows \in [Ids -> Status]
    BY RetrievalAssumption DEF Init
  <2>2. edges \in SUBSET EdgeRow
    BY RetrievalAssumption DEF Init
  <2>3. IsRanking(text)
    BY RetrievalAssumption DEF Init
  <2>4. accesses \in [Ids -> Nat]
    BY DEF Init
  <2>. QED  BY <1>2, <2>1, <2>2, <2>3, <2>4 DEF Init, Typed
<1>4. Witnessed
  BY <1>2 DEF Init, Witnessed, Found, NoEdges
<1>5. Counted
  BY DEF Init, Counted, DemandIsServed
<1>6. Accounted
  BY DEF Init, Accounted
<1>7. Ranked
  BY DEF Init, Ranked
<1>. QED  BY <1>1, <1>3, <1>4, <1>5, <1>6, <1>7 DEF Inv

LEMMA PlacedNext ==
    ASSUME Inv, [Next]_vars PROVE Placed'
<1>. USE DEF Inv
<1>1. ASSUME NEW r \in Requests, Begin(r) PROVE Placed'
  <2>1. r.op \in Searches \cup {"context", "graph", "relate", "relate_batch"}
    BY RequestIs
  <2>. QED  BY <1>1, <2>1 DEF Begin, Placed, Fusing, Searches, Failed
<1>2. ASSUME NEW ok \in BOOLEAN, VectorSearch(ok) PROVE Placed'
  BY <1>2 DEF VectorSearch, Placed, Fusing, Searches, Failed
<1>3. ASSUME NEW ok \in BOOLEAN, TextSearch(ok) PROVE Placed'
  BY <1>3 DEF TextSearch, Placed, Fusing, Searches, Failed
<1>4. ASSUME NEW ok \in BOOLEAN, Hydrate(ok) PROVE Placed'
  BY <1>4 DEF Hydrate, Placed, Fusing, Searches, Failed
<1>5. ASSUME NEW ok \in BOOLEAN, Expand(ok) PROVE Placed'
  BY <1>5 DEF Expand, Placed, Fusing, Searches, Failed
<1>6. ASSUME NEW ok \in BOOLEAN, RecordAccess(ok) PROVE Placed'
  BY <1>6 DEF RecordAccess, Placed, Fusing, Searches, Failed
<1>7. ASSUME NEW ok \in BOOLEAN, Edges(ok) PROVE Placed'
  BY <1>7 DEF Edges, Placed, Fusing, Searches, Failed
<1>8. ASSUME NEW ok \in BOOLEAN, Validate(ok) PROVE Placed'
  BY <1>8 DEF Validate, Placed, Fusing, Searches, Failed
<1>9. ASSUME NEW ok \in BOOLEAN, Exists(ok) PROVE Placed'
  BY <1>9 DEF Exists, Placed, Fusing, Searches, Failed
<1>10. ASSUME NEW ok \in BOOLEAN, InsertEdge(ok) PROVE Placed'
  BY <1>10 DEF InsertEdge, Placed, Fusing, Searches, Failed
<1>11. ASSUME Fuse PROVE Placed'
  BY <1>11 DEF Fuse, Placed, Fusing, Searches, Failed
<1>12. ASSUME Serve PROVE Placed'
  BY <1>12 DEF Serve, Placed, Fusing, Searches, Failed
<1>13. ASSUME Assemble PROVE Placed'
  BY <1>13 DEF Assemble, Placed, Fusing, Searches, Failed
<1>14. ASSUME req' = req, at' = at PROVE Placed'
  BY <1>14 DEF Placed, Fusing
<1>15. ASSUME Others PROVE Placed'
  BY <1>14, <1>15 DEF Others, Delete, SetStatus, Link, Write
<1>16. ASSUME UNCHANGED vars PROVE Placed'
  BY <1>14, <1>16 DEF vars
<1>. QED  BY <1>1, <1>2, <1>3, <1>4, <1>5, <1>6, <1>7, <1>8, <1>9, <1>10, <1>11, <1>12,
             <1>13, <1>15, <1>16 DEF Next, Step

LEMMA TypedNext ==
    ASSUME Inv, [Next]_vars PROVE Typed'
<1>. USE DEF Inv
<1>. USE DEF tables, recall, answer, relating, ghosts, faults
<1>0. /\ rows \in [Ids -> Status] /\ edges \in SUBSET EdgeRow
      /\ IsRanking(text) /\ IsRanking(vhits) /\ IsRanking(bhits) /\ IsRanking(missing)
      /\ accesses \in [Ids -> Nat]
      /\ kept \in SUBSET Ids /\ page \in SUBSET Ids /\ existing \in SUBSET Ids
      /\ todo \in Seq(EdgeRow)
      /\ outcomes \in Seq([edge : EdgeRow, created : BOOLEAN])
      /\ writes \in Nat /\ failures \in Nat
  BY DEF Typed
<1>1. ASSUME NEW r \in Requests, Begin(r) PROVE Typed'
  BY <1>0, <1>1, RequestIs DEF Begin, Typed
<1>2. ASSUME NEW ok \in BOOLEAN, VectorSearch(ok) PROVE Typed'
  <2>1. req \in Requests /\ req.op \in Searches \cup {"context"} /\ failures' \in Nat
    BY <1>0, <1>2, CallIs DEF VectorSearch, Placed
  <2>2. IsRanking(vhits')
    <3>1. IsRanking(<<>>)
      BY DEF IsRanking, IsInjective
    <3>. QED  BY <1>2, <2>1, <3>1, ChannelsFind DEF VectorSearch
  <2>. QED  BY <1>0, <1>2, <2>1, <2>2 DEF VectorSearch, Typed
<1>3. ASSUME NEW ok \in BOOLEAN, TextSearch(ok) PROVE Typed'
  <2>1. req \in Requests /\ Fusing /\ failures' \in Nat
    BY <1>0, <1>3, CallIs DEF TextSearch, Placed
  <2>2. IsRanking(bhits')
    <3>1. IsRanking(<<>>)
      BY DEF IsRanking, IsInjective
    <3>. QED  BY <1>0, <1>3, <2>1, <3>1, ChannelsFind DEF TextSearch
  <2>. QED  BY <1>0, <1>3, <2>1, <2>2 DEF TextSearch, Typed
<1>4. ASSUME NEW ok \in BOOLEAN, Hydrate(ok) PROVE Typed'
  <2>1. failures' \in Nat
    BY <1>0, <1>4, CallIs DEF Hydrate
  <2>2. missing \in Seq(Ids) /\ missing # <<>> /\ IsInjective(missing)
    BY <1>0, <1>4 DEF Hydrate, IsRanking
  <2>3. Tail(missing) \in Seq(Ids) /\ Head(missing) \in Ids
    BY <2>2
  <2>4. IsInjective(Tail(missing))
    <3>1. \A i \in DOMAIN Tail(missing) : i + 1 \in DOMAIN missing /\ i \in Int
                                         /\ Tail(missing)[i] = missing[i + 1]
      BY <2>2
    <3>. QED  BY <2>2, <3>1 DEF IsInjective
  <2>5. IsRanking(missing') /\ kept' \in SUBSET Ids
    BY <1>0, <1>4, <2>3, <2>4 DEF Hydrate, IsRanking
  <2>. QED  BY <1>0, <1>4, <2>1, <2>5 DEF Hydrate, Typed
<1>5. ASSUME NEW ok \in BOOLEAN, Expand(ok) PROVE Typed'
  <2>1. failures' \in Nat
    BY <1>0, <1>5, CallIs DEF Expand
  <2>. QED  BY <1>0, <1>5, <2>1 DEF Expand, Typed
<1>6. ASSUME NEW ok \in BOOLEAN, RecordAccess(ok) PROVE Typed'
  <2>1. failures' \in Nat
    BY <1>0, <1>6, CallIs DEF RecordAccess
  <2>2. accesses' \in [Ids -> Nat]
    BY <1>0, <1>6 DEF RecordAccess
  <2>. QED  BY <1>0, <1>6, <2>1, <2>2 DEF RecordAccess, Typed
<1>7. ASSUME NEW ok \in BOOLEAN, Edges(ok) PROVE Typed'
  <2>1. failures' \in Nat
    BY <1>0, <1>7, CallIs DEF Edges
  <2>2. {n.id : n \in neighbors} \in SUBSET Ids
    BY RetrievalAssumption DEF Witnessed, Found
  <2>3. page' \in SUBSET Ids
    BY <1>0, <1>7, <2>2 DEF Edges
  <2>. QED  BY <1>0, <1>7, <2>1, <2>3 DEF Edges, Typed
<1>8. ASSUME NEW ok \in BOOLEAN, Validate(ok) PROVE Typed'
  <2>1. failures' \in Nat
    BY <1>0, <1>8, CallIs DEF Validate
  <2>. QED  BY <1>0, <1>8, <2>1 DEF Validate, Typed
<1>9. ASSUME NEW ok \in BOOLEAN, Exists(ok) PROVE Typed'
  <2>1. failures' \in Nat
    BY <1>0, <1>9, CallIs DEF Exists
  <2>. QED  BY <1>0, <1>9, <2>1 DEF Exists, Typed
<1>10. ASSUME NEW ok \in BOOLEAN, InsertEdge(ok) PROVE Typed'
  <2>1. failures' \in Nat
    BY <1>0, <1>10, CallIs DEF InsertEdge
  <2>2. todo # <<>> /\ todo \in Seq(EdgeRow)
    BY <1>0, <1>10 DEF InsertEdge
  <2>3. Head(todo) \in EdgeRow /\ Tail(todo) \in Seq(EdgeRow)
    BY <2>2
  <2>4. edges' \in SUBSET EdgeRow
    BY <1>0, <1>10, <2>3 DEF InsertEdge, Linked
  <2>5. PICK done \in BOOLEAN : outcomes' = Append(outcomes, [edge |-> Head(todo), created |-> done])
    BY <1>10 DEF InsertEdge, Valid, CanLink, Present
  <2>6. outcomes' \in Seq([edge : EdgeRow, created : BOOLEAN])
    BY <1>0, <2>3, <2>5
  <2>. QED  BY <1>0, <1>10, <2>1, <2>3, <2>4, <2>6 DEF InsertEdge, Typed
<1>11. ASSUME Fuse PROVE Typed'
  <2>1. req \in Requests /\ Fusing
    BY <1>11 DEF Fuse, Placed
  <2>2. IsRanking(Relevant)
    BY <1>0, <2>1, RankingIs
  <2>3. IsRanking(missing')
    BY <1>11, <2>2, OnlyRanks DEF Fuse
  <2>4. kept' \in SUBSET Ids
    BY <1>0, <1>11, RankInList DEF Fuse
  <2>. QED  BY <1>0, <1>11, <2>3, <2>4 DEF Fuse, Typed
<1>12. ASSUME Serve PROVE Typed'
  <2>1. req.op \in Searches
    BY <1>12 DEF Serve, Placed, Searches
  <2>2. page' \subseteq kept \cup Range(vhits) \cup {n.id : n \in neighbors}
    BY <1>12, <2>1, PagesHold DEF Serve
  <2>3. page' \in SUBSET Ids
    BY <2>2, RetrievalAssumption DEF Witnessed, Found
  <2>. QED  BY <1>0, <1>12, <2>3 DEF Serve, Typed
<1>13. ASSUME Assemble PROVE Typed'
  <2>1. req \in Requests /\ Fusing /\ req.op = "context"
    BY <1>13 DEF Assemble, Placed
  <2>2. page' = Range(GreedyPack(MmrDedup(Hits), req.budget).packed)
    BY <1>13 DEF Assemble
  <2>3. IsRanking(Hits) /\ req.budget \in Nat
    BY <1>0, <1>13, <2>1, HitsAre, RequestIs DEF Ranked, Assemble
  <2>4. IsRanking(MmrDedup(Hits))
    BY <2>3, DedupIs DEF Deduped, IsRanking
  <2>5. GreedyPack(MmrDedup(Hits), req.budget).packed \in Seq(Ids)
    BY <2>3, <2>4, PackIs DEF Packed
  <2>6. page' \in SUBSET Ids
    BY <2>2, <2>5 DEF Range
  <2>. QED  BY <1>0, <1>13, <2>6 DEF Assemble, Typed
<1>14. ASSUME NEW id \in Ids, Delete(id) PROVE Typed'
  <2>1. rows' \in [Ids -> Status] /\ edges' \in SUBSET EdgeRow
    BY <1>0, <1>14 DEF Delete, Status
  <2>. QED  BY <1>0, <1>14, <2>1 DEF Delete, Write, Typed
<1>15. ASSUME NEW id \in Ids, NEW s \in Status, SetStatus(id, s) PROVE Typed'
  BY <1>0, <1>15 DEF SetStatus, Write, Typed
<1>16. ASSUME NEW e \in NewEdges, Link(e) PROVE Typed'
  <2>1. edges' \in SUBSET EdgeRow
    BY <1>0, <1>16, RetrievalAssumption DEF Link, Linked
  <2>. QED  BY <1>0, <1>16, <2>1 DEF Link, Write, Typed
<1>17. ASSUME UNCHANGED vars PROVE Typed'
  BY <1>0, <1>17 DEF vars, Typed
<1>. QED  BY <1>1, <1>2, <1>3, <1>4, <1>5, <1>6, <1>7, <1>8, <1>9, <1>10, <1>11, <1>12,
             <1>13, <1>14, <1>15, <1>16, <1>17 DEF Next, Step, Others

\* A context serves hits, packed without near duplicates and within the budget.
LEMMA ContextServes ==
    ASSUME Inv, Assemble
    PROVE  /\ page' \subseteq kept
           /\ IsRanking(Hits) /\ Range(Hits) = kept
           /\ \E items : /\ Deduped(Hits, items, Len(Hits))
                         /\ IsRanking(items)
                         /\ Packed(items, req.budget, digest', Len(items))
<1>. USE DEF Inv
<1>1. req \in Requests /\ Fusing /\ req.op = "context" /\ req.budget \in Nat
  BY RequestIs DEF Assemble, Placed, Fusing
<1>2. IsRanking(Hits) /\ Range(Hits) = kept
  BY <1>1, HitsAre DEF Ranked, Assemble, Typed
<1>. DEFINE items == MmrDedup(Hits)
            d == GreedyPack(items, req.budget)
<1>3. digest' = d /\ page' = Range(d.packed)
  BY DEF Assemble
<1>4. Deduped(Hits, items, Len(Hits))
  BY <1>2, DedupIs
<1>. HIDE DEF items
<1>5. IsRanking(items)
  BY <1>4 DEF Deduped, IsRanking
<1>6. Packed(items, req.budget, d, Len(items))
  BY <1>1, <1>5, PackIs
<1>. HIDE DEF d
<1>7. Range(items) \subseteq kept
  <2>1. \A i \in DOMAIN items : \E m \in 1..Len(Hits) : items[i] = Hits[m]
    BY <1>4 DEF Deduped
  <2>2. \A m \in 1..Len(Hits) : Hits[m] \in kept
    BY <1>2, RankInList
  <2>. QED  BY <2>1, <2>2 DEF Range
<1>8. Range(d.packed) \subseteq Range(items)
  <2>1. \A i \in DOMAIN d.packed : \E m \in 1..Len(items) : d.packed[i] = items[m]
    BY <1>6 DEF Packed
  <2>2. \A m \in 1..Len(items) : items[m] \in Range(items)
    BY <1>5, RankInList
  <2>. QED  BY <2>1, <2>2 DEF Range
<1>. QED  BY <1>2, <1>3, <1>4, <1>5, <1>6, <1>7, <1>8

LEMMA RankedNext ==
    ASSUME Inv, [Next]_vars PROVE Ranked'
<1>. USE DEF Inv
<1>. USE DEF tables, recall, answer, relating, ghosts, faults
<1>1. ASSUME Fuse PROVE Ranked'
  <2>1. req \in Requests /\ Fusing /\ IsRanking(vhits) /\ IsRanking(bhits)
    BY <1>1 DEF Fuse, Placed, Typed
  <2>2. IsRanking(Relevant) /\ Range(Relevant) \subseteq Range(Ranking)
    BY <2>1, RankingIs
  <2>3. Range(missing') \subseteq Range(Relevant) /\ kept' \subseteq Range(Relevant)
    <3>1. Range(Only(Relevant, Ids \ Range(vhits))) = Range(Relevant) \cap (Ids \ Range(vhits))
      BY <2>2, OnlyRanks
    <3>. QED  BY <1>1, <3>1 DEF Fuse
  <2>4. Ranking' = Ranking
    BY <1>1 DEF Fuse, Ranking, FusionLimit, Pool
  <2>. QED  BY <2>2, <2>3, <2>4 DEF Ranked
<1>2. ASSUME NEW ok \in BOOLEAN, Hydrate(ok) PROVE Ranked'
  <2>1. kept \cup Range(missing) \subseteq Range(Ranking) /\ missing # <<>>
        /\ IsRanking(missing)
    BY <1>2 DEF Hydrate, Ranked, Typed
  <2>2. Head(missing) \in Range(missing) /\ Range(Tail(missing)) \subseteq Range(missing)
    BY <2>1 DEF IsRanking, Range
  <2>3. kept' \cup Range(missing') \subseteq kept \cup Range(missing)
    BY <1>2, <2>2 DEF Hydrate
  <2>4. Ranking' = Ranking
    BY <1>2 DEF Hydrate, Ranking, FusionLimit, Pool
  <2>. QED  BY <2>1, <2>3, <2>4 DEF Ranked
<1>3. ASSUME at' # "hydrate" PROVE Ranked'
  BY <1>3 DEF Ranked
<1>4. ASSUME at' = at, req' = req, bhits' = bhits, vhits' = vhits, kept' = kept,
             missing' = missing PROVE Ranked'
  <2>1. Ranking' = Ranking
    BY <1>4 DEF Ranking, FusionLimit, Pool
  <2>. QED  BY <1>4, <2>1 DEF Ranked
<1>5. ASSUME NEW r \in Requests, Begin(r) PROVE Ranked'
  <2>1. r.op \in Searches \cup {"context", "graph", "relate", "relate_batch"}
    BY RequestIs
  <2>. QED  BY <1>3, <1>5, <2>1 DEF Begin, Searches
<1>6. ASSUME NEW ok \in BOOLEAN, \/ VectorSearch(ok) \/ TextSearch(ok) \/ Expand(ok)
                                 \/ RecordAccess(ok) \/ Edges(ok) \/ Validate(ok)
                                 \/ Exists(ok)
      PROVE  Ranked'
  BY <1>3, <1>6 DEF VectorSearch, TextSearch, Expand, RecordAccess, Edges, Validate, Exists,
                    Failed, Placed, Searches, Fusing
<1>7. ASSUME NEW ok \in BOOLEAN, InsertEdge(ok) PROVE Ranked'
  BY <1>3, <1>7 DEF InsertEdge
<1>8. ASSUME Serve \/ Assemble PROVE Ranked'
  BY <1>3, <1>8 DEF Serve, Assemble
<1>9. ASSUME Others PROVE Ranked'
  BY <1>4, <1>9 DEF Others, Delete, SetStatus, Link, Write
<1>10. ASSUME UNCHANGED vars PROVE Ranked'
  BY <1>4, <1>10 DEF vars
<1>. QED  BY <1>1, <1>2, <1>5, <1>6, <1>7, <1>8, <1>9, <1>10 DEF Next, Step

\* What is shown only grows, and a request finds nothing that is not shown.
LEMMA WitnessedNext ==
    ASSUME Inv, [Next]_vars PROVE Witnessed'
<1>. USE DEF Inv
<1>. USE DEF tables, recall, answer, relating, ghosts, faults
<1>0. /\ shown \in SUBSET Bucket
      /\ \A id \in shown : rows[id] # "unborn"
      /\ at = "idle" => Found = {} /\ DOMAIN graph = {}
      /\ at # "idle" => Retrievable \subseteq shown
      /\ Found \subseteq shown
      /\ \A e \in DOMAIN graph : \A id \in {e.source, e.target} :
            id \in shown \/ (req.op = "graph" /\ id = req.center)
  BY DEF Witnessed
\* A step of the request that leaves the tables as they are.
<1>1. ASSUME rows' = rows, shown' = shown, graph' = graph, req' = req, at # "idle", at' # "idle",
             Found' \subseteq Found \cup Retrievable
      PROVE  Witnessed'
  <2>1. Retrievable' = Retrievable
    BY <1>1 DEF Retrievable, Live
  <2>. QED  BY <1>0, <1>1, <2>1, Zenon DEF Witnessed
<1>2. ASSUME NEW r \in Requests, Begin(r) PROVE Witnessed'
  <2>1. shown' = Retrievable /\ at = "idle" /\ DOMAIN graph = {} /\ Found' = Found /\ Found = {}
        /\ graph' = graph /\ rows' = rows
    BY <1>0, <1>2 DEF Begin, Found
  <2>2. Retrievable' = Retrievable
    BY <2>1 DEF Retrievable, Live
  <2>3. at' # "idle"
    <3>1. r.op \in Searches \cup {"context", "graph", "relate", "relate_batch"}
      BY RequestIs
    <3>. QED  BY <1>2, <3>1 DEF Begin, Searches
  <2>4. shown' \in SUBSET Bucket /\ \A id \in shown' : rows'[id] # "unborn"
    BY <2>1 DEF Retrievable, Live
  <2>. QED  BY <2>1, <2>2, <2>3, <2>4 DEF Witnessed
<1>3. ASSUME NEW ok \in BOOLEAN, VectorSearch(ok) PROVE Witnessed'
  <2>1. req \in Requests /\ req.op \in Searches \cup {"context"}
    BY <1>3 DEF VectorSearch, Placed
  <2>2. Range(vhits') \subseteq Retrievable
    <3>1. Range(<<>>) = {}
      BY DEF Range
    <3>. QED  BY <1>3, <2>1, <3>1, ChannelsFind DEF VectorSearch
  <2>3. Found' \subseteq Found \cup Retrievable
    BY <1>3, <2>2 DEF VectorSearch, Found
  <2>4. at # "idle" /\ at' # "idle"
    BY <1>3, <2>1 DEF VectorSearch, Failed, Fusing, Searches
  <2>. QED  BY <1>1, <1>3, <2>3, <2>4 DEF VectorSearch
<1>4. ASSUME NEW ok \in BOOLEAN, TextSearch(ok) PROVE Witnessed'
  <2>1. req \in Requests /\ Fusing /\ IsRanking(text)
    BY <1>4 DEF TextSearch, Placed, Typed
  <2>2. Range(bhits') \subseteq Retrievable
    <3>1. Range(<<>>) = {}
      BY DEF Range
    <3>. QED  BY <1>4, <2>1, <3>1, ChannelsFind DEF TextSearch
  <2>3. Found' \subseteq Found \cup Retrievable
    BY <1>4, <2>2 DEF TextSearch, Found
  <2>. QED  BY <1>1, <1>4, <2>3 DEF TextSearch
<1>5. ASSUME NEW ok \in BOOLEAN, Hydrate(ok) PROVE Witnessed'
  <2>1. missing # <<>> /\ IsRanking(missing)
    BY <1>5 DEF Hydrate, Typed
  <2>2. Head(missing) \in Range(missing) /\ Range(Tail(missing)) \subseteq Range(missing)
    BY <2>1 DEF IsRanking, Range
  <2>3. Found' \subseteq Found
    BY <1>5, <2>2 DEF Hydrate, Found
  <2>. QED  BY <1>1, <1>5, <2>3 DEF Hydrate
<1>6. ASSUME NEW ok \in BOOLEAN, Expand(ok) PROVE Witnessed'
  <2>1. {n.id : n \in neighbors'} \subseteq {n.id : n \in neighbors} \cup Retrievable
    BY <1>6, ExpansionFinds DEF Expand
  <2>2. Found' \subseteq Found \cup Retrievable
    BY <1>6, <2>1 DEF Expand, Found
  <2>3. at # "idle" /\ at' # "idle"
    BY <1>6 DEF Expand, Failed
  <2>. QED  BY <1>1, <1>6, <2>2, <2>3 DEF Expand
<1>7. ASSUME NEW ok \in BOOLEAN, \/ RecordAccess(ok) \/ Validate(ok) \/ Exists(ok)
      PROVE  Witnessed'
  <2>1. Found' = Found
    BY <1>7 DEF RecordAccess, Validate, Exists, Found
  <2>2. at # "idle" /\ at' # "idle"
    BY <1>7 DEF RecordAccess, Validate, Exists, Failed
  <2>3. rows' = rows /\ shown' = shown /\ graph' = graph /\ req' = req
    BY <1>7 DEF RecordAccess, Validate, Exists
  <2>. QED  BY <1>1, <2>1, <2>2, <2>3
<1>8. ASSUME NEW ok \in BOOLEAN, InsertEdge(ok) PROVE Witnessed'
  <2>1. Found' = Found
    BY <1>8 DEF InsertEdge, Found
  <2>. QED  BY <1>1, <1>8, <2>1 DEF InsertEdge
<1>9. ASSUME NEW ok \in BOOLEAN, Edges(ok) PROVE Witnessed'
  <2>1. Found' \subseteq Found
    BY <1>9 DEF Edges, Found
  <2>2. Retrievable' = Retrievable
    BY <1>9 DEF Edges, Retrievable, Live
  <2>3. Nodes \subseteq shown \cup (IF req.op = "graph" THEN {req.center} ELSE {})
    BY <1>0 DEF Nodes, Found
  <2>4. \A e \in DOMAIN graph' : {e.source, e.target} \subseteq Nodes
    BY <1>9 DEF Edges, NoEdges, Between
  <2>. QED  BY <1>0, <1>9, <2>1, <2>2, <2>3, <2>4 DEF Edges, Witnessed
<1>10. ASSUME Fuse PROVE Witnessed'
  <2>1. req \in Requests /\ Fusing /\ IsRanking(vhits) /\ IsRanking(bhits)
    BY <1>10 DEF Fuse, Placed, Typed
  <2>2. /\ IsRanking(Relevant)
        /\ Range(Relevant) \subseteq Range(bhits) \cup Range(vhits)
    BY <2>1, RankingIs
  <2>3. Range(missing') \subseteq Range(Relevant) /\ kept' \subseteq Range(Relevant)
    <3>1. Range(Only(Relevant, Ids \ Range(vhits))) = Range(Relevant) \cap (Ids \ Range(vhits))
      BY <2>2, OnlyRanks
    <3>. QED  BY <1>10, <3>1 DEF Fuse
  <2>4. Found' \subseteq Found
    BY <1>10, <2>2, <2>3 DEF Fuse, Found
  <2>. QED  BY <1>1, <1>10, <2>4 DEF Fuse
<1>11. ASSUME Serve PROVE Witnessed'
  <2>1. req.op \in Searches /\ at # "idle"
    BY <1>11 DEF Serve, Placed, Searches
  <2>2. page' \subseteq kept \cup Range(vhits) \cup {n.id : n \in neighbors}
    BY <1>11, <2>1, PagesHold DEF Serve
  <2>3. Found' \subseteq Found
    BY <1>11, <2>2 DEF Serve, Found
  <2>. QED  BY <1>1, <1>11, <2>1, <2>3 DEF Serve
<1>12. ASSUME Assemble PROVE Witnessed'
  <2>1. page' \subseteq kept
    BY <1>12, ContextServes
  <2>2. Found' \subseteq Found
    BY <1>12, <2>1 DEF Assemble, Found
  <2>. QED  BY <1>1, <1>12, <2>2 DEF Assemble
<1>13. ASSUME NEW id \in Ids, Delete(id) \/ \E s \in Status : SetStatus(id, s)
       PROVE  Witnessed'
  <2>1. /\ at # "idle" /\ at' = at /\ req' = req /\ graph' = graph /\ Found' = Found
    BY <1>13 DEF Delete, SetStatus, Write, Found
  <2>2. rows \in [Ids -> Status]
    BY DEF Typed
  <2>3. PICK s \in Status \ {"unborn"} :
            /\ rows' = [rows EXCEPT ![id] = s]
            /\ shown' = shown \cup (IF s = "live" THEN {id} \cap Bucket ELSE {})
    BY <1>13 DEF Delete, SetStatus, Status, Memories!After
  <2>4. Bucket \subseteq Ids
    BY RetrievalAssumption
  <2>5. Retrievable' \subseteq shown'
    <3>. SUFFICES ASSUME NEW x \in Bucket, rows'[x] = "live" PROVE x \in shown'
      BY DEF Retrievable, Live
    <3>1. CASE x = id
      BY <2>2, <2>3, <3>1
    <3>2. CASE x # id
      BY <1>0, <2>1, <2>2, <2>3, <2>4, <3>2 DEF Retrievable, Live
    <3>. QED  BY <3>1, <3>2
  <2>6. shown \subseteq shown' /\ shown' \in SUBSET Bucket
    BY <1>0, <2>3
  <2>7. \A x \in shown' : rows'[x] # "unborn"
    BY <1>0, <2>2, <2>3, <2>4
  <2>. QED  BY <1>0, <2>1, <2>5, <2>6, <2>7, Zenon DEF Witnessed
<1>14. ASSUME NEW e \in NewEdges, Link(e) PROVE Witnessed'
  <2>1. Found' = Found
    BY <1>14 DEF Link, Write, Found
  <2>. QED  BY <1>1, <1>14, <2>1 DEF Link, Write
<1>15. ASSUME UNCHANGED vars PROVE Witnessed'
  <2>1. Found' = Found /\ Retrievable' = Retrievable
    BY <1>15 DEF vars, Found, Retrievable, Live
  <2>. QED  BY <1>0, <1>15, <2>1 DEF vars, Witnessed
<1>. QED  BY <1>2, <1>3, <1>4, <1>5, <1>6, <1>7, <1>8, <1>9, <1>10, <1>11, <1>12,
             <1>13, <1>14, <1>15 DEF Next, Step, Others

\* A step that records nothing, serves nothing and meets no failure of record.
LEMMA CountedNext ==
    ASSUME Inv, [Next]_vars PROVE Counted'
<1>. USE DEF Inv
<1>. USE DEF tables, recall, answer, relating, ghosts, faults
<1>. DEFINE before == {"idle", "vector", "text", "fuse", "hydrate", "serve", "expand",
                       "validate", "validate_target", "exists", "insert"}
<1>0. /\ DemandIsServed
      /\ at \in before => page = {}
      /\ at \notin {"edges", "answered"} => "record" \notin down
      /\ req.op \in {"relate", "relate_batch", "none"} => page = {}
      /\ rows \in [Ids -> Status] /\ accesses \in [Ids -> Nat] /\ page \in SUBSET Ids
  BY DEF Counted, Typed
<1>1. ASSUME at \notin {"edges", "answered"}
      PROVE  \A id \in Ids : accesses[id] = 0
  BY <1>0, <1>1 DEF DemandIsServed
\* Before anything is served or recorded.
<1>2. ASSUME at \in before, accesses' = accesses, page' = page,
             "record" \notin down', req' = req
      PROVE  Counted'
  <2>1. page' = {} /\ \A id \in Ids : accesses'[id] = 0
    BY <1>0, <1>1, <1>2
  <2>. QED  BY <1>2, <2>1 DEF Counted, DemandIsServed
<1>3. ASSUME NEW ok \in BOOLEAN, Call(ok), at \in before PROVE "record" \notin down'
  <2>1. "record" \notin down /\ at # "record"
    BY <1>0, <1>3
  <2>2. down' \subseteq down \cup {at}
    BY <1>3, CallIs
  <2>. QED  BY <2>1, <2>2
<1>4. ASSUME NEW r \in Requests, Begin(r) PROVE Counted'
  <2>1. page' = {} /\ (\A id \in Ids : accesses'[id] = 0) /\ "record" \notin down'
    BY <1>0, <1>1, <1>4 DEF Begin
  <2>. QED  BY <2>1 DEF Counted, DemandIsServed
<1>5. ASSUME NEW ok \in BOOLEAN, VectorSearch(ok) \/ TextSearch(ok) PROVE Counted'
  <2>1. Call(ok) /\ at \in before /\ accesses' = accesses /\ page' = page /\ req' = req
    BY <1>5 DEF VectorSearch, TextSearch
  <2>. QED  BY <1>2, <1>3, <2>1
<1>6. ASSUME NEW ok \in BOOLEAN, Hydrate(ok) \/ Expand(ok) PROVE Counted'
  <2>1. Call(ok) /\ at \in before /\ accesses' = accesses /\ page' = page /\ req' = req
    BY <1>6 DEF Hydrate, Expand
  <2>. QED  BY <1>2, <1>3, <2>1
<1>7. ASSUME NEW ok \in BOOLEAN, \/ Validate(ok) \/ Exists(ok) \/ InsertEdge(ok)
      PROVE  Counted'
  <2>1. Call(ok) /\ at \in before /\ accesses' = accesses /\ page' = page /\ req' = req
    BY <1>7 DEF Validate, Exists, InsertEdge
  <2>. QED  BY <1>2, <1>3, <2>1
<1>8. ASSUME Fuse PROVE Counted'
  <2>1. at \in before /\ accesses' = accesses /\ page' = page /\ req' = req /\ down' = down
    BY <1>8 DEF Fuse
  <2>2. "record" \notin down'
    BY <1>0, <2>1
  <2>. QED  BY <1>2, <2>1, <2>2
<1>9. ASSUME Serve \/ Assemble PROVE Counted'
  <2>1. /\ at \in before /\ at' = "record" /\ accesses' = accesses /\ req' = req
        /\ down' = down /\ req.op \in Searches \cup {"context"}
    BY <1>9 DEF Serve, Assemble, Placed, Searches
  <2>2. "record" \notin down' /\ \A id \in Ids : accesses'[id] = 0
    BY <1>0, <1>1, <2>1
  <2>. QED  BY <2>1, <2>2 DEF Counted, DemandIsServed, Searches
<1>10. ASSUME NEW ok \in BOOLEAN, RecordAccess(ok) PROVE Counted'
  <2>1. /\ at = "record" /\ Call(ok) /\ rows' = rows /\ page' = page /\ req' = req
        /\ at' \in {"edges", "answered"}
        /\ accesses' = [id \in Ids |-> IF ok /\ id \in page /\ Present(id)
                                       THEN accesses[id] + 1 ELSE accesses[id]]
    BY <1>10 DEF RecordAccess, Demanded
  <2>2. req.op \in Searches \cup {"context"}
    BY <2>1 DEF Placed
  <2>3. \A id \in Ids : accesses[id] = 0
    BY <1>1, <2>1
  <2>4. \A id \in page : rows[id] # "unborn"
    BY DEF Witnessed, Found
  <2>5. ok <=> "record" \notin down'
    BY <1>0, <2>1, CallIs
  <2>6. \A id \in Ids : accesses'[id] = IF ok /\ id \in page /\ Present(id) THEN 1 ELSE 0
    BY <2>1, <2>3
  <2>7. \A id \in Ids :
            \/ accesses'[id] = IF "record" \notin down' /\ id \in page' THEN 1 ELSE 0
            \/ accesses'[id] = 0 /\ rows'[id] = "deleted"
    BY <2>1, <2>4, <2>5, <2>6 DEF Present
  <2>8. DemandIsServed'
    BY <2>1, <2>2, <2>7 DEF DemandIsServed, Searches
  <2>. QED  BY <2>1, <2>2, <2>8 DEF Counted, Searches
<1>11. ASSUME NEW ok \in BOOLEAN, Edges(ok) PROVE Counted'
  <2>1. /\ at = "edges" /\ at' = "answered" /\ Call(ok) /\ rows' = rows /\ req' = req
        /\ accesses' = accesses
        /\ req.op # "graph" => page' = page
    BY <1>11 DEF Edges
  <2>2. "record" \in down' <=> "record" \in down
    BY <2>1, CallIs
  <2>3. req.op \in Searches \cup {"context", "graph"}
    BY <2>1 DEF Placed
  <2>4. DemandIsServed'
    BY <1>0, <2>1, <2>2 DEF DemandIsServed
  <2>. QED  BY <2>1, <2>3, <2>4 DEF Counted, Searches
<1>12. ASSUME at' = at, req' = req, page' = page, accesses' = accesses, down' = down,
              \A id \in Ids : rows[id] = "deleted" => rows'[id] = "deleted"
       PROVE  Counted'
  <2>1. DemandIsServed'
    BY <1>0, <1>12 DEF DemandIsServed
  <2>. QED  BY <1>0, <1>12, <2>1 DEF Counted
<1>13. ASSUME NEW id \in Ids, Delete(id) \/ \E s \in Status : SetStatus(id, s)
       PROVE  Counted'
  <2>1. \A x \in Ids : rows[x] = "deleted" => rows'[x] = "deleted"
    BY <1>0, <1>13 DEF Delete, SetStatus, Memories!After
  <2>. QED  BY <1>12, <1>13, <2>1 DEF Delete, SetStatus, Write
<1>14. ASSUME NEW e \in NewEdges, Link(e) PROVE Counted'
  BY <1>12, <1>14 DEF Link, Write
<1>15. ASSUME UNCHANGED vars PROVE Counted'
  BY <1>12, <1>15 DEF vars
<1>. QED  BY <1>4, <1>5, <1>6, <1>7, <1>8, <1>9, <1>10, <1>11, <1>13, <1>14, <1>15
          DEF Next, Step, Others

\* What an outcome says of its edge stays true.
Answers(o) ==
    IF o.created
    THEN \/ rows[o.edge.source] = "deleted" \/ rows[o.edge.target] = "deleted"
         \/ \E f \in edges : SameKey(f, o.edge)
    ELSE \/ o.edge.source = o.edge.target \/ "insert" \in down
         \/ rows[o.edge.source] = "deleted" \/ rows[o.edge.target] = "deleted"
         \/ req.op = "relate_batch" /\ ~({o.edge.source, o.edge.target} \subseteq existing)

LEMMA HeadAndTail ==
    ASSUME NEW S, NEW s \in Seq(S), s # <<>>
    PROVE  /\ Len(s) \in Nat /\ Len(s) > 0 /\ 1 \in DOMAIN s
           /\ Head(s) \in S /\ Head(s) = s[1]
           /\ Tail(s) \in Seq(S) /\ Len(Tail(s)) = Len(s) - 1
           /\ \A i \in DOMAIN Tail(s) : i \in Nat /\ i + 1 \in DOMAIN s /\ Tail(s)[i] = s[i + 1]
           /\ Len(s) # 1 => Tail(s) # <<>>
<1>1. Len(s) \in Nat /\ Len(s) > 0 /\ 1 \in DOMAIN s
  OBVIOUS
<1>2. Head(s) \in S /\ Head(s) = s[1]
  BY <1>1
<1>3. Tail(s) \in Seq(S) /\ Len(Tail(s)) = Len(s) - 1
  BY <1>1
<1>4. \A i \in DOMAIN Tail(s) : i \in Nat /\ i + 1 \in DOMAIN s /\ Tail(s)[i] = s[i + 1]
  BY <1>1, <1>3
<1>5. Len(s) # 1 => Tail(s) # <<>>
  BY <1>1, <1>3
<1>. QED  BY <1>1, <1>2, <1>3, <1>4, <1>5

LEMMA EdgeEnds == \A e \in EdgeRow : e.source \in Ids /\ e.target \in Ids
BY DEF EdgeRow

LEMMA AccountedNext ==
    ASSUME Inv, [Next]_vars PROVE Accounted'
<1>. USE DEF Inv
<1>. USE DEF tables, recall, answer, relating, ghosts, faults
<1>. DEFINE Row == [edge : EdgeRow, created : BOOLEAN]
            checking == {"validate", "validate_target", "exists", "insert"}
<1>0. /\ rows \in [Ids -> Status] /\ edges \in SUBSET EdgeRow /\ existing \in SUBSET Ids
      /\ todo \in Seq(EdgeRow) /\ outcomes \in Seq(Row)
      /\ \A i \in DOMAIN outcomes : /\ outcomes[i] \in Row
                                    /\ outcomes[i].edge.source \in Ids
                                    /\ outcomes[i].edge.target \in Ids
  <2>1. \A o \in Row : o.edge \in EdgeRow
    OBVIOUS
  <2>2. outcomes \in Seq(Row)
    BY DEF Typed
  <2>3. \A i \in DOMAIN outcomes : outcomes[i] \in Row
    <3>. HIDE DEF Row
    <3>. QED  BY <2>2
  <2>. HIDE DEF Row
  <2>. QED  BY <2>1, <2>2, <2>3, EdgeEnds DEF Typed
<1>1. /\ \A i \in DOMAIN outcomes : outcomes[i].edge = req.edges[i]
      /\ at \in {"validate", "validate_target", "exists"} => outcomes = <<>> /\ todo = req.edges
      /\ at = "idle" => outcomes = <<>>
      /\ at = "insert" =>
            /\ todo # <<>> /\ Len(outcomes) + Len(todo) = Len(req.edges)
            /\ \A i \in DOMAIN todo : todo[i] = req.edges[Len(outcomes) + i]
      /\ at = "answered" /\ req.op \in {"relate", "relate_batch"} =>
            Len(outcomes) = Len(req.edges)
      /\ at = "validate_target" => rows[Head(todo).source] # "unborn"
      /\ at = "insert" /\ req.op = "relate" =>
            rows[Head(todo).source] # "unborn" /\ rows[Head(todo).target] # "unborn"
      /\ \A id \in existing : rows[id] # "unborn"
      /\ at \in checking => Len(req.edges) \in Nat
      /\ \A i \in DOMAIN outcomes : Answers(outcomes[i])
  BY DEF Accounted, Answers
<1>2. at # "idle" => req.edges \in Seq(EdgeRow) /\ Len(req.edges) \in Nat
                     /\ (req.op = "relate" => Len(req.edges) = 1)
  BY RequestIs DEF Placed
\* A step elsewhere, or one of the others.
<1>4. ASSUME outcomes' = outcomes, todo' = todo, existing' = existing, req' = req,
             down \subseteq down',
             \/ at' = at
             \/ at' \notin checking \cup {"idle", "answered"}
             \/ at' = "answered" /\ req.op \notin {"relate", "relate_batch"},
             \A id \in Ids : /\ rows[id] = "deleted" => rows'[id] = "deleted"
                             /\ rows[id] # "unborn" => rows'[id] # "unborn",
             \A e \in edges : \/ e \in edges'
                              \/ rows'[e.source] = "deleted" \/ rows'[e.target] = "deleted"
      PROVE  Accounted'
  <2>1. ASSUME NEW i \in DOMAIN outcomes PROVE Answers(outcomes[i])'
    <3>. DEFINE e == outcomes[i].edge
    <3>1. Answers(outcomes[i]) /\ e.source \in Ids /\ e.target \in Ids
      BY <1>0, <1>1
    <3>2. CASE outcomes[i].created
      BY <1>4, <3>1, <3>2 DEF Answers, SameKey
    <3>3. CASE ~outcomes[i].created
      BY <1>4, <3>1, <3>3 DEF Answers
    <3>. QED  BY <3>2, <3>3
  <2>2. at' = "validate_target" => rows'[Head(todo').source] # "unborn"
    <3>. SUFFICES ASSUME at' = "validate_target" PROVE rows'[Head(todo').source] # "unborn"
      OBVIOUS
    <3>1. at = "validate_target" /\ Len(todo) = 1
      BY <1>1, <1>2, <1>4 DEF Placed
    <3>2. Head(todo).source \in Ids
      <4>1. todo # <<>>
        BY <3>1
      <4>. QED  BY <1>0, <4>1, HeadAndTail, EdgeEnds
    <3>. QED  BY <1>1, <1>4, <3>1, <3>2
  <2>3. at' = "insert" /\ req'.op = "relate" =>
            rows'[Head(todo').source] # "unborn" /\ rows'[Head(todo').target] # "unborn"
    <3>. SUFFICES ASSUME at' = "insert", req'.op = "relate"
                  PROVE  rows'[Head(todo').source] # "unborn" /\ rows'[Head(todo').target] # "unborn"
      OBVIOUS
    <3>1. at = "insert" /\ todo # <<>>
      BY <1>1, <1>4
    <3>2. Head(todo).source \in Ids /\ Head(todo).target \in Ids
      BY <1>0, <3>1, HeadAndTail, EdgeEnds
    <3>. QED  BY <1>1, <1>4, <3>1, <3>2
  <2>4. \A id \in existing' : rows'[id] # "unborn"
    BY <1>0, <1>1, <1>4
  <2>. QED  BY <1>1, <1>4, <2>1, <2>2, <2>3, <2>4 DEF Accounted, Answers
<1>5. ASSUME NEW r \in Requests, Begin(r) PROVE Accounted'
  <2>1. outcomes' = <<>> /\ todo' = r.edges /\ req' = r /\ rows' = rows /\ existing' = existing
    BY <1>1, <1>5 DEF Begin
  <2>2. at' \in {"vector", "expand", "validate", "exists"} /\ Len(r.edges) \in Nat
    <3>1. r.op \in Searches \cup {"context", "graph", "relate", "relate_batch"}
          /\ r.edges \in Seq(EdgeRow)
      BY RequestIs
    <3>. QED  BY <1>5, <3>1 DEF Begin, Searches
  <2>. QED  BY <1>1, <2>1, <2>2 DEF Accounted
<1>6. ASSUME NEW ok \in BOOLEAN, \/ VectorSearch(ok) \/ TextSearch(ok) \/ Hydrate(ok)
                                 \/ Expand(ok) \/ RecordAccess(ok) \/ Edges(ok)
      PROVE  Accounted'
  <2>1. /\ outcomes' = outcomes /\ todo' = todo /\ existing' = existing /\ req' = req
        /\ rows' = rows /\ edges' = edges /\ Call(ok)
    BY <1>6 DEF VectorSearch, TextSearch, Hydrate, Expand, RecordAccess, Edges
  <2>2. \/ at' = at
        \/ at' \notin checking \cup {"idle", "answered"}
        \/ at' = "answered" /\ req.op \notin {"relate", "relate_batch"}
    BY <1>6 DEF VectorSearch, TextSearch, Hydrate, Expand, RecordAccess, Edges, Placed,
                Searches, Fusing, Failed
  <2>3. down \subseteq down'
    BY <2>1, CallIs
  <2>. QED  BY <1>4, <2>1, <2>2, <2>3
<1>7. ASSUME Fuse \/ Serve \/ Assemble PROVE Accounted'
  BY <1>4, <1>7 DEF Fuse, Serve, Assemble
<1>8. ASSUME NEW ok \in BOOLEAN, Validate(ok) PROVE Accounted'
  <2>1. /\ req.op = "relate" /\ outcomes = <<>> /\ todo = req.edges /\ Len(todo) = 1
        /\ at \in {"validate", "validate_target"}
    BY <1>1, <1>2, <1>8 DEF Validate, Placed
  <2>2. Head(todo) \in EdgeRow /\ Head(todo).source \in Ids /\ Head(todo).target \in Ids
        /\ todo # <<>>
    <3>1. todo # <<>>
      BY <2>1
    <3>. QED  BY <1>0, <3>1, HeadAndTail, EdgeEnds
  <2>3. outcomes' = outcomes /\ todo' = todo /\ existing' = existing /\ req' = req
        /\ rows' = rows /\ edges' = edges
    BY <1>8 DEF Validate
  <2>4. CASE at' = Failed
    <3>1. down \subseteq down'
      BY <1>8, CallIs DEF Validate
    <3>. QED  BY <1>4, <2>3, <2>4, <3>1 DEF Failed
  <2>5. CASE at' # Failed
    <3>1. at = "validate" => at' = "validate_target" /\ Present(Head(todo).source)
      BY <1>8, <2>5 DEF Validate
    <3>2. at = "validate_target" => at' = "insert" /\ Present(Head(todo).target)
      BY <1>8, <2>5 DEF Validate
    <3>3. at' = "validate_target" => rows[Head(todo).source] # "unborn"
      BY <2>1, <3>1, <3>2 DEF Present
    <3>4. at' = "insert" => rows[Head(todo).source] # "unborn" /\ rows[Head(todo).target] # "unborn"
      BY <1>1, <2>1, <3>1, <3>2 DEF Present
    <3>5. at' \in {"validate_target", "insert"}
      BY <2>1, <3>1, <3>2
    <3>6. Len(outcomes) = 0 /\ Len(req.edges) = 1 /\ \A i \in DOMAIN todo : i \in Int /\ 0 + i = i
      BY <1>0, <2>1
    <3>. QED  BY <1>1, <2>1, <2>2, <2>3, <3>3, <3>4, <3>5, <3>6 DEF Accounted
  <2>. QED  BY <2>4, <2>5
<1>9. ASSUME NEW ok \in BOOLEAN, Exists(ok) PROVE Accounted'
  <2>1. req.op = "relate_batch" /\ outcomes = <<>> /\ todo = req.edges
        /\ Len(req.edges) \in Nat
    BY <1>1, <1>9 DEF Exists, Placed
  <2>2. outcomes' = outcomes /\ todo' = todo /\ req' = req /\ rows' = rows
    BY <1>9 DEF Exists
  <2>3. \A id \in existing' : rows[id] # "unborn"
    BY <1>9 DEF Exists, Present
  <2>4. at' \in {Failed, "answered", "insert"} /\ (at' = "answered" => todo = <<>>)
        /\ (at' = "insert" => todo # <<>>)
    BY <1>9 DEF Exists, Failed
  <2>5. Len(outcomes) = 0 /\ (\A i \in DOMAIN todo : i \in Int /\ 0 + i = i)
        /\ (todo = <<>> => Len(req.edges) = 0)
    BY <1>0, <2>1
  <2>. QED  BY <2>1, <2>2, <2>3, <2>4, <2>5 DEF Accounted, Failed
<1>10. ASSUME NEW ok \in BOOLEAN, InsertEdge(ok) PROVE Accounted'
  <2>. DEFINE e == Head(todo)
              done == ok /\ Valid(e) /\ CanLink(e)
              o == [edge |-> e, created |-> done]
              n == Len(outcomes)
  <2>1. /\ at = "insert" /\ todo # <<>> /\ req.op \in {"relate", "relate_batch"}
        /\ ok \/ Valid(e)
        /\ edges' = (IF done THEN Linked(e) ELSE edges)
        /\ outcomes' = Append(outcomes, o) /\ todo' = Tail(todo)
        /\ at' = IF Len(todo) = 1 THEN "answered" ELSE at
        /\ rows' = rows /\ req' = req /\ existing' = existing
    BY <1>10 DEF InsertEdge, Placed
  <2>2. e \in EdgeRow /\ e.source \in Ids /\ e.target \in Ids /\ done \in BOOLEAN /\ o \in Row
    <3>1. e \in EdgeRow /\ e.source \in Ids /\ e.target \in Ids
      BY <1>0, <2>1, HeadAndTail, EdgeEnds
    <3>2. done \in BOOLEAN
      BY DEF Valid, CanLink, Present
    <3>. HIDE DEF done, e
    <3>. QED  BY <3>1, <3>2
  <2>3. down \subseteq down' /\ (~ok => "insert" \in down')
    BY <1>10, <2>1, CallIs DEF InsertEdge
  <2>4. o.edge = e /\ o.created = done
    OBVIOUS
  <2>5. ~done /\ ok => \/ e.source = e.target
                       \/ req.op = "relate_batch" /\ ~({e.source, e.target} \subseteq existing)
                       \/ rows[e.source] = "deleted" \/ rows[e.target] = "deleted"
    <3>. SUFFICES ASSUME ok, ~done, e.source # e.target,
                         req.op = "relate_batch" => {e.source, e.target} \subseteq existing
                  PROVE  rows[e.source] = "deleted" \/ rows[e.target] = "deleted"
      OBVIOUS
    <3>1. ~CanLink(e)
      BY DEF Valid
    <3>2. rows[e.source] # "unborn" /\ rows[e.target] # "unborn"
      BY <1>1, <2>1
    <3>. QED  BY <3>1, <3>2 DEF CanLink, Present
  <2>6. done => \E f \in edges' : SameKey(f, e)
    BY <2>1 DEF Linked, SameKey
  <2>7. edges \subseteq edges'
    BY <2>1 DEF Linked
  <2>. HIDE DEF o, done
  <2>8. ASSUME NEW x \in Row, x = o PROVE Answers(x)'
    <3>1. x.edge = e /\ x.created = done
      BY <2>4, <2>8
    <3>2. CASE done
      BY <2>6, <3>1, <3>2 DEF Answers
    <3>3. CASE ~done
      BY <2>1, <2>3, <2>5, <3>1, <3>3 DEF Answers
    <3>. QED  BY <3>2, <3>3
  <2>9. ASSUME NEW x \in Row, Answers(x) PROVE Answers(x)'
    <3>1. CASE x.created
      BY <2>1, <2>7, <2>9, <3>1 DEF Answers
    <3>2. CASE ~x.created
      BY <2>1, <2>3, <2>9, <3>2 DEF Answers
    <3>. QED  BY <3>1, <3>2
  <2>10. /\ outcomes \in Seq(Row) /\ n \in Nat /\ DOMAIN outcomes = 1..n
         /\ Len(outcomes') = n + 1 /\ DOMAIN outcomes' = 1..(n + 1)
         /\ outcomes'[n + 1] = o /\ \A i \in 1..n : outcomes'[i] = outcomes[i]
    BY <1>0, <2>1, <2>2
  <2>11. \A i \in DOMAIN outcomes' : i \in DOMAIN outcomes \/ i = n + 1
    BY <2>10
  <2>12. \A i \in DOMAIN outcomes' : \E x \in Row : x = outcomes'[i] /\ Answers(x)'
    <3>. SUFFICES ASSUME NEW i \in DOMAIN outcomes'
                  PROVE  \E x \in Row : x = outcomes'[i] /\ Answers(x)'
      OBVIOUS
    <3>1. CASE i \in DOMAIN outcomes
      <4>1. outcomes'[i] = outcomes[i] /\ outcomes[i] \in Row /\ Answers(outcomes[i])
        BY <1>0, <1>1, <2>10, <3>1
      <4>2. PICK x \in Row : x = outcomes[i]
        BY <4>1
      <4>3. Answers(x)
        BY <4>1, <4>2
      <4>. QED  BY <2>9, <4>1, <4>2, <4>3
    <3>2. CASE i = n + 1
      <4>1. PICK x \in Row : x = o
        BY <2>2
      <4>. QED  BY <2>8, <2>10, <3>2, <4>1
    <3>. QED  BY <2>11, <3>1, <3>2
  <2>13. /\ todo \in Seq(EdgeRow) /\ Len(todo) \in Nat /\ Len(todo) > 0 /\ 1 \in DOMAIN todo
         /\ e = todo[1] /\ Len(todo') = Len(todo) - 1 /\ todo' \in Seq(EdgeRow)
         /\ \A i \in DOMAIN todo' : i \in Int /\ i + 1 \in DOMAIN todo /\ todo'[i] = todo[i + 1]
         /\ Len(todo) # 1 => todo' # <<>>
    BY <1>0, <2>1, HeadAndTail
  <2>14. /\ n + Len(todo) = Len(req.edges)
         /\ \A i \in DOMAIN todo : todo[i] = req.edges[n + i]
    BY <1>1, <2>1
  <2>15. \A i \in DOMAIN outcomes' : outcomes'[i].edge = req.edges[i]
    BY <1>1, <2>4, <2>10, <2>11, <2>13, <2>14
  <2>16. \A i \in DOMAIN todo' : todo'[i] = req.edges[(n + 1) + i]
    <3>. SUFFICES ASSUME NEW i \in DOMAIN todo' PROVE todo'[i] = req.edges[(n + 1) + i]
      OBVIOUS
    <3>1. n + (i + 1) = (n + 1) + i
      BY <2>10, <2>13
    <3>. QED  BY <2>13, <2>14, <3>1
  <2>17. Len(outcomes') + Len(todo') = Len(req.edges)
         /\ (Len(todo) = 1 => Len(outcomes') = Len(req.edges))
    <3>1. n \in Nat /\ Len(outcomes') = n + 1 /\ n + Len(todo) = Len(req.edges)
          /\ Len(todo) \in Nat /\ Len(todo') = Len(todo) - 1
      BY <2>10, <2>13, <2>14
    <3>. DEFINE b == Len(todo)
                c == Len(req.edges)
                d == Len(outcomes')
                f == Len(todo')
    <3>2. n \in Nat /\ d = n + 1 /\ n + b = c /\ b \in Nat /\ f = b - 1
      BY <3>1
    <3>. HIDE DEF n, b, c, d, f
    <3>3. d + f = c /\ (b = 1 => d = c)
      BY <3>2
    <3>. QED  BY <3>3 DEF b, c, d, f
  <2>18. at' = "insert" /\ req'.op = "relate" =>
            rows'[Head(todo').source] # "unborn" /\ rows'[Head(todo').target] # "unborn"
    <3>1. req.op = "relate" => Len(todo) = 1
      <4>1. n \in Nat /\ n + Len(todo) = Len(req.edges) /\ Len(todo) \in Nat /\ Len(todo) > 0
            /\ at # "idle"
        BY <2>1, <2>10, <2>13, <2>14
      <4>. DEFINE b == Len(todo)
                  c == Len(req.edges)
      <4>2. n \in Nat /\ n + b = c /\ b \in Nat /\ b > 0 /\ (req.op = "relate" => c = 1)
        BY <1>2, <4>1
      <4>. HIDE DEF n, b, c
      <4>3. req.op = "relate" => b = 1
        BY <4>2
      <4>. QED  BY <4>3 DEF b
    <3>. QED  BY <2>1, <3>1
  <2>19. Len(req.edges) \in Nat
    BY <1>2, <2>1
  <2>20. \A i \in DOMAIN outcomes' :
            LET x == outcomes'[i].edge
            IN  IF outcomes'[i].created
                THEN \/ rows'[x.source] = "deleted" \/ rows'[x.target] = "deleted"
                     \/ \E f \in edges' : SameKey(f, x)
                ELSE \/ x.source = x.target \/ "insert" \in down'
                     \/ rows'[x.source] = "deleted" \/ rows'[x.target] = "deleted"
                     \/ req'.op = "relate_batch" /\ ~({x.source, x.target} \subseteq existing')
    <3>. SUFFICES ASSUME NEW i \in DOMAIN outcomes'
                  PROVE  LET x == outcomes'[i].edge
                         IN  IF outcomes'[i].created
                             THEN \/ rows'[x.source] = "deleted" \/ rows'[x.target] = "deleted"
                                  \/ \E f \in edges' : SameKey(f, x)
                             ELSE \/ x.source = x.target \/ "insert" \in down'
                                  \/ rows'[x.source] = "deleted" \/ rows'[x.target] = "deleted"
                                  \/ /\ req'.op = "relate_batch"
                                     /\ ~({x.source, x.target} \subseteq existing')
      OBVIOUS
    <3>1. PICK x \in Row : x = outcomes'[i] /\ Answers(x)'
      BY <2>12
    <3>. QED  BY <3>1 DEF Answers
  <2>. QED  BY <1>1, <2>1, <2>10, <2>13, <2>15, <2>16, <2>17, <2>18, <2>19, <2>20, Zenon
            DEF Accounted
<1>11. ASSUME NEW id \in Ids, Delete(id) PROVE Accounted'
  <2>1. \A e \in edges : \/ e \in edges'
                         \/ rows'[e.source] = "deleted" \/ rows'[e.target] = "deleted"
    BY <1>0, <1>11 DEF Delete
  <2>2. \A x \in Ids : /\ rows[x] = "deleted" => rows'[x] = "deleted"
                       /\ rows[x] # "unborn" => rows'[x] # "unborn"
    BY <1>0, <1>11 DEF Delete
  <2>. QED  BY <1>4, <1>11, <2>1, <2>2 DEF Delete, Write
<1>12. ASSUME NEW id \in Ids, NEW s \in Status, SetStatus(id, s) PROVE Accounted'
  <2>1. \A x \in Ids : /\ rows[x] = "deleted" => rows'[x] = "deleted"
                       /\ rows[x] # "unborn" => rows'[x] # "unborn"
    BY <1>0, <1>12 DEF SetStatus, Memories!After
  <2>. QED  BY <1>4, <1>12, <2>1 DEF SetStatus, Write
<1>13. ASSUME NEW e \in NewEdges, Link(e) PROVE Accounted'
  <2>1. edges \subseteq edges'
    BY <1>13 DEF Link, Linked
  <2>. QED  BY <1>4, <1>13, <2>1 DEF Link, Write
<1>14. ASSUME UNCHANGED vars PROVE Accounted'
  BY <1>4, <1>14 DEF vars
<1>. QED  BY <1>5, <1>6, <1>7, <1>8, <1>9, <1>10, <1>11, <1>12, <1>13, <1>14
          DEF Next, Step, Others

-----------------------------------------------------------------------------
(* The theorems.                                                           *)

THEOREM InvHolds == Spec => []Inv
<1>1. Inv /\ [Next]_vars => Inv'
  BY PlacedNext, TypedNext, RankedNext, WitnessedNext, CountedNext, AccountedNext DEF Inv
<1>. QED  BY InitInv, <1>1, PTL DEF Spec

\* Nothing is disclosed that was not a live memory of the bucket during the
\* request, whatever fails and whatever others write between two of its calls.
THEOREM ServedCorrect == Spec => []ServedWasRetrievable
<1>1. Inv => ServedWasRetrievable
  BY DEF Inv, Witnessed, Found, ServedWasRetrievable
<1>. QED  BY <1>1, InvHolds, PTL

\* Demand is recorded once for each memory served and for nothing else.
THEOREM DemandCorrect == Spec => []DemandIsServed
<1>1. Inv => DemandIsServed
  BY DEF Inv, Counted
<1>. QED  BY <1>1, InvHolds, PTL

\* Every edge of a request gets one answer, in order, that stays true.
THEOREM RelateCorrect == Spec => []RelateAccounts
<1>1. ASSUME Inv PROVE RelateAccounts
  <2>. USE DEF Inv
  <2>1. outcomes \in Seq([edge : EdgeRow, created : BOOLEAN])
    BY <1>1 DEF Typed
  <2>2. ASSUME at = "answered", req.op \in {"relate", "relate_batch"}
        PROVE  [i \in DOMAIN outcomes |-> outcomes[i].edge] = req.edges
    <3>1. req.edges \in Seq(EdgeRow)
      BY <1>1, <2>2, RequestIs DEF Placed
    <3>2. Len(outcomes) = Len(req.edges) /\ \A i \in DOMAIN outcomes : outcomes[i].edge = req.edges[i]
      BY <1>1, <2>2 DEF Accounted
    <3>3. DOMAIN outcomes = 1..Len(outcomes)
      BY <2>1
    <3>4. DOMAIN req.edges = 1..Len(req.edges)
          /\ req.edges = [i \in 1..Len(req.edges) |-> req.edges[i]]
      BY <3>1
    <3>. QED  BY <3>2, <3>3, <3>4
  <2>3. \A i \in DOMAIN outcomes :
          LET e == outcomes[i].edge
          IN  IF outcomes[i].created
              THEN \/ rows[e.source] = "deleted" \/ rows[e.target] = "deleted"
                   \/ \E f \in edges : SameKey(f, e)
              ELSE \/ e.source = e.target \/ "insert" \in down
                   \/ rows[e.source] = "deleted" \/ rows[e.target] = "deleted"
                   \/ req.op = "relate_batch" /\ ~({e.source, e.target} \subseteq existing)
    BY <1>1 DEF Accounted
  <2>. QED  BY <2>2, <2>3 DEF RelateAccounts, SameKey
<1>. QED  BY <1>1, InvHolds, PTL

-----------------------------------------------------------------------------
(* The digest of a context.                                                *)

\* What DigestSound says of a digest.
Sound(d) ==
    LET packed == d.packed
        score(id) == Composite(Fused(bhits, vhits, id), id)
    IN  /\ d.remaining >= 0
        /\ d.remaining + Spent(packed) = req.budget
        /\ \A i, j \in DOMAIN packed : i # j => ~Similar(packed[i], packed[j])
        /\ \A id \in kept \ Range(packed) :
              \/ CostOf[id] > d.remaining
              \/ \E better \in kept \ {id} :
                    Similar(id, better) /\ score(better) >= score(id)

Digested == req.op = "context" /\ at \in {"record", "edges", "answered"} => Sound(digest)

LEMMA AssembledIsSound ==
    ASSUME Inv, Assemble PROVE Sound(digest')
<1>. DEFINE d == digest'
            score(id) == Composite(Fused(bhits, vhits, id), id)
<1>1. IsRanking(Hits) /\ Range(Hits) = kept
  BY ContextServes
<1>2. PICK items : /\ Deduped(Hits, items, Len(Hits)) /\ IsRanking(items)
                   /\ Packed(items, req.budget, d, Len(items))
  BY ContextServes
<1>3. \A i, j \in DOMAIN Hits : i < j => score(Hits[i]) >= score(Hits[j])
  BY HitsAre DEF Inv, Placed, Typed, Ranked, Assemble
<1>. HIDE DEF d, score
<1>4. /\ d.packed \in Seq(Ids) /\ d.remaining \in Nat /\ IsInjective(d.packed)
      /\ \A i \in DOMAIN d.packed : \E m \in 1..Len(items) : d.packed[i] = items[m]
      /\ Spent(d.packed) + d.remaining = req.budget
      /\ \A m \in 1..Len(items) : items[m] \in Range(d.packed) \/ CostOf[items[m]] > d.remaining
  BY <1>2 DEF Packed
<1>5. /\ \A x, y \in Range(items) : x # y => ~Similar(x, y)
      /\ \A m \in 1..Len(Hits) :
            \/ Hits[m] \in Range(items)
            \/ \E k \in 1..(m - 1) : Hits[k] \in Range(items) /\ Similar(Hits[m], Hits[k])
  BY <1>2 DEF Deduped
<1>6. DOMAIN items = 1..Len(items) /\ \A m \in 1..Len(items) : items[m] \in Range(items)
  BY <1>2, RankInList
<1>7. /\ DOMAIN Hits = 1..Len(Hits) /\ Len(Hits) \in Nat
      /\ \A m \in 1..Len(Hits) : Hits[m] \in kept
      /\ \A i, j \in 1..Len(Hits) : Hits[i] = Hits[j] => i = j
  BY <1>1, RankInList DEF IsRanking, IsInjective
<1>8. d.remaining >= 0 /\ d.remaining + Spent(d.packed) = req.budget
  BY <1>4, SpentAppend
<1>9. ASSUME NEW i \in DOMAIN d.packed, NEW j \in DOMAIN d.packed, i # j
      PROVE  ~Similar(d.packed[i], d.packed[j])
  <2>1. d.packed[i] # d.packed[j]
    BY <1>4, <1>9 DEF IsInjective
  <2>2. d.packed[i] \in Range(items) /\ d.packed[j] \in Range(items)
    BY <1>4, <1>6
  <2>. QED  BY <1>5, <2>1, <2>2
<1>10. ASSUME NEW id \in kept \ Range(d.packed), ~(CostOf[id] > d.remaining)
       PROVE  \E better \in kept \ {id} : Similar(id, better) /\ score(better) >= score(id)
  <2>1. id \notin Range(items)
    <3>. SUFFICES ASSUME id \in Range(items) PROVE FALSE
      OBVIOUS
    <3>1. PICK m \in 1..Len(items) : items[m] = id
      BY <1>6 DEF Range
    <3>. QED  BY <1>4, <1>10, <3>1
  <2>2. PICK m \in 1..Len(Hits) : Hits[m] = id
    BY <1>1, <1>7 DEF Range
  <2>3. PICK k \in 1..(m - 1) : Similar(Hits[m], Hits[k])
    BY <1>5, <2>1, <2>2
  <2>4. k \in 1..Len(Hits) /\ k < m
    BY <1>7
  <2>5. Hits[k] \in kept /\ Hits[k] # id /\ score(Hits[k]) >= score(id)
    BY <1>3, <1>7, <2>2, <2>4
  <2>. QED  BY <2>2, <2>3, <2>5
<1>11. \A id \in kept \ Range(d.packed) :
            \/ CostOf[id] > d.remaining
            \/ \E better \in kept \ {id} : Similar(id, better) /\ score(better) >= score(id)
  BY <1>10
<1>. QED  BY <1>8, <1>9, <1>11 DEF Sound, d, score

\* Once assembled, nothing a digest is judged by moves.
LEMMA DigestedNext ==
    ASSUME Inv, Digested, [Next]_vars PROVE Digested'
<1>. USE DEF Inv
<1>. USE DEF tables, recall, answer, relating, ghosts, faults
<1>1. ASSUME req'.op # "context" \/ at' \notin {"record", "edges", "answered"}
      PROVE  Digested'
  BY <1>1 DEF Digested
<1>2. ASSUME digest' = digest, req' = req, kept' = kept, bhits' = bhits, vhits' = vhits,
             at' \in {"record", "edges", "answered"} =>
                at \in {"record", "edges", "answered"} \/ req.op # "context"
      PROVE  Digested'
  BY <1>2 DEF Digested, Sound
<1>3. ASSUME NEW r \in Requests, Begin(r) PROVE Digested'
  <2>1. r.op \in Searches \cup {"context", "graph", "relate", "relate_batch"}
    BY RequestIs
  <2>. QED  BY <1>1, <1>3, <2>1 DEF Begin, Searches
<1>4. ASSUME NEW ok \in BOOLEAN, VectorSearch(ok) \/ TextSearch(ok) PROVE Digested'
  BY <1>1, <1>4 DEF VectorSearch, TextSearch, Fusing, Failed, Placed, Searches
<1>5. ASSUME NEW ok \in BOOLEAN, Hydrate(ok) PROVE Digested'
  BY <1>1, <1>5 DEF Hydrate
<1>6. ASSUME NEW ok \in BOOLEAN, \/ Expand(ok) \/ RecordAccess(ok) \/ Edges(ok)
                                 \/ Validate(ok) \/ Exists(ok) \/ InsertEdge(ok)
      PROVE  Digested'
  <2>1. digest' = digest /\ req' = req /\ kept' = kept /\ bhits' = bhits /\ vhits' = vhits
    BY <1>6 DEF Expand, RecordAccess, Edges, Validate, Exists, InsertEdge
  <2>2. at \in {"record", "edges", "answered"} \/ req.op # "context"
    BY <1>6 DEF Expand, RecordAccess, Edges, Validate, Exists, InsertEdge, Placed
  <2>. QED  BY <1>2, <2>1, <2>2
<1>7. ASSUME Fuse PROVE Digested'
  BY <1>1, <1>7 DEF Fuse
<1>8. ASSUME Serve PROVE Digested'
  BY <1>1, <1>8 DEF Serve, Placed
<1>9. ASSUME Assemble PROVE Digested'
  <2>1. Sound(digest')
    BY <1>9, AssembledIsSound
  <2>2. Sound(digest)'
    BY <1>9, <2>1 DEF Assemble, Sound
  <2>. QED  BY <2>2 DEF Digested
<1>10. ASSUME Others PROVE Digested'
  BY <1>2, <1>10 DEF Others, Delete, SetStatus, Link, Write
<1>11. ASSUME UNCHANGED vars PROVE Digested'
  BY <1>2, <1>11 DEF vars
<1>. QED  BY <1>3, <1>4, <1>5, <1>6, <1>7, <1>8, <1>9, <1>10, <1>11 DEF Next, Step

\* A digest keeps to its budget, holds no near duplicates, and leaves a hit out
\* only for want of room or for a near duplicate that ranks as high.
THEOREM DigestCorrect == Spec => []DigestSound
<1>1. Init => Digested
  BY DEF Init, Digested
<1>2. Inv /\ Digested /\ [Next]_vars => Digested'
  BY DigestedNext
<1>3. Digested => DigestSound
  BY DEF Digested, DigestSound, Sound
<1>. QED  BY <1>1, <1>2, <1>3, InvHolds, PTL DEF Spec

-----------------------------------------------------------------------------
(* Two channels against one.                                               *)

\* An exact quotient.
LEMMA ExactQuotient ==
    ASSUME NEW q \in Nat, NEW b \in Nat, b > 0
    PROVE  (q * b) \div b = q
<1>. DEFINE d == (q * b) \div b
            m == (q * b) % b
<1>1. q * b \in Nat
  OBVIOUS
<1>2. d \in Int /\ m \in Int /\ 0 <= m /\ m < b /\ q * b = b * d + m
  BY <1>1
<1>. HIDE DEF d, m
<1>3. b * (q - d) = m
  BY <1>2
<1>4. q - d < 1
  <2>. SUFFICES ASSUME q - d >= 1 PROVE FALSE
    BY <1>2
  <2>1. b * (q - d) >= b
    BY <1>2
  <2>. QED  BY <1>2, <1>3, <2>1
<1>5. q - d > -1
  <2>. SUFFICES ASSUME q - d <= -1 PROVE FALSE
    BY <1>2
  <2>1. b * (q - d) <= -b
    BY <1>2
  <2>. QED  BY <1>2, <1>3, <2>1
<1>6. q = d
  BY <1>2, <1>4, <1>5
<1>. QED  BY <1>6 DEF d

\* Every K + rank divides the unit of the scores.
LEMMA RanksDivideUnit ==
    ASSUME NEW i \in 1..Cardinality(Ids)
    PROVE  \E q \in Nat : Unit = q * (K + i)
<1>. DEFINE C == Cardinality(Ids)
            Divides(n) == \E q \in Nat : Rising[n] = q * (K + i)
            S == {n \in Nat : i <= n /\ n <= C => Divides(n)}
<1>1. C \in Nat /\ K \in Nat /\ i \in Nat /\ i >= 1 /\ i <= C
  BY RisingIs, FusionAssumption
<1>2. \A n \in 0..C : /\ Rising[n] \in Nat
                      /\ Rising[n] = IF n = 0 THEN 1 ELSE (K + n) * Rising[n - 1]
  BY RisingIs
<1>3. Unit = Rising[C]
  BY DEF Unit
<1>. HIDE DEF C
<1>4. 0 \in S
  BY <1>1
<1>5. ASSUME NEW n \in S PROVE n + 1 \in S
  <2>. SUFFICES ASSUME i <= n + 1, n + 1 <= C PROVE Divides(n + 1)
    OBVIOUS
  <2>1. n \in Nat /\ n \in 0..C /\ n + 1 \in 0..C /\ (n + 1) - 1 = n /\ n + 1 # 0
    BY <1>1, <1>5
  <2>2. Rising[n + 1] = (K + (n + 1)) * Rising[n] /\ Rising[n] \in Nat
    <3>. HIDE DEF S
    <3>. QED  BY <1>2, <2>1
  <2>3. CASE i = n + 1
    <3>1. Rising[n + 1] = Rising[n] * (K + i)
      BY <1>1, <2>2, <2>3
    <3>. QED  BY <2>2, <3>1
  <2>4. CASE i <= n
    <3>1. PICK q \in Nat : Rising[n] = q * (K + i)
      BY <1>5, <2>1, <2>4
    <3>2. q * (K + (n + 1)) \in Nat
      BY <1>1, <2>1
    <3>3. Rising[n + 1] = (q * (K + (n + 1))) * (K + i)
      <4>. DEFINE a == K + (n + 1)
                  b == K + i
      <4>1. a \in Nat /\ b \in Nat
        BY <1>1, <2>1
      <4>2. Rising[n + 1] = a * (q * b)
        BY <2>2, <3>1
      <4>. HIDE DEF a, b
      <4>3. a * (q * b) = (q * a) * b
        BY <4>1
      <4>. QED  BY <4>2, <4>3 DEF a, b
    <3>. QED  BY <3>2, <3>3
  <2>. QED  BY <1>1, <2>1, <2>3, <2>4
<1>6. S = Nat
  <2>1. S \in SUBSET Nat
    OBVIOUS
  <2>. HIDE DEF S
  <2>. QED  BY <1>4, <1>5, <2>1, SetInduction
<1>7. C \in S
  BY <1>1, <1>6
<1>. QED  BY <1>1, <1>3, <1>7

\* A share, times K + rank, is the whole of the channel.
LEMMA ShareIs ==
    ASSUME NEW list, IsRanking(list), NEW weight \in Nat, NEW id \in Range(list)
    PROVE  /\ Share(list, weight, id) \in Nat
           /\ RankIn(list, id) \in Nat /\ RankIn(list, id) >= 1
           /\ Share(list, weight, id) * (K + RankIn(list, id)) = weight * Unit
<1>. DEFINE r == RankIn(list, id)
<1>1. r \in 1..Len(list) /\ Len(list) \in Nat
  BY RankInList
<1>2. Len(list) <= Cardinality(Ids) /\ Cardinality(Ids) \in Nat
  <2>1. Range(list) \in SUBSET Ids /\ IsFiniteSet(Ids) /\ Cardinality(Range(list)) = Len(list)
    BY RankInList, FusionAssumption
  <2>2. Cardinality(Range(list)) <= Cardinality(Ids) /\ Cardinality(Ids) \in Nat
    BY <2>1, FS_Subset, FS_CardinalityType
  <2>. QED  BY <2>1, <2>2
<1>3. r \in 1..Cardinality(Ids) /\ r \in Nat /\ r >= 1
  BY <1>1, <1>2
<1>. HIDE DEF r
<1>4. PICK q \in Nat : Unit = q * (K + r)
  BY <1>3, RanksDivideUnit
<1>. DEFINE b == K + r
<1>5. b \in Nat /\ b > 0
  BY <1>3, FusionAssumption
<1>6. Share(list, weight, id) = (weight * Unit) \div b
  BY DEF Share, r
<1>7. Unit = q * b
  BY <1>4
<1>. HIDE DEF b
<1>8. weight * Unit = (weight * q) * b /\ weight * q \in Nat
  BY <1>5, <1>7
<1>9. Share(list, weight, id) = weight * q
  BY <1>5, <1>6, <1>8, ExactQuotient
<1>. QED  BY <1>3, <1>8, <1>9 DEF b, r

\* The arithmetic: with M = A(K+p) = B(K+q) = C(K+r), two shares exceed one.
LEMMA TwoExceedOne ==
    ASSUME NEW k \in Nat, NEW A \in Nat, NEW B \in Nat, NEW C \in Nat,
           NEW p \in Nat, NEW q \in Nat, NEW r \in Nat, p <= k + 1, q <= k + 1, r >= 1,
           NEW M \in Nat, M > 0, A * (k + p) = M, B * (k + q) = M, C * (k + r) = M
    PROVE  A + B > C
<1>1. A * (k + p) <= A * (2 * k + 1)
  <2>1. k + p \in Nat /\ 2 * k + 1 \in Nat /\ k + p <= 2 * k + 1
    OBVIOUS
  <2>. DEFINE x == k + p
              y == 2 * k + 1
  <2>2. x \in Nat /\ y \in Nat /\ x <= y
    BY <2>1
  <2>. HIDE DEF x, y
  <2>3. A * x <= A * y
    BY <2>2
  <2>. QED  BY <2>3 DEF x, y
<1>2. B * (k + q) <= B * (2 * k + 1)
  <2>1. k + q \in Nat /\ 2 * k + 1 \in Nat /\ k + q <= 2 * k + 1
    OBVIOUS
  <2>. DEFINE x == k + q
              y == 2 * k + 1
  <2>2. x \in Nat /\ y \in Nat /\ x <= y
    BY <2>1
  <2>. HIDE DEF x, y
  <2>3. B * x <= B * y
    BY <2>2
  <2>. QED  BY <2>3 DEF x, y
<1>3. C * (k + 1) <= M
  <2>1. k + r \in Nat /\ k + 1 \in Nat /\ k + 1 <= k + r
    OBVIOUS
  <2>. DEFINE x == k + 1
              y == k + r
  <2>2. x \in Nat /\ y \in Nat /\ x <= y
    BY <2>1
  <2>. HIDE DEF x, y
  <2>3. C * x <= C * y
    BY <2>2
  <2>. QED  BY <2>3 DEF x, y
<1>. SUFFICES ASSUME A + B <= C PROVE FALSE
  OBVIOUS
<1>. DEFINE h == 2 * k + 1
<1>4. h \in Nat /\ 2 * (k + 1) = h + 1
  OBVIOUS
<1>5. (A + B) * h >= 2 * M
  <2>1. A * h >= M /\ B * h >= M
    BY <1>1, <1>2
  <2>. HIDE DEF h
  <2>2. (A + B) * h = A * h + B * h
    BY <1>4
  <2>. QED  BY <1>4, <2>1, <2>2
<1>6. C * (h + 1) <= 2 * M
  <2>1. C * (2 * (k + 1)) = 2 * (C * (k + 1))
    OBVIOUS
  <2>2. C * (k + 1) \in Nat
    OBVIOUS
  <2>. QED  BY <1>3, <1>4, <2>1, <2>2
<1>. HIDE DEF h
<1>7. C * (h + 1) = C * h + C
  BY <1>4
<1>8. (A + B) * h <= C * h
  BY <1>4
<1>9. C > 0
  <2>. SUFFICES ASSUME C = 0 PROVE FALSE
    OBVIOUS
  <2>. QED  OBVIOUS
<1>10. C * h \in Nat /\ (A + B) * h \in Nat
  BY <1>4
<1>. QED  BY <1>5, <1>6, <1>7, <1>8, <1>9, <1>10

\* With equal weights a memory both channels rank within K + 1 scores higher
\* than any that only one of them ranks.
LEMMA DualScoresMore ==
    ASSUME NEW bm25, IsRanking(bm25), NEW vector, IsRanking(vector),
           BmShare = VecShare, BmShare > 0,
           NEW a \in Range(bm25) \cap Range(vector), NEW b \in Range(bm25) \cup Range(vector),
           RankIn(bm25, a) <= K + 1, RankIn(vector, a) <= K + 1,
           b \notin Range(bm25) \cap Range(vector)
    PROVE  Fused(bm25, vector, a) > Fused(bm25, vector, b)
<1>. DEFINE w == BmShare
            M == w * Unit
<1>1. K \in Nat /\ w \in Nat /\ w > 0 /\ VecShare = w
  BY FusionAssumption
<1>2. Unit \in Nat /\ Unit > 0
  BY RisingIs DEF Unit
<1>3. M \in Nat /\ M > 0
  BY <1>1, <1>2
<1>. HIDE DEF w
<1>4. /\ Share(bm25, w, a) \in Nat /\ RankIn(bm25, a) \in Nat
      /\ Share(bm25, w, a) * (K + RankIn(bm25, a)) = M
  BY <1>1, ShareIs
<1>5. /\ Share(vector, w, a) \in Nat /\ RankIn(vector, a) \in Nat
      /\ Share(vector, w, a) * (K + RankIn(vector, a)) = M
  BY <1>1, ShareIs
<1>6. Fused(bm25, vector, a) = Share(bm25, w, a) + Share(vector, w, a)
  BY <1>1 DEF Fused, w
<1>7. PICK C \in Nat, r \in Nat : r >= 1 /\ Fused(bm25, vector, b) = C /\ C * (K + r) = M
  <2>1. Fused(bm25, vector, b) = Share(bm25, w, b) + Share(vector, w, b)
    BY <1>1 DEF Fused, w
  <2>2. CASE b \in Range(bm25)
    <3>1. /\ Share(bm25, w, b) \in Nat /\ RankIn(bm25, b) \in Nat /\ RankIn(bm25, b) >= 1
          /\ Share(bm25, w, b) * (K + RankIn(bm25, b)) = M
      BY <1>1, <2>2, ShareIs
    <3>2. Share(vector, w, b) = 0
      BY <2>2 DEF Share
    <3>. QED  BY <2>1, <3>1, <3>2
  <2>3. CASE b \in Range(vector)
    <3>1. /\ Share(vector, w, b) \in Nat /\ RankIn(vector, b) \in Nat /\ RankIn(vector, b) >= 1
          /\ Share(vector, w, b) * (K + RankIn(vector, b)) = M
      BY <1>1, <2>3, ShareIs
    <3>2. Share(bm25, w, b) = 0
      BY <2>3 DEF Share
    <3>. QED  BY <2>1, <3>1, <3>2
  <2>. QED  BY <2>2, <2>3
<1>. HIDE DEF M
<1>. QED  BY <1>1, <1>3, <1>4, <1>5, <1>6, <1>7, TwoExceedOne

\* Of the results of a fusion, the one that scores more comes first.
LEMMA RankedByScore ==
    ASSUME NEW bm25, IsRanking(bm25), NEW vector, IsRanking(vector), NEW limit \in Nat,
           NEW i \in DOMAIN RrfFuse(bm25, vector, limit),
           NEW j \in DOMAIN RrfFuse(bm25, vector, limit),
           Fused(bm25, vector, RrfFuse(bm25, vector, limit)[i])
             > Fused(bm25, vector, RrfFuse(bm25, vector, limit)[j])
    PROVE  i < j
<1>. DEFINE s == RrfFuse(bm25, vector, limit)
            ids == FusedIds(bm25, vector)
            before == FusedBefore(bm25, vector)
            all == Sorted(ids, before)
<1>1. /\ IsRanking(all) /\ Len(all) = Cardinality(ids) /\ Range(all) = ids
      /\ \A x, y \in 1..Cardinality(ids) : x < y <=> <<all[x], all[y]>> \in before
      /\ s = IF BmShare + VecShare = 0 THEN <<>> ELSE Truncate(all, limit)
  BY FuseRanks
<1>2. \A x, y \in ids : Fused(bm25, vector, x) > Fused(bm25, vector, y) => <<x, y>> \in before
  BY DEF FusedBefore
<1>. HIDE DEF s, all, ids, before
<1>3. BmShare + VecShare # 0
  BY <1>1 DEF s
<1>4. s = Truncate(all, limit)
  BY <1>1, <1>3
<1>5. /\ Len(s) = IF limit < Len(all) THEN limit ELSE Len(all)
      /\ IsRanking(s) /\ \A x \in 1..Len(s) : s[x] = all[x]
  BY <1>1, <1>4, TruncateRanks
<1>6. i \in 1..Len(s) /\ j \in 1..Len(s) /\ Len(all) \in Nat /\ Len(s) \in Nat
  BY <1>1, <1>5 DEF IsRanking, s
<1>7. i \in 1..Len(all) /\ j \in 1..Len(all)
  BY <1>5, <1>6
<1>8. all[i] \in ids /\ all[j] \in ids /\ Fused(bm25, vector, all[i]) > Fused(bm25, vector, all[j])
  BY <1>1, <1>5, <1>6, <1>7, RankInList DEF s
<1>. QED  BY <1>1, <1>2, <1>7, <1>8

\* A memory both channels find near the top precedes every one that only one
\* of them finds.
THEOREM DualChannelCorrect == Spec => []DualChannelWins
<1>1. ASSUME Inv PROVE DualChannelWins
  <2>. SUFFICES ASSUME at = "hydrate", BmShare = VecShare,
                       NEW a \in Range(bhits) \cap Range(vhits),
                       NEW b \in Range(bhits) \cup Range(vhits),
                       RankIn(bhits, a) <= K + 1, RankIn(vhits, a) <= K + 1,
                       b \notin Range(bhits) \cap Range(vhits),
                       NEW i \in DOMAIN Ranking, NEW j \in DOMAIN Ranking,
                       Ranking[i] = a, Ranking[j] = b
                PROVE  i < j
    BY DEF DualChannelWins
  <2>1. IsRanking(bhits) /\ IsRanking(vhits) /\ FusionLimit \in Nat
    BY <1>1, LimitsAre DEF Inv, Placed, Typed
  <2>2. BmShare > 0
    <3>. SUFFICES ASSUME BmShare = 0 PROVE FALSE
      BY FusionAssumption
    <3>1. Ranking = <<>>
      BY DEF Ranking, RrfFuse
    <3>. QED  BY <3>1
  <2>3. Fused(bhits, vhits, a) > Fused(bhits, vhits, b)
    BY <2>1, <2>2, DualScoresMore
  <2>. QED  BY <2>1, <2>3, RankedByScore DEF Ranking
<1>. QED  BY <1>1, InvHolds, PTL

-----------------------------------------------------------------------------
(* Full pages.                                                             *)

Least(m, n) == IF m < n THEN m ELSE n

\* What a channel that answered holds of a ranking, while nobody writes.
Answered(list) == Truncate(Only(list, Retrievable), Oversample)

\* A hybrid search that asks for everything and loses no hydration.
Unfiltered == req.wanted = Ids /\ req.threshold = 0 /\ "hydrate" \notin down

\* Which channels have failed so far; what a recall holds while nobody writes:
\* all that the channels that answered know, down to the page.
Recalled ==
    /\ at \in {"idle", "vector"} => down = {}
    /\ at = "text" => req.viable /\ down \subseteq {"vector"}
    /\ at \in {"idle", "vector", "text"} => bhits = <<>>
    /\ quiet /\ at # "idle" /\ req.op = "hybrid" =>
        /\ at \in {"text", "fuse", "hydrate", "record", "edges", "answered"} =>
             vhits = IF "vector" \in down THEN <<>> ELSE Answered(VectorRanking)
        /\ at \in {"fuse", "hydrate", "record", "edges", "answered"} =>
             bhits = IF req.viable /\ "text" \notin down THEN Answered(text) ELSE <<>>
        /\ at = "hydrate" /\ Unfiltered => kept \cup Range(missing) = Range(Ranking)
        /\ at \in {"record", "edges", "answered"} /\ Unfiltered =>
             /\ kept = Range(Ranking)
             /\ Cardinality(page) = Least(req.offset + req.limit, Cardinality(kept))
                                      - Least(req.offset, Cardinality(kept))

LEMMA NearestCount ==
    ASSUME NEW S, IsFiniteSet(S), NEW k \in Nat, NEW score, NEW T \in Nearest(S, k, score)
    PROVE  /\ T \subseteq S /\ IsFiniteSet(T)
           /\ Cardinality(T) = Least(k, Cardinality(S)) /\ Cardinality(S) \in Nat
<1>1. /\ T \in SUBSET S
      /\ Cardinality(T) = k \/ (Cardinality(T) < k /\ T = S)
  BY DEF Nearest
<1>2. IsFiniteSet(T) /\ Cardinality(T) <= Cardinality(S)
      /\ Cardinality(S) \in Nat /\ Cardinality(T) \in Nat
      /\ (Cardinality(S) = Cardinality(T) => S = T)
  BY <1>1, FS_Subset, FS_CardinalityType
<1>3. Cardinality(T) = Least(k, Cardinality(S))
  BY <1>1, <1>2 DEF Least
<1>. QED  BY <1>1, <1>2, <1>3

\* How many results skip and take leave.
LEMMA PageCount ==
    ASSUME NEW scores, IsFiniteSet(DOMAIN scores), NEW p \in Pages(scores),
           req.offset \in Nat, req.limit \in Nat
    PROVE  LET n == Cardinality(DOMAIN scores)
           IN  Cardinality(p) = Least(req.offset + req.limit, n) - Least(req.offset, n)
<1>. DEFINE S == DOMAIN scores
            n == Cardinality(S)
<1>1. PICK skipped \in Nearest(S, req.offset, scores),
           taken \in Nearest(S, req.offset + req.limit, scores) :
           skipped \subseteq taken /\ p = taken \ skipped
  BY DEF Pages
<1>2. req.offset + req.limit \in Nat
  OBVIOUS
<1>. HIDE DEF S
<1>3. /\ IsFiniteSet(taken) /\ Cardinality(taken) = Least(req.offset + req.limit, n)
      /\ IsFiniteSet(skipped) /\ Cardinality(skipped) = Least(req.offset, n)
      /\ n \in Nat
  BY <1>2, NearestCount DEF S
<1>4. Cardinality(p) = Cardinality(taken) - Cardinality(taken \cap skipped)
  BY <1>1, <1>3, FS_Difference
<1>5. taken \cap skipped = skipped
  BY <1>1
<1>. QED  BY <1>3, <1>4, <1>5 DEF S

\* A page of an unfiltered hybrid search is cut from all it kept.
LEMMA ServedCount ==
    ASSUME Inv, Serve, req.op = "hybrid", req.wanted = Ids
    PROVE  Cardinality(page') = Least(req.offset + req.limit, Cardinality(kept))
                                  - Least(req.offset, Cardinality(kept))
<1>1. req \in Requests /\ kept \in SUBSET Ids /\ IsFiniteSet(Ids)
  BY FusionAssumption DEF Inv, Placed, Typed, Serve
<1>2. req.offset \in Nat /\ req.limit \in Nat
  BY <1>1, RequestIs DEF Searches
<1>3. DOMAIN Results = kept
  BY DEF Results
<1>4. DOMAIN Filtered = kept
  BY <1>1, <1>3 DEF Filtered
<1>5. IsFiniteSet(kept)
  BY <1>1, FS_Subset
<1>6. page' \in Pages(Filtered)
  BY DEF Serve
<1>. QED  BY <1>2, <1>4, <1>5, <1>6, PageCount

LEMMA RangeOfTail ==
    ASSUME NEW S, NEW s \in Seq(S), s # <<>>
    PROVE  Range(s) = Range(Tail(s)) \cup {Head(s)}
<1>1. /\ Len(s) \in Nat /\ Len(s) > 0 /\ DOMAIN s = 1..Len(s) /\ Head(s) = s[1]
      /\ Tail(s) \in Seq(S) /\ Len(Tail(s)) = Len(s) - 1
      /\ DOMAIN Tail(s) = 1..(Len(s) - 1)
  OBVIOUS
<1>2. \A i \in 1..(Len(s) - 1) : Tail(s)[i] = s[i + 1]
  OBVIOUS
<1>3. \A i \in 1..Len(s) : i = 1 \/ (i - 1 \in 1..(Len(s) - 1) /\ s[i] = Tail(s)[i - 1])
  BY <1>1, <1>2
<1>4. Range(s) \subseteq Range(Tail(s)) \cup {Head(s)}
  <2>. SUFFICES ASSUME NEW i \in 1..Len(s) PROVE s[i] \in Range(Tail(s)) \cup {Head(s)}
    BY <1>1 DEF Range
  <2>1. CASE i = 1
    BY <1>1, <2>1
  <2>2. CASE i # 1
    BY <1>1, <1>3, <2>2 DEF Range
  <2>. QED  BY <2>1, <2>2
<1>5. Range(Tail(s)) \cup {Head(s)} \subseteq Range(s)
  <2>1. \A i \in 1..(Len(s) - 1) : i + 1 \in 1..Len(s)
    BY <1>1
  <2>2. 1 \in 1..Len(s)
    BY <1>1
  <2>. QED  BY <1>1, <1>2, <2>1, <2>2 DEF Range
<1>. QED  BY <1>4, <1>5

LEMMA AnsweredIs ==
    ASSUME Oversample \in Nat, NEW list, IsRanking(list)
    PROVE  /\ IsRanking(Answered(list)) /\ Range(Answered(list)) \subseteq Retrievable
           /\ Range(Answered(list)) \subseteq Range(list)
           /\ \/ Range(Answered(list)) = Range(list) \cap Retrievable
              \/ Cardinality(Range(Answered(list))) = Oversample
<1>. DEFINE o == Only(list, Retrievable)
            a == Answered(list)
<1>1. IsRanking(o) /\ Range(o) = Range(list) \cap Retrievable
  BY OnlyRanks
<1>2. a = Truncate(o, Oversample)
  BY DEF Answered
<1>. HIDE DEF o, a
<1>3. /\ IsRanking(a) /\ Range(a) \in SUBSET Range(o)
      /\ Len(a) = IF Oversample < Len(o) THEN Oversample ELSE Len(o)
      /\ \A i \in 1..Len(a) : a[i] = o[i]
  BY <1>1, <1>2, TruncateRanks
<1>4. /\ Len(o) \in Nat /\ Cardinality(Range(a)) = Len(a)
      /\ DOMAIN o = 1..Len(o) /\ DOMAIN a = 1..Len(a)
  BY <1>1, <1>3, RankInList
<1>5. CASE Oversample < Len(o)
  BY <1>1, <1>3, <1>4, <1>5 DEF a
<1>6. CASE ~(Oversample < Len(o))
  <2>1. Range(a) = Range(o)
    BY <1>3, <1>4, <1>6 DEF Range
  <2>. QED  BY <1>1, <1>3, <2>1 DEF a
<1>. QED  BY <1>5, <1>6

LEMMA RecalledNext ==
    ASSUME Inv, Recalled, [Next]_vars PROVE Recalled'
<1>. USE DEF Inv
<1>. USE DEF tables, recall, answer, relating, ghosts, faults
<1>. DEFINE late == {"fuse", "hydrate", "record", "edges", "answered"}
            later == {"text", "fuse", "hydrate", "record", "edges", "answered"}
            hybrid == quiet /\ at # "idle" /\ req.op = "hybrid"
            vs == IF "vector" \in down THEN <<>> ELSE Answered(VectorRanking)
            bs == IF req.viable /\ "text" \notin down THEN Answered(text) ELSE <<>>
            size == Least(req.offset + req.limit, Cardinality(kept))
                      - Least(req.offset, Cardinality(kept))
<1>0. /\ at \in {"idle", "vector"} => down = {}
      /\ at = "text" => req.viable /\ down \subseteq {"vector"}
      /\ at \in {"idle", "vector", "text"} => bhits = <<>>
      /\ hybrid /\ at \in later => vhits = vs
      /\ hybrid /\ at \in late => bhits = bs
      /\ hybrid /\ at = "hydrate" /\ Unfiltered => kept \cup Range(missing) = Range(Ranking)
      /\ hybrid /\ at \in {"record", "edges", "answered"} /\ Unfiltered =>
            kept = Range(Ranking) /\ Cardinality(page) = size
  BY DEF Recalled
\* It is enough to follow a hybrid search while nobody writes.
<1>1. ASSUME ~(quiet' /\ at' # "idle" /\ req'.op = "hybrid"),
             at' \notin {"idle", "vector", "text"}
      PROVE  Recalled'
  BY <1>1 DEF Recalled
<1>2. ASSUME rows' = rows, text' = text, req' = req, down' = down \/ down' = down \cup {at},
             at \notin {"vector", "text"}
      PROVE  vs' = vs /\ bs' = bs /\ (Unfiltered' => Unfiltered)
  <2>1. Retrievable' = Retrievable /\ Oversample' = Oversample
    BY <1>2 DEF Retrievable, Live, Oversample, FusionLimit, Pool
  <2>2. Answered(VectorRanking)' = Answered(VectorRanking) /\ Answered(text)' = Answered(text)
    BY <1>2, <2>1 DEF Answered
  <2>. QED  BY <1>2, <2>2 DEF Unfiltered
<1>3. ASSUME req' = req, vhits' = vhits, bhits' = bhits PROVE Ranking' = Ranking
  BY <1>3 DEF Ranking, FusionLimit, Pool
<1>4. ASSUME NEW ok \in BOOLEAN, Call(ok) PROVE down' = down \/ down' = down \cup {at}
  BY <1>4 DEF Call, faults
<1>5. ASSUME NEW r \in Requests, Begin(r) PROVE Recalled'
  <2>1. r.op \in Searches \cup {"context", "graph", "relate", "relate_batch"}
    BY RequestIs
  <2>2. at' \in {"vector", "expand", "validate", "exists"} /\ down' = {} /\ bhits' = <<>>
    BY <1>0, <1>5, <2>1 DEF Begin, Searches
  <2>. QED  BY <2>2 DEF Recalled
<1>6. ASSUME NEW ok \in BOOLEAN, VectorSearch(ok) PROVE Recalled'
  <2>1. /\ at = "vector" /\ down = {} /\ bhits = <<>> /\ bhits' = <<>> /\ Call(ok)
        /\ rows' = rows /\ text' = text /\ req' = req /\ quiet' = quiet
    BY <1>0, <1>6 DEF VectorSearch
  <2>2. (ok => down' = {}) /\ (~ok => down' = {"vector"})
    BY <2>1 DEF Call, faults
  <2>3. req.op \in Searches \cup {"context"}
    BY <2>1 DEF Placed
  <2>4. at' \in {"text", "fuse", "serve", "expand", Failed}
    BY <1>6, <2>3 DEF VectorSearch, Fusing, Searches
  <2>5. ASSUME req.op = "hybrid"
        PROVE  /\ vhits' = vs' /\ at' \in {"text", "fuse"}
               /\ at' = "fuse" => bs' = <<>>
    <3>1. Fusing /\ VectorLimit = Oversample
      BY <2>5 DEF Fusing, VectorLimit
    <3>2. Retrievable' = Retrievable /\ Oversample' = Oversample
      BY <2>1 DEF Retrievable, Live, Oversample, FusionLimit, Pool
    <3>3. Answered(VectorRanking)' = Answered(VectorRanking)
      BY <3>2 DEF Answered
    <3>4. vhits' = IF ok THEN Answered(VectorRanking) ELSE <<>>
      BY <1>6, <3>1 DEF VectorSearch, Answered
    <3>5. at' = IF req.viable THEN "text" ELSE "fuse"
      BY <1>6, <2>5, <3>1 DEF VectorSearch
    <3>. QED  BY <2>1, <2>2, <3>3, <3>4, <3>5
  <2>6. at' = "text" => req.viable
    BY <1>6, <2>3 DEF VectorSearch, Fusing, Searches, Failed
  <2>. QED  BY <2>1, <2>2, <2>4, <2>5, <2>6 DEF Recalled, Failed
<1>7. ASSUME NEW ok \in BOOLEAN, TextSearch(ok) PROVE Recalled'
  <2>1. /\ at = "text" /\ down \subseteq {"vector"} /\ Call(ok) /\ at' = "fuse"
        /\ rows' = rows /\ text' = text /\ req' = req /\ quiet' = quiet /\ vhits' = vhits
    BY <1>0, <1>7 DEF TextSearch
  <2>2. (ok => down' = down) /\ (~ok => down' = down \cup {"text"})
    BY <2>1 DEF Call, faults
  <2>3. Retrievable' = Retrievable /\ Oversample' = Oversample
    BY <2>1 DEF Retrievable, Live, Oversample, FusionLimit, Pool
  <2>4. Answered(VectorRanking)' = Answered(VectorRanking) /\ Answered(text)' = Answered(text)
    BY <2>1, <2>3 DEF Answered
  <2>5. bhits' = IF ok THEN Answered(text) ELSE <<>>
    BY <1>7 DEF TextSearch, Answered, Matches
  <2>6. "text" \in down' <=> ~ok
    BY <2>1, <2>2
  <2>7. "vector" \in down' <=> "vector" \in down
    BY <2>2
  <2>8. req.viable
    BY <1>0, <2>1
  <2>9. bhits' = bs'
    BY <2>1, <2>4, <2>5, <2>6, <2>8
  <2>10. hybrid => vhits' = vs'
    BY <1>0, <2>1, <2>4, <2>7
  <2>. QED  BY <2>1, <2>9, <2>10 DEF Recalled
<1>8. ASSUME Fuse PROVE Recalled'
  <2>1. /\ at = "fuse" /\ at' = "hydrate" /\ rows' = rows /\ text' = text /\ req' = req
        /\ down' = down /\ quiet' = quiet /\ vhits' = vhits /\ bhits' = bhits
    BY <1>8 DEF Fuse
  <2>2. vs' = vs /\ bs' = bs /\ Ranking' = Ranking
    BY <1>2, <1>3, <2>1
  <2>3. hybrid => vhits' = vs' /\ bhits' = bs'
    BY <1>0, <2>1, <2>2
  <2>4. hybrid /\ Unfiltered => kept' \cup Range(missing') = Range(Ranking)
    <3>. SUFFICES ASSUME hybrid, Unfiltered PROVE kept' \cup Range(missing') = Range(Ranking)
      OBVIOUS
    <3>1. req \in Requests /\ Fusing /\ IsRanking(vhits) /\ IsRanking(bhits)
      BY <2>1 DEF Placed, Typed
    <3>2. IsRanking(Ranking) /\ IsRanking(Relevant)
      BY <3>1, RankingIs
    <3>3. \A id : ClearsFloor(Fused(bhits, vhits, id), 0)
      <4>1. \A id : Fused(bhits, vhits, id) \in Nat /\ FusedMax \in Nat
        BY <3>1, FusedNumber
      <4>. QED  BY <4>1 DEF ClearsFloor
    <3>4. {id \in Range(Ranking) :
                ClearsFloor(Fused(bhits, vhits, id), IF req.op = "context" THEN 0
                                                     ELSE req.threshold)} = Range(Ranking)
      BY <3>3 DEF Unfiltered
    <3>5. Range(Relevant) = Range(Ranking)
      <4>1. Range(Only(Ranking, Range(Ranking))) = Range(Ranking) \cap Range(Ranking)
        BY <3>2, OnlyRanks
      <4>. QED  BY <3>4, <4>1 DEF Relevant
    <3>6. Range(missing') = Range(Relevant) \cap (Ids \ Range(vhits))
      <4>1. Range(Only(Relevant, Ids \ Range(vhits))) = Range(Relevant) \cap (Ids \ Range(vhits))
        BY <3>2, OnlyRanks
      <4>. QED  BY <1>8, <4>1 DEF Fuse
    <3>7. kept' = Range(Relevant) \cap Range(vhits)
      BY <1>8 DEF Fuse
    <3>8. Range(Relevant) \in SUBSET Ids
      BY <3>2, RankInList
    <3>. QED  BY <3>5, <3>6, <3>7, <3>8
  <2>5. Unfiltered' = Unfiltered
    BY <2>1 DEF Unfiltered
  <2>. QED  BY <2>1, <2>2, <2>3, <2>4, <2>5 DEF Recalled
<1>9. ASSUME NEW ok \in BOOLEAN, Hydrate(ok) PROVE Recalled'
  <2>1. /\ at = "hydrate" /\ at' = at /\ rows' = rows /\ text' = text /\ req' = req
        /\ quiet' = quiet /\ vhits' = vhits /\ bhits' = bhits /\ Call(ok)
        /\ missing # <<>> /\ missing' = Tail(missing)
        /\ kept' = IF ok /\ Present(Head(missing)) THEN kept \cup {Head(missing)} ELSE kept
    BY <1>9 DEF Hydrate
  <2>2. vs' = vs /\ bs' = bs /\ Ranking' = Ranking /\ (Unfiltered' => Unfiltered)
    BY <1>2, <1>3, <1>4, <2>1
  <2>3. hybrid => vhits' = vs' /\ bhits' = bs'
    BY <1>0, <2>1, <2>2
  <2>4. hybrid /\ Unfiltered' => kept' \cup Range(missing') = Range(Ranking)
    <3>. SUFFICES ASSUME hybrid, Unfiltered' PROVE kept' \cup Range(missing') = Range(Ranking)
      OBVIOUS
    <3>1. ok
      BY <2>1, CallIs DEF Unfiltered
    <3>2. kept \cup Range(missing) = Range(Ranking)
      BY <1>0, <2>1, <2>2
    <3>3. IsRanking(missing) /\ IsRanking(vhits) /\ IsRanking(bhits) /\ IsRanking(text)
          /\ req \in Requests /\ Fusing
      BY <2>1 DEF Placed, Typed
    <3>4. missing \in Seq(Ids)
      BY <3>3 DEF IsRanking
    <3>5. Range(missing) = Range(Tail(missing)) \cup {Head(missing)}
      BY <2>1, <3>4, RangeOfTail
    <3>6. Range(vhits) \subseteq Retrievable /\ Range(bhits) \subseteq Retrievable
      <4>1. Oversample \in Nat
        BY <3>3, LimitsAre
      <4>2. \A list : IsRanking(list) => Range(Answered(list)) \subseteq Retrievable
        BY <4>1, AnsweredIs
      <4>3. Range(<<>>) = {}
        BY DEF Range
      <4>4. IsRanking(VectorRanking)
        BY RetrievalAssumption
      <4>. QED  BY <1>0, <2>1, <3>3, <4>2, <4>3, <4>4
    <3>7. Range(Ranking) \subseteq Range(bhits) \cup Range(vhits)
      BY <3>3, RankingIs
    <3>8. Head(missing) \in Retrievable
      BY <3>2, <3>5, <3>6, <3>7
    <3>9. Present(Head(missing))
      BY <3>8 DEF Retrievable, Live, Present
    <3>. QED  BY <2>1, <3>1, <3>2, <3>5, <3>9
  <2>. QED  BY <2>1, <2>2, <2>3, <2>4 DEF Recalled
<1>10. ASSUME Serve PROVE Recalled'
  <2>1. /\ at \in {"serve", "hydrate"} /\ at' = "record" /\ rows' = rows /\ text' = text
        /\ req' = req /\ down' = down /\ quiet' = quiet /\ vhits' = vhits /\ bhits' = bhits
        /\ kept' = kept
    BY <1>10 DEF Serve
  <2>2. vs' = vs /\ bs' = bs /\ Ranking' = Ranking /\ (Unfiltered' => Unfiltered)
    BY <1>2, <1>3, <2>1
  <2>3. ASSUME hybrid
        PROVE  at = "hydrate" /\ missing = <<>> /\ vhits' = vs' /\ bhits' = bs'
    <3>1. at = "hydrate" /\ missing = <<>>
      BY <1>10, <2>1, <2>3 DEF Serve, Placed
    <3>. QED  BY <1>0, <2>1, <2>2, <2>3, <3>1
  <2>4. ASSUME hybrid, Unfiltered
        PROVE  kept' = Range(Ranking) /\ Cardinality(page') = size'
    <3>1. Range(missing) = {}
      BY <2>3, <2>4 DEF Range
    <3>2. kept = Range(Ranking)
      BY <1>0, <2>3, <2>4, <3>1
    <3>3. Cardinality(page') = size
      BY <1>10, <2>4, ServedCount DEF Unfiltered
    <3>. QED  BY <2>1, <3>2, <3>3
  <2>. QED  BY <2>1, <2>2, <2>3, <2>4 DEF Recalled
<1>11. ASSUME Assemble PROVE Recalled'
  BY <1>1, <1>11 DEF Assemble
<1>12. ASSUME NEW ok \in BOOLEAN, RecordAccess(ok) \/ Edges(ok) PROVE Recalled'
  <2>1. /\ at \in {"record", "edges"} /\ at' \in {"edges", "answered"} /\ Call(ok)
        /\ rows' = rows /\ text' = text /\ req' = req /\ quiet' = quiet
        /\ vhits' = vhits /\ bhits' = bhits /\ kept' = kept
        /\ req.op # "graph" => page' = page
    BY <1>12 DEF RecordAccess, Edges
  <2>2. vs' = vs /\ bs' = bs /\ Ranking' = Ranking /\ (Unfiltered' => Unfiltered)
    BY <1>2, <1>3, <1>4, <2>1
  <2>3. hybrid => vhits' = vs' /\ bhits' = bs'
    BY <1>0, <2>1, <2>2
  <2>4. ASSUME hybrid, Unfiltered' PROVE kept' = Range(Ranking) /\ Cardinality(page') = size'
    <3>1. kept = Range(Ranking) /\ Cardinality(page) = size
      BY <1>0, <2>1, <2>2, <2>4
    <3>. QED  BY <2>1, <2>4, <3>1
  <2>. QED  BY <2>1, <2>2, <2>3, <2>4 DEF Recalled
<1>13. ASSUME NEW ok \in BOOLEAN, \/ Expand(ok) \/ Validate(ok) \/ Exists(ok) \/ InsertEdge(ok)
       PROVE  Recalled'
  <2>1. req' = req /\ req.op # "hybrid"
    BY <1>13 DEF Expand, Validate, Exists, InsertEdge, Placed
  <2>2. at' \notin {"idle", "vector", "text"}
    BY <1>13 DEF Expand, Validate, Exists, InsertEdge, Failed
  <2>. QED  BY <1>1, <2>1, <2>2
<1>14. ASSUME Others PROVE Recalled'
  <2>1. ~quiet' /\ at' = at /\ req' = req /\ down' = down /\ bhits' = bhits
    BY <1>14 DEF Others, Delete, SetStatus, Link, Write
  <2>. QED  BY <1>0, <2>1 DEF Recalled
<1>15. ASSUME UNCHANGED vars PROVE Recalled'
  <2>1. /\ rows' = rows /\ text' = text /\ req' = req /\ down' = down /\ quiet' = quiet
        /\ at' = at /\ vhits' = vhits /\ bhits' = bhits /\ kept' = kept /\ missing' = missing
        /\ page' = page
    BY <1>15 DEF vars
  <2>2. Retrievable' = Retrievable /\ Oversample' = Oversample
    BY <2>1 DEF Retrievable, Live, Oversample, FusionLimit, Pool
  <2>3. vs' = vs /\ bs' = bs /\ Ranking' = Ranking /\ Unfiltered' = Unfiltered
    BY <1>3, <2>1, <2>2 DEF Answered, Unfiltered
  <2>. QED  BY <1>0, <2>1, <2>3 DEF Recalled
<1>. QED  BY <1>5, <1>6, <1>7, <1>8, <1>9, <1>10, <1>11, <1>12, <1>13, <1>14, <1>15
          DEF Next, Step

LEMMA FullInRange ==
    ASSUME NEW off \in Nat, NEW lim \in Nat, NEW n \in Nat
    PROVE  Least(off + lim, n) - Least(off, n) \in 0..lim
  BY DEF Least

\* While nobody writes and no hydration fails, an unfiltered hybrid search fills
\* its page, whatever its offset and whichever channel is down.
THEOREM PageCorrect == Spec => []PageFull
<1>1. Init => Recalled
  BY DEF Init, Recalled
<1>2. Inv /\ Recalled /\ [Next]_vars => Recalled'
  BY RecalledNext
<1>3. ASSUME Inv, Recalled PROVE PageFull
  <2>. SUFFICES ASSUME req.op = "hybrid", at \in {"record", "edges", "answered"}, quiet,
                       "hydrate" \notin down, BmShare + VecShare > 0,
                       req.wanted = Ids, req.threshold = 0
                PROVE  Cardinality(page) =
                        CHOOSE n \in 0..req.limit :
                            \/ req.offset + n = Cardinality(Candidates) /\ n <= req.limit
                            \/ n = req.limit /\ req.offset + n < Cardinality(Candidates)
                            \/ n = 0 /\ req.offset >= Cardinality(Candidates)
    BY DEF PageFull
  <2>1. /\ vhits = IF "vector" \in down THEN <<>> ELSE Answered(VectorRanking)
        /\ bhits = IF req.viable /\ "text" \notin down THEN Answered(text) ELSE <<>>
        /\ kept = Range(Ranking)
        /\ Cardinality(page) = Least(req.offset + req.limit, Cardinality(kept))
                                 - Least(req.offset, Cardinality(kept))
    BY <1>3 DEF Recalled, Unfiltered
  <2>2. /\ req \in Requests /\ Fusing /\ IsRanking(text) /\ IsRanking(bhits) /\ IsRanking(vhits)
        /\ IsRanking(VectorRanking) /\ Bucket \subseteq Ids /\ IsFiniteSet(Ids)
    BY <1>3, RetrievalAssumption, FusionAssumption DEF Inv, Placed, Typed, Fusing
  <2>3. /\ req.offset \in Nat /\ req.limit \in Nat /\ Pool \in Nat /\ FusionLimit = Pool
        /\ Pool >= req.offset + req.limit /\ Oversample = 2 * Pool /\ Oversample \in Nat
    BY <2>2, LimitsAre, RequestIs DEF Searches
  <2>. DEFINE found == FusedIds(bhits, vhits)
  <2>4. found \subseteq Candidates
    <3>1. Range(<<>>) = {}
      BY DEF Range
    <3>2. Range(vhits) \subseteq Candidates
      BY <2>1, <2>2, <2>3, <3>1, AnsweredIs DEF Candidates
    <3>3. Range(bhits) \subseteq Candidates
      BY <2>1, <2>2, <2>3, <3>1, AnsweredIs DEF Candidates
    <3>. QED  BY <3>2, <3>3 DEF FusedIds
  <2>5. IsFiniteSet(Candidates) /\ Cardinality(Candidates) \in Nat
    <3>1. Candidates \in SUBSET Ids
      BY <2>2 DEF Candidates, Retrievable
    <3>. QED  BY <2>2, <3>1, FS_Subset, FS_CardinalityType
  <2>6. IsFiniteSet(found) /\ Cardinality(found) \in Nat
        /\ Cardinality(found) <= Cardinality(Candidates)
    BY <2>4, <2>5, FS_Subset, FS_CardinalityType
  <2>7. Cardinality(found) = Cardinality(Candidates) \/ Cardinality(found) >= Pool
    <3>1. CASE /\ "vector" \notin down => Range(vhits) = Range(VectorRanking) \cap Retrievable
               /\ req.viable /\ "text" \notin down => Range(bhits) = Range(text) \cap Retrievable
      <4>1. Candidates \subseteq found
        BY <3>1 DEF Candidates, FusedIds
      <4>2. Candidates = found
        BY <2>4, <4>1
      <4>. QED  BY <4>2
    <3>2. CASE "vector" \notin down /\ Range(vhits) # Range(VectorRanking) \cap Retrievable
      <4>1. Cardinality(Range(vhits)) = Oversample
        BY <2>1, <2>2, <2>3, <3>2, AnsweredIs
      <4>2. Range(vhits) \in SUBSET found
        BY DEF FusedIds
      <4>3. Cardinality(Range(vhits)) <= Cardinality(found)
        BY <2>6, <4>2, FS_Subset
      <4>. QED  BY <2>3, <2>6, <4>1, <4>3
    <3>3. CASE req.viable /\ "text" \notin down
               /\ Range(bhits) # Range(text) \cap Retrievable
      <4>1. Cardinality(Range(bhits)) = Oversample
        BY <2>1, <2>2, <2>3, <3>3, AnsweredIs
      <4>2. Range(bhits) \in SUBSET found
        BY DEF FusedIds
      <4>3. Cardinality(Range(bhits)) <= Cardinality(found)
        BY <2>6, <4>2, FS_Subset
      <4>. QED  BY <2>3, <2>6, <4>1, <4>3
    <3>. QED  BY <3>1, <3>2, <3>3
  <2>8. Cardinality(kept) = Least(Pool, Cardinality(found))
    <3>. DEFINE all == Sorted(found, FusedBefore(bhits, vhits))
    <3>1. /\ IsRanking(all) /\ Len(all) = Cardinality(found)
          /\ Ranking = IF BmShare + VecShare = 0 THEN <<>> ELSE Truncate(all, Pool)
      BY <2>2, <2>3, FuseRanks DEF Ranking
    <3>. HIDE DEF all, found
    <3>2. Ranking = Truncate(all, Pool)
      BY <3>1
    <3>3. IsRanking(Ranking) /\ Len(Ranking) = IF Pool < Len(all) THEN Pool ELSE Len(all)
      BY <2>3, <3>1, <3>2, TruncateRanks
    <3>4. Cardinality(Range(Ranking)) = Len(Ranking)
      BY <3>3, RankInList
    <3>. QED  BY <2>1, <3>1, <3>3, <3>4 DEF Least
  <2>. HIDE DEF found
  <2>9. Least(req.offset + req.limit, Cardinality(kept)) - Least(req.offset, Cardinality(kept)) =
        CHOOSE n \in 0..req.limit :
            \/ req.offset + n = Cardinality(Candidates) /\ n <= req.limit
            \/ n = req.limit /\ req.offset + n < Cardinality(Candidates)
            \/ n = 0 /\ req.offset >= Cardinality(Candidates)
    <3>. DEFINE off == req.offset
                lim == req.limit
                m == Cardinality(Candidates)
                u == Cardinality(found)
                n == Cardinality(kept)
                pool == Pool
    <3>1. off \in Nat /\ lim \in Nat /\ pool \in Nat /\ pool >= off + lim
      BY <2>3
    <3>2. m \in Nat /\ u \in Nat /\ u <= m /\ (u = m \/ u >= pool) /\ n = Least(pool, u)
      BY <2>5, <2>6, <2>7, <2>8
    <3>. HIDE DEF off, lim, m, u, n, pool
    <3>3. n \in Nat
      BY <3>1, <3>2 DEF Least
    <3>. DEFINE p == Least(off + lim, n) - Least(off, n)
                Counts(x) == \/ off + x = m /\ x <= lim
                             \/ x = lim /\ off + x < m
                             \/ x = 0 /\ off >= m
    <3>4. \A x \in 0..lim : Counts(x) <=> x = p
      BY <3>1, <3>2 DEF Least
    <3>5. p \in 0..lim
      BY <3>1, <3>3, FullInRange
    <3>. HIDE DEF Counts, p
    <3>6. p = CHOOSE x \in 0..lim : Counts(x)
      BY <3>4, <3>5
    <3>. QED  BY <3>6 DEF off, lim, m, n, p, Counts
  <2>. QED  BY <2>1, <2>9
<1>. QED  BY <1>1, <1>2, <1>3, InvHolds, PTL DEF Spec

-----------------------------------------------------------------------------
(* Expansion: the paths of the recursive query against the balls of Within. *)

LEMMA ImageIsFinite ==
    ASSUME NEW f, IsFiniteSet(DOMAIN f)
    PROVE  IsFiniteSet({f[x] : x \in DOMAIN f})
<1>. DEFINE S == DOMAIN f
            T == {f[x] : x \in S}
            g == [x \in S |-> f[x]]
<1>1. g \in [S -> T] /\ \A y \in T : \E x \in S : g[x] = y
  OBVIOUS
<1>2. g \in Surjection(S, T)
  <2>. HIDE DEF g, S, T
  <2>. QED  BY <1>1 DEF Surjection
<1>. HIDE DEF g
<1>. QED  BY <1>2, FS_Surjection

\* A finite set of integers has a largest element: the one with the fewest above.
LEMMA LargestIs ==
    ASSUME NEW S \in SUBSET Int, IsFiniteSet(S), S # {}
    PROVE  \E m \in S : \A x \in S : x <= m
<1>. DEFINE Above(m) == {x \in S : x > m}
            counts == {Cardinality(Above(m)) : m \in S}
<1>1. \A m \in S : /\ Above(m) \in SUBSET S /\ IsFiniteSet(Above(m))
                   /\ Cardinality(Above(m)) \in Nat
  <2>. TAKE m \in S
  <2>1. Above(m) \in SUBSET S
    OBVIOUS
  <2>. HIDE DEF Above
  <2>. QED  BY <2>1, FS_Subset, FS_CardinalityType
<1>2. counts \in SUBSET Nat /\ counts # {}
  BY <1>1
<1>3. PICK c \in counts : \A d \in counts : c <= d
  <2>1. IsWellFoundedOn(OpToRel(<, Nat), Nat)
    BY NatLessThanWellFounded
  <2>. HIDE DEF counts
  <2>2. PICK c \in counts : \A d \in counts : ~(<<d, c>> \in OpToRel(<, Nat))
    BY <1>2, <2>1, WFMin
  <2>3. \A d \in counts : ~(d < c)
    BY <1>2, <2>2 DEF OpToRel
  <2>. QED  BY <1>2, <2>3
<1>4. PICK m \in S : c = Cardinality(Above(m))
  OBVIOUS
<1>5. ASSUME NEW x \in S, ~(x <= m) PROVE FALSE
  <2>1. Above(x) \in SUBSET Above(m) /\ x \in Above(m) /\ x \notin Above(x)
    <3>1. x \in Int /\ m \in Int /\ m < x /\ \A y \in S : y \in Int
      BY <1>5
    <3>2. \A y \in S : y > x => y > m
      BY <3>1
    <3>3. Above(x) \subseteq Above(m)
      BY <3>2
    <3>4. x \in Above(m) /\ x \notin Above(x)
      BY <3>1
    <3>. QED  BY <3>3, <3>4
  <2>2. /\ Cardinality(Above(x)) <= Cardinality(Above(m))
        /\ Cardinality(Above(m)) = Cardinality(Above(x)) => Above(m) = Above(x)
    <3>1. IsFiniteSet(Above(m))
      BY <1>1
    <3>. HIDE DEF Above
    <3>. QED  BY <2>1, <3>1, FS_Subset
  <2>3. Cardinality(Above(m)) <= Cardinality(Above(x))
    BY <1>3, <1>4
  <2>4. Cardinality(Above(m)) \in Nat /\ Cardinality(Above(x)) \in Nat
    BY <1>1
  <2>. HIDE DEF Above
  <2>. QED  BY <2>1, <2>2, <2>3, <2>4
<1>. QED  BY <1>5

\* One hop from S, as Within takes it.
Hop(S) == {to \in Passable :
             \E e \in edges :
                \/ e.source \in S /\ e.target = to
                \/ e.kind = "auto" /\ e.target \in S /\ e.source = to}

Balls(f, id, n) ==
    /\ f \in [0..n -> SUBSET Ids]
    /\ f[0] = {id}
    /\ \A i \in 1..n : f[i] = f[i - 1] \cup Hop(f[i - 1])

LEMMA PassableIds == Passable \subseteq Ids /\ \A S : Hop(S) \subseteq Ids
BY RetrievalAssumption DEF Passable, Hop

LEMMA BallIs ==
    ASSUME NEW id \in Ids, NEW n \in Nat
    PROVE  \E f : Balls(f, id, n) /\ Within(id, n) = f[n]
<1>. DEFINE V == SUBSET Ids
            step == [i \in 1..n |-> [S \in V |-> S \cup Hop(S)]]
            Eq(f) == f = [k \in 0..n |-> IF k = 0 THEN {id} ELSE f[k - 1] \cup Hop(f[k - 1])]
            got == CHOOSE f : Eq(f)
<1>1. Within(id, n) = got[n]
  BY DEF Within, Hop
<1>2. \A S \in V : S \cup Hop(S) \in V
  BY PassableIds
<1>3. step \in [1..n -> [V -> V]]
  BY <1>2
<1>4. PICK f \in [0..n -> V] : f[0] = {id} /\ \A i \in 1..n : f[i] = step[i][f[i - 1]]
  <2>1. {id} \in V
    OBVIOUS
  <2>. HIDE DEF step, V
  <2>2. \E f \in [0..n -> V] : Recurs(f, n, {id}, step)
    BY <1>3, <2>1, RecursiveOn
  <2>. QED  BY <2>2 DEF Recurs
<1>5. Eq(f)
  <2>1. ASSUME NEW i \in 1..n PROVE f[i] = f[i - 1] \cup Hop(f[i - 1])
    <3>1. i - 1 \in 0..n
      OBVIOUS
    <3>2. f[i - 1] \in V
      BY <3>1
    <3>. QED  BY <1>4, <3>2
  <2>2. \A i \in 0..n : i = 0 \/ i \in 1..n
    OBVIOUS
  <2>. QED  BY <1>4, <2>1, <2>2
<1>6. Eq(got)
  <2>. HIDE DEF Eq
  <2>. QED  BY <1>5
<1>. HIDE DEF got
<1>7. \A i \in 0..n : got[i] = IF i = 0 THEN {id} ELSE got[i - 1] \cup Hop(got[i - 1])
  BY <1>6
<1>. DEFINE M == {i \in Nat : i <= n => got[i] = f[i]}
<1>8. M = Nat
  <2>1. 0 \in M
    <3>1. 0 \in 0..n
      OBVIOUS
    <3>2. got[0] = {id}
      BY <1>7, <3>1
    <3>. QED  BY <1>4, <3>2
  <2>2. ASSUME NEW i \in M PROVE i + 1 \in M
    <3>. SUFFICES ASSUME i + 1 <= n PROVE got[i + 1] = f[i + 1]
      OBVIOUS
    <3>1. i \in Nat /\ got[i] = f[i] /\ i + 1 \in 1..n /\ i + 1 \in 0..n /\ i \in 0..n
          /\ (i + 1) - 1 = i /\ i + 1 # 0
      BY <2>2
    <3>2. f[i] \in V
      BY <3>1
    <3>3. f[i + 1] = f[i] \cup Hop(f[i])
      BY <1>4, <3>1, <3>2
    <3>. HIDE DEF M
    <3>. QED  BY <1>7, <3>1, <3>3
  <2>3. M \in SUBSET Nat
    OBVIOUS
  <2>. HIDE DEF M
  <2>. QED  BY <2>1, <2>2, <2>3, SetInduction
<1>9. got = f
  <2>1. \A i \in 0..n : got[i] = f[i]
    BY <1>8
  <2>2. got = [i \in 0..n |-> got[i]]
    BY <1>6
  <2>. QED  BY <2>1, <2>2
<1>10. \A i \in 1..n : f[i] = f[i - 1] \cup Hop(f[i - 1])
  <2>. TAKE i \in 1..n
  <2>1. i \in 0..n /\ i # 0
    OBVIOUS
  <2>. QED  BY <1>7, <1>9, <2>1
<1>. QED  BY <1>1, <1>4, <1>9, <1>10 DEF Balls

\* The ball of radius n + 1 is the ball of radius n and its hops.
LEMMA WithinGrows ==
    ASSUME NEW id \in Ids
    PROVE  /\ Within(id, 0) = {id}
           /\ \A n \in Nat : /\ Within(id, n) \in SUBSET Ids
                             /\ Within(id, n + 1) = Within(id, n) \cup Hop(Within(id, n))
<1>1. Within(id, 0) = {id}
  <2>1. PICK f : Balls(f, id, 0) /\ Within(id, 0) = f[0]
    BY BallIs
  <2>. QED  BY <2>1 DEF Balls
<1>2. ASSUME NEW n \in Nat
      PROVE  /\ Within(id, n) \in SUBSET Ids
             /\ Within(id, n + 1) = Within(id, n) \cup Hop(Within(id, n))
  <2>1. PICK f : Balls(f, id, n) /\ Within(id, n) = f[n]
    BY BallIs
  <2>2. PICK g : Balls(g, id, n + 1) /\ Within(id, n + 1) = g[n + 1]
    BY BallIs
  <2>3. f \in [0..n -> SUBSET Ids] /\ f[0] = {id}
        /\ \A i \in 1..n : f[i] = f[i - 1] \cup Hop(f[i - 1])
    BY <2>1 DEF Balls
  <2>4. g[0] = {id} /\ \A i \in 1..(n + 1) : g[i] = g[i - 1] \cup Hop(g[i - 1])
    BY <2>2 DEF Balls
  <2>. DEFINE M == {i \in Nat : i <= n => g[i] = f[i]}
  <2>5. M = Nat
    <3>1. 0 \in M
      BY <2>3, <2>4
    <3>2. ASSUME NEW i \in M PROVE i + 1 \in M
      <4>. SUFFICES ASSUME i + 1 <= n PROVE g[i + 1] = f[i + 1]
        OBVIOUS
      <4>1. g[i] = f[i] /\ i + 1 \in 1..n /\ i + 1 \in 1..(n + 1) /\ (i + 1) - 1 = i
        BY <3>2
      <4>. HIDE DEF M
      <4>. QED  BY <2>3, <2>4, <4>1
    <3>3. M \in SUBSET Nat
      OBVIOUS
    <3>. HIDE DEF M
    <3>. QED  BY <3>1, <3>2, <3>3, SetInduction
  <2>6. g[n] = f[n] /\ n + 1 \in 1..(n + 1) /\ (n + 1) - 1 = n /\ n \in 0..n
    BY <2>5
  <2>7. g[n + 1] = g[n] \cup Hop(g[n])
    BY <2>4, <2>6
  <2>8. f[n] \in SUBSET Ids
    BY <2>3, <2>6
  <2>. QED  BY <2>1, <2>2, <2>6, <2>7, <2>8
<1>. QED  BY <1>1, <1>2

\* A larger ball holds the smaller one.
LEMMA WithinWider ==
    ASSUME NEW id \in Ids, NEW m \in Nat, NEW n \in Nat, m <= n
    PROVE  Within(id, m) \subseteq Within(id, n)
<1>. DEFINE M == {k \in Nat : Within(id, m) \subseteq Within(id, m + k)}
<1>1. 0 \in M
  OBVIOUS
<1>2. ASSUME NEW k \in M PROVE k + 1 \in M
  <2>1. k \in Nat /\ m + k \in Nat /\ m + (k + 1) = (m + k) + 1
        /\ Within(id, m) \subseteq Within(id, m + k)
    OBVIOUS
  <2>2. Within(id, (m + k) + 1) = Within(id, m + k) \cup Hop(Within(id, m + k))
    BY <2>1, WithinGrows
  <2>. QED  BY <2>1, <2>2
<1>3. M = Nat
  <2>1. M \in SUBSET Nat
    OBVIOUS
  <2>. HIDE DEF M
  <2>. QED  BY <1>1, <1>2, <2>1, SetInduction
<1>4. n - m \in Nat /\ m + (n - m) = n
  OBVIOUS
<1>. QED  BY <1>3, <1>4

PathRow == [path : Seq(Ids), w : Nat]

PathSets == {S \in SUBSET PathRow : IsFiniteSet(S)}

\* The edges table, and what an expansion starts from.
Walkable == edges \in SUBSET EdgeRow /\ IsFiniteSet(edges)
SeedSets == {S \in SUBSET [id : Ids, score : Nat] : IsFiniteSet(S)}

LEMMA LongerIs ==
    ASSUME Walkable, NEW paths \in PathSets
    PROVE  Longer(paths, edges, Passable) \in PathSets
<1>. DEFINE ends(p, e) == {n \in Follows(e, p.path[Len(p.path)]) :
                              n \in Passable /\ ~OnPath(n, p.path)}
            one(p, e) == {[path |-> Append(p.path, to), w |-> p.w * e.weight] :
                             to \in ends(p, e)}
            family == {one(p, e) : p \in paths, e \in edges}
<1>1. Longer(paths, edges, Passable) = UNION family
  BY DEF Longer
<1>2. ASSUME NEW p \in paths, NEW e \in edges
      PROVE  IsFiniteSet(one(p, e)) /\ one(p, e) \in SUBSET PathRow
  <2>1. p \in PathRow /\ e \in EdgeRow
    BY DEF PathSets, Walkable
  <2>2. /\ p.path \in Seq(Ids) /\ p.w \in Nat
        /\ e.source \in Ids /\ e.target \in Ids /\ e.weight \in Nat
    BY <2>1 DEF PathRow, EdgeRow
  <2>3. ends(p, e) \in SUBSET {e.source, e.target}
    BY DEF Follows
  <2>. DEFINE f == [to \in ends(p, e) |-> [path |-> Append(p.path, to), w |-> p.w * e.weight]]
  <2>4. IsFiniteSet(ends(p, e))
    <3>1. IsFiniteSet({e.source, e.target})
      <4>1. IsFiniteSet({e.source})
        BY FS_Singleton
      <4>2. IsFiniteSet({e.source} \cup {e.target})
        BY <4>1, FS_AddElement
      <4>3. {e.source} \cup {e.target} = {e.source, e.target}
        OBVIOUS
      <4>. QED  BY <4>2, <4>3
    <3>. HIDE DEF ends
    <3>. QED  BY <2>3, <3>1, FS_Subset
  <2>5. p.w * e.weight \in Nat
    BY <2>2
  <2>6. one(p, e) \in SUBSET PathRow
    <3>1. ASSUME NEW to \in ends(p, e)
          PROVE  [path |-> Append(p.path, to), w |-> p.w * e.weight] \in PathRow
      <4>1. to \in Ids
        BY <2>2, <2>3
      <4>2. Append(p.path, to) \in Seq(Ids)
        BY <2>2, <4>1
      <4>. QED  BY <2>5, <4>2 DEF PathRow
    <3>. HIDE DEF ends
    <3>. QED  BY <3>1
  <2>. HIDE DEF ends
  <2>7. DOMAIN f = ends(p, e) /\ {f[x] : x \in DOMAIN f} = one(p, e)
    OBVIOUS
  <2>. HIDE DEF f, one
  <2>. QED  BY <2>4, <2>6, <2>7, ImageIsFinite
<1>. HIDE DEF one
<1>3. IsFiniteSet(family)
  <2>. DEFINE f == [x \in paths \X edges |-> one(x[1], x[2])]
  <2>1. IsFiniteSet(paths \X edges)
    BY FS_Product DEF PathSets, Walkable
  <2>2. DOMAIN f = paths \X edges /\ {f[x] : x \in DOMAIN f} = family
    <3>1. \A p \in paths, e \in edges : <<p, e>> \in paths \X edges /\ f[<<p, e>>] = one(p, e)
      OBVIOUS
    <3>2. family \subseteq {f[x] : x \in DOMAIN f}
      <4>. SUFFICES ASSUME NEW p \in paths, NEW e \in edges
                    PROVE  \E x \in DOMAIN f : one(p, e) = f[x]
        OBVIOUS
      <4>1. DOMAIN f = paths \X edges
        OBVIOUS
      <4>. HIDE DEF f
      <4>. QED  BY <3>1, <4>1
    <3>3. {f[x] : x \in DOMAIN f} \subseteq family
      OBVIOUS
    <3>. QED  BY <3>2, <3>3
  <2>. HIDE DEF f, family
  <2>. QED  BY <2>1, <2>2, ImageIsFinite
<1>4. \A T \in family : IsFiniteSet(T) /\ T \subseteq PathRow
  BY <1>2
<1>. HIDE DEF family
<1>5. IsFiniteSet(UNION family) /\ UNION family \subseteq PathRow
  BY <1>3, <1>4, FS_UNION
<1>. QED  BY <1>1, <1>5 DEF PathSets

\* The rows of the recursive query, level by level.
LEMMA PathsAre ==
    ASSUME Walkable, NEW seeds \in SeedSets, NEW n \in Nat
    PROVE  LET p == PathsTo(seeds, edges, Passable, n)
           IN  /\ p \in [0..n -> PathSets]
               /\ p[0] = {[path |-> <<s.id>>, w |-> s.score] : s \in seeds}
               /\ \A i \in 1..n : p[i] = Longer(p[i - 1], edges, Passable)
<1>. DEFINE base == {[path |-> <<s.id>>, w |-> s.score] : s \in seeds}
            V == PathSets
            step == [i \in 1..n |-> [S \in V |-> Longer(S, edges, Passable)]]
            Eq(f) == f = [d \in 0..n |-> IF d = 0 THEN base
                                         ELSE Longer(f[d - 1], edges, Passable)]
            got == CHOOSE f : Eq(f)
<1>1. PathsTo(seeds, edges, Passable, n) = got
  BY DEF PathsTo
<1>2. base \in V
  <2>. DEFINE f == [s \in seeds |-> [path |-> <<s.id>>, w |-> s.score]]
  <2>1. DOMAIN f = seeds /\ {f[x] : x \in DOMAIN f} = base
    OBVIOUS
  <2>2. IsFiniteSet(base)
    <3>1. IsFiniteSet(seeds)
      BY DEF SeedSets
    <3>. HIDE DEF f, base
    <3>. QED  BY <2>1, <3>1, ImageIsFinite
  <2>3. \A s \in seeds : s.id \in Ids /\ s.score \in Nat
    BY DEF SeedSets
  <2>4. \A s \in seeds : [path |-> <<s.id>>, w |-> s.score] \in PathRow
    <3>. TAKE s \in seeds
    <3>1. <<s.id>> \in Seq(Ids)
      BY <2>3
    <3>. QED  BY <2>3, <3>1 DEF PathRow
  <2>5. base \in SUBSET PathRow
    BY <2>4
  <2>. QED  BY <2>2, <2>5 DEF PathSets
<1>3. step \in [1..n -> [V -> V]]
  BY LongerIs
<1>. HIDE DEF base
<1>4. PICK f \in [0..n -> V] : f[0] = base /\ \A i \in 1..n : f[i] = step[i][f[i - 1]]
  <2>. HIDE DEF step, V
  <2>2. \E f \in [0..n -> V] : Recurs(f, n, base, step)
    BY <1>2, <1>3, RecursiveOn
  <2>. QED  BY <2>2 DEF Recurs
<1>5. \A i \in 1..n : f[i] = Longer(f[i - 1], edges, Passable)
  <2>. TAKE i \in 1..n
  <2>1. i - 1 \in 0..n
    OBVIOUS
  <2>2. f[i - 1] \in V
    BY <2>1
  <2>. HIDE DEF V
  <2>. QED  BY <1>4, <2>2
<1>6. Eq(f)
  <2>2. \A i \in 0..n : i = 0 \/ i \in 1..n
    OBVIOUS
  <2>. HIDE DEF V
  <2>. QED  BY <1>4, <1>5, <2>2
<1>7. Eq(got)
  <2>. HIDE DEF Eq
  <2>. QED  BY <1>6
<1>. HIDE DEF got, V
<1>8. \A i \in 0..n : got[i] = IF i = 0 THEN base ELSE Longer(got[i - 1], edges, Passable)
  BY <1>7
<1>. DEFINE M == {i \in Nat : i <= n => got[i] = f[i]}
<1>9. M = Nat
  <2>1. 0 \in M
    <3>1. 0 \in 0..n
      OBVIOUS
    <3>2. got[0] = base
      BY <1>8, <3>1
    <3>. QED  BY <1>4, <3>2
  <2>2. ASSUME NEW i \in M PROVE i + 1 \in M
    <3>. SUFFICES ASSUME i + 1 <= n PROVE got[i + 1] = f[i + 1]
      OBVIOUS
    <3>1. i \in Nat /\ got[i] = f[i] /\ i + 1 \in 1..n /\ i + 1 \in 0..n
          /\ (i + 1) - 1 = i /\ i + 1 # 0
      BY <2>2
    <3>. HIDE DEF M
    <3>. QED  BY <1>5, <1>8, <3>1
  <2>3. M \in SUBSET Nat
    OBVIOUS
  <2>. HIDE DEF M
  <2>. QED  BY <2>1, <2>2, <2>3, SetInduction
<1>10. got = f
  <2>1. \A i \in 0..n : got[i] = f[i]
    BY <1>9
  <2>2. got = [i \in 0..n |-> got[i]]
    BY <1>7
  <2>. QED  BY <1>4, <2>1, <2>2
<1>. QED  BY <1>1, <1>4, <1>5, <1>10 DEF base, V

\* A path of k hops from a seed: no node twice, the i-th within i - 1 hops.
Shaped(p, k, seeds) ==
    /\ p \in PathRow /\ Len(p.path) = k + 1
    /\ \E s \in seeds : s.id = p.path[1]
    /\ \A i, j \in 1..(k + 1) : p.path[i] = p.path[j] => i = j
    /\ \A i \in 1..(k + 1) : p.path[i] \in Within(p.path[1], i - 1)

\* A path with one more node.
LEMMA LongerIsShaped ==
    ASSUME NEW seeds \in SeedSets, NEW k \in Nat, NEW p, Shaped(p, k, seeds),
           NEW e \in edges, Walkable,
           NEW to \in Follows(e, p.path[Len(p.path)]), to \in Passable, ~OnPath(to, p.path)
    PROVE  Shaped([path |-> Append(p.path, to), w |-> p.w * e.weight], k + 1, seeds)
<1>. DEFINE c == p.path
            d == Append(c, to)
            q == [path |-> d, w |-> p.w * e.weight]
<1>1. /\ c \in Seq(Ids) /\ p.w \in Nat /\ Len(c) = k + 1
      /\ e.source \in Ids /\ e.target \in Ids /\ e.weight \in Nat
  BY DEF Shaped, PathRow, Walkable, EdgeRow
<1>2. to \in Ids
  BY PassableIds
<1>3. d \in Seq(Ids) /\ Len(d) = k + 2 /\ d[k + 2] = to /\ \A i \in 1..(k + 1) : d[i] = c[i]
  BY <1>1, <1>2
<1>4. q \in PathRow /\ q.path = d
  <2>1. p.w * e.weight \in Nat
    BY <1>1
  <2>. HIDE DEF d
  <2>. QED  BY <1>3, <2>1 DEF PathRow
<1>5. d[1] = c[1] /\ c[1] \in Ids
  BY <1>1, <1>3
<1>6. \A i \in 1..(k + 1) : c[i] # to
  BY <1>1 DEF OnPath
<1>7. /\ \E s \in seeds : s.id = c[1]
      /\ \A i, j \in 1..(k + 1) : c[i] = c[j] => i = j
      /\ \A i \in 1..(k + 1) : c[i] \in Within(c[1], i - 1)
  BY DEF Shaped
<1>8. to \in Within(c[1], k + 1)
  <2>1. c[k + 1] \in Within(c[1], k)
    <3>1. k + 1 \in 1..(k + 1) /\ (k + 1) - 1 = k
      OBVIOUS
    <3>. QED  BY <1>7, <3>1
  <2>2. to \in Hop(Within(c[1], k))
    BY <1>1, <2>1 DEF Follows, Hop
  <2>. QED  BY <1>5, <2>2, WithinGrows
<1>. HIDE DEF c, d, q
<1>9. \A i \in 1..(k + 2) : i = k + 2 \/ i \in 1..(k + 1)
  OBVIOUS
<1>10. \A i, j \in 1..(k + 2) : d[i] = d[j] => i = j
  BY <1>3, <1>6, <1>7, <1>9
<1>11. \A i \in 1..(k + 2) : d[i] \in Within(d[1], i - 1)
  <2>. TAKE i \in 1..(k + 2)
  <2>1. CASE i = k + 2
    <3>1. i - 1 = k + 1
      BY <2>1
    <3>. QED  BY <1>3, <1>5, <1>8, <2>1, <3>1
  <2>2. CASE i \in 1..(k + 1)
    BY <1>3, <1>5, <1>7, <2>2
  <2>. QED  BY <1>9, <2>1, <2>2
<1>12. (k + 1) + 1 = k + 2
  OBVIOUS
<1>13. Shaped(q, k + 1, seeds)
  BY <1>3, <1>4, <1>5, <1>7, <1>10, <1>11, <1>12 DEF Shaped
<1>. QED  BY <1>13 DEF c, d, q

LEMMA LongerHas ==
    ASSUME NEW paths, NEW links, NEW passable, NEW p \in paths, NEW e \in links,
           NEW to \in Follows(e, p.path[Len(p.path)]), to \in passable, ~OnPath(to, p.path)
    PROVE  [path |-> Append(p.path, to), w |-> p.w * e.weight]
             \in Longer(paths, links, passable)
<1>. DEFINE ends(r, f) == {n \in Follows(f, r.path[Len(r.path)]) :
                              n \in passable /\ ~OnPath(n, r.path)}
            row(r, f, n) == [path |-> Append(r.path, n), w |-> r.w * f.weight]
            one(r, f) == {row(r, f, n) : n \in ends(r, f)}
<1>1. Longer(paths, links, passable) = UNION {one(r, f) : r \in paths, f \in links}
  BY DEF Longer
<1>2. to \in ends(p, e)
  OBVIOUS
<1>. HIDE DEF ends
<1>3. row(p, e, to) \in one(p, e)
  BY <1>2
<1>. HIDE DEF one
<1>4. one(p, e) \in {one(r, f) : r \in paths, f \in links}
  OBVIOUS
<1>. QED  BY <1>1, <1>3, <1>4

\* Every row of the query is a path through the balls.
LEMMA PathsInBalls ==
    ASSUME Walkable, NEW seeds \in SeedSets, NEW n \in Nat, NEW k \in 0..n,
           NEW p \in PathsTo(seeds, edges, Passable, n)[k]
    PROVE  Shaped(p, k, seeds)
<1>. DEFINE level(i) == PathsTo(seeds, edges, Passable, n)[i]
            M == {i \in Nat : i <= n => \A q \in level(i) : Shaped(q, i, seeds)}
<1>1. 0 \in M
  <2>. SUFFICES ASSUME NEW q \in level(0) PROVE Shaped(q, 0, seeds)
    OBVIOUS
  <2>1. PICK s \in seeds : q = [path |-> <<s.id>>, w |-> s.score]
    BY PathsAre
  <2>2. s.id \in Ids /\ s.score \in Nat
    BY DEF SeedSets
  <2>3. /\ q \in PathRow /\ Len(q.path) = 1 /\ q.path[1] = s.id
    BY <2>1, <2>2 DEF PathRow
  <2>4. Within(s.id, 0) = {s.id}
    BY <2>2, WithinGrows
  <2>5. \A i \in 1..(0 + 1) : i = 1 /\ i - 1 = 0
    OBVIOUS
  <2>. QED  BY <2>3, <2>4, <2>5 DEF Shaped
<1>2. ASSUME NEW i \in M PROVE i + 1 \in M
  <2>. SUFFICES ASSUME i + 1 <= n, NEW q \in level(i + 1) PROVE Shaped(q, i + 1, seeds)
    OBVIOUS
  <2>1. i \in Nat /\ i + 1 \in 1..n /\ (i + 1) - 1 = i /\ \A r \in level(i) : Shaped(r, i, seeds)
    BY <1>2
  <2>2. q \in Longer(level(i), edges, Passable)
    BY <2>1, PathsAre
  <2>. HIDE DEF level
  <2>3. PICK r \in level(i), e \in edges :
            q \in {[path |-> Append(r.path, to), w |-> r.w * e.weight] :
                      to \in {x \in Follows(e, r.path[Len(r.path)]) :
                                 x \in Passable /\ ~OnPath(x, r.path)}}
    BY <2>2 DEF Longer
  <2>4. PICK to \in Follows(e, r.path[Len(r.path)]) :
            /\ to \in Passable /\ ~OnPath(to, r.path)
            /\ q = [path |-> Append(r.path, to), w |-> r.w * e.weight]
    BY <2>3
  <2>5. Shaped(r, i, seeds)
    BY <2>1
  <2>. QED  BY <2>1, <2>4, <2>5, LongerIsShaped
<1>3. M = Nat
  <2>1. M \in SUBSET Nat
    OBVIOUS
  <2>. HIDE DEF M
  <2>. QED  BY <1>1, <1>2, <2>1, SetInduction
<1>. QED  BY <1>3

\* Every node of a ball is the end of a row of the query.
LEMMA BallsByPaths ==
    ASSUME Walkable, NEW seeds \in SeedSets, NEW n \in Nat, NEW s \in seeds, NEW k \in 0..n,
           NEW id \in Within(s.id, k)
    PROVE  \E j \in 0..k : \E p \in PathsTo(seeds, edges, Passable, n)[j] :
                p.path[1] = s.id /\ p.path[j + 1] = id
<1>. DEFINE lev(i) == PathsTo(seeds, edges, Passable, n)[i]
            Ends(i, x) == \E j \in 0..i : \E p \in lev(j) : p.path[1] = s.id /\ p.path[j + 1] = x
            M == {i \in Nat : i <= n => \A x \in Within(s.id, i) : Ends(i, x)}
<1>0. s.id \in Ids /\ s.score \in Nat
  BY DEF SeedSets
<1>1. 0 \in M
  <2>. SUFFICES ASSUME NEW x \in Within(s.id, 0) PROVE Ends(0, x)
    OBVIOUS
  <2>1. x = s.id
    BY <1>0, WithinGrows
  <2>. DEFINE p == [path |-> <<s.id>>, w |-> s.score]
  <2>2. p \in lev(0)
    BY PathsAre
  <2>3. p.path[1] = s.id
    OBVIOUS
  <2>. HIDE DEF lev, p
  <2>4. 0 \in 0..0 /\ 0 + 1 = 1
    OBVIOUS
  <2>. QED  BY <2>1, <2>2, <2>3, <2>4
<1>2. ASSUME NEW i \in M PROVE i + 1 \in M
  <2>. SUFFICES ASSUME i + 1 <= n, NEW x \in Within(s.id, i + 1) PROVE Ends(i + 1, x)
    OBVIOUS
  <2>1. i \in Nat /\ i <= n /\ i + 1 \in Nat /\ \A y \in Within(s.id, i) : Ends(i, y)
    BY <1>2
  <2>. HIDE DEF lev
  <2>2. CASE x \in Within(s.id, i)
    <3>1. Ends(i, x)
      BY <2>1, <2>2
    <3>2. \A j \in 0..i : j \in 0..(i + 1)
      BY <2>1
    <3>. QED  BY <3>1, <3>2
  <2>3. CASE x \notin Within(s.id, i)
    <3>1. x \in Hop(Within(s.id, i))
      BY <1>0, <2>1, <2>3, WithinGrows
    <3>2. PICK e \in edges : \/ e.source \in Within(s.id, i) /\ e.target = x
                             \/ e.kind = "auto" /\ e.target \in Within(s.id, i) /\ e.source = x
      BY <3>1 DEF Hop
    <3>3. x \in Passable
      BY <3>1 DEF Hop
    <3>4. PICK y \in Within(s.id, i) : x \in Follows(e, y)
      BY <3>2 DEF Follows
    <3>5. Ends(i, y)
      BY <2>1
    <3>6. PICK j \in 0..i : \E p \in lev(j) : p.path[1] = s.id /\ p.path[j + 1] = y
      BY <3>5
    <3>7. PICK p \in lev(j) : p.path[1] = s.id /\ p.path[j + 1] = y
      BY <3>6
    <3>8. j \in Nat /\ j \in 0..n /\ j + 1 \in 1..n /\ (j + 1) - 1 = j /\ j + 1 \in 0..(i + 1)
          /\ (j + 1) + 1 = j + 2
      BY <2>1
    <3>9. Shaped(p, j, seeds)
      BY <3>8, PathsInBalls DEF lev
    <3>10. Len(p.path) = j + 1 /\ DOMAIN p.path = 1..(j + 1)
           /\ \A m \in 1..(j + 1) : p.path[m] \in Within(s.id, m - 1)
      BY <3>7, <3>8, <3>9 DEF Shaped, PathRow
    <3>11. ~OnPath(x, p.path)
      <4>1. ASSUME NEW m \in 1..(j + 1) PROVE p.path[m] # x
        <5>1. m - 1 \in Nat /\ m - 1 <= i
          BY <2>1, <3>8
        <5>2. Within(s.id, m - 1) \subseteq Within(s.id, i)
          BY <1>0, <2>1, <5>1, WithinWider
        <5>. QED  BY <2>3, <3>10, <5>2
      <4>. QED  BY <3>10, <4>1 DEF OnPath
    <3>. DEFINE q == [path |-> Append(p.path, x), w |-> p.w * e.weight]
    <3>12. x \in Follows(e, p.path[Len(p.path)])
      BY <3>4, <3>7, <3>10
    <3>13. q.path[1] = s.id /\ q.path[j + 2] = x
      <4>. HIDE DEF Ends, M
      <4>1. p.path \in Seq(Ids)
        BY <3>9 DEF Shaped, PathRow
      <4>2. Append(p.path, x)[1] = p.path[1] /\ Append(p.path, x)[j + 2] = x
        BY <3>8, <3>10, <4>1
      <4>. QED  BY <3>7, <4>2
    <3>14. q \in Longer(lev(j), edges, Passable)
      <4>. HIDE DEF Ends, M
      <4>. QED  BY <3>3, <3>11, <3>12, LongerHas
    <3>15. q \in lev(j + 1)
      BY <3>8, <3>14, PathsAre DEF lev
    <3>. HIDE DEF q
    <3>. QED  BY <3>8, <3>13, <3>15
  <2>. QED  BY <2>2, <2>3
<1>3. M = Nat
  <2>1. M \in SUBSET Nat
    OBVIOUS
  <2>. HIDE DEF M
  <2>. QED  BY <1>1, <1>2, <2>1, SetInduction
<1>4. Ends(k, id)
  BY <1>3
<1>. QED  BY <1>4

\* The rows of the terminal SELECT: an end of each path that is retrievable.
LEMMA RowsAre ==
    ASSUME Walkable, NEW seeds \in SeedSets, NEW n \in Nat
    PROVE  LET rs == PathRows(seeds, edges, Passable, Retrievable, n)
           IN  /\ IsFiniteSet(rs)
               /\ \A r \in rs : /\ r.d \in 1..n /\ r.w \in Nat /\ r.id \in Retrievable
                                /\ \E s \in seeds : s.id # r.id /\ r.id \in Within(s.id, r.d)
               /\ \A k \in 0..n : \A id \in Retrievable : \A s \in seeds :
                    s.id # id /\ id \in Within(s.id, k) => \E r \in rs : r.id = id /\ r.d <= k
<1>. DEFINE lev(d) == PathsTo(seeds, edges, Passable, n)[d]
            ends(d) == {q \in lev(d) : q.path[d + 1] \in Retrievable}
            row(p, d) == [id |-> p.path[d + 1], d |-> d, w |-> p.w, path |-> p.path]
            level(d) == {row(p, d) : p \in ends(d)}
            family == {level(d) : d \in 1..n}
            rs == PathRows(seeds, edges, Passable, Retrievable, n)
<1>1. rs = UNION family
  BY DEF PathRows
<1>. HIDE DEF rs
<1>2. ASSUME NEW d \in 1..n PROVE IsFiniteSet(level(d))
  <2>. DEFINE f == [p \in ends(d) |-> row(p, d)]
  <2>1. d \in 0..n
    OBVIOUS
  <2>2. IsFiniteSet(lev(d))
    BY <2>1, PathsAre DEF PathSets
  <2>. HIDE DEF lev
  <2>3. ends(d) \in SUBSET lev(d)
    OBVIOUS
  <2>. HIDE DEF ends
  <2>4. IsFiniteSet(ends(d))
    BY <2>2, <2>3, FS_Subset
  <2>. HIDE DEF row
  <2>5. DOMAIN f = ends(d) /\ {f[x] : x \in DOMAIN f} = level(d)
    OBVIOUS
  <2>. HIDE DEF f, level
  <2>. QED  BY <2>4, <2>5, ImageIsFinite
<1>3. IsFiniteSet(rs)
  <2>. DEFINE f == [d \in 1..n |-> level(d)]
  <2>. HIDE DEF level
  <2>1. DOMAIN f = 1..n /\ {f[x] : x \in DOMAIN f} = family /\ IsFiniteSet(1..n)
    BY FS_Interval
  <2>2. \A T \in family : IsFiniteSet(T)
    BY <1>2
  <2>. HIDE DEF f, family
  <2>3. IsFiniteSet(family)
    BY <2>1, ImageIsFinite
  <2>. QED  BY <1>1, <2>2, <2>3, FS_UNION
<1>4. ASSUME NEW r \in rs
      PROVE  /\ r.d \in 1..n /\ r.w \in Nat /\ r.id \in Retrievable
             /\ \E s \in seeds : s.id # r.id /\ r.id \in Within(s.id, r.d)
  <2>. HIDE DEF level
  <2>1. PICK d \in 1..n : r \in level(d)
    BY <1>1
  <2>. HIDE DEF ends, row
  <2>2. PICK p \in ends(d) : r = row(p, d)
    BY <2>1 DEF level
  <2>3. /\ r.id = p.path[d + 1] /\ r.d = d /\ r.w = p.w
        /\ p \in lev(d) /\ p.path[d + 1] \in Retrievable
    BY <2>2 DEF row, ends
  <2>4. d \in 0..n /\ d \in Nat /\ d + 1 \in 1..(d + 1) /\ 1 \in 1..(d + 1) /\ (d + 1) - 1 = d
        /\ d + 1 # 1
    OBVIOUS
  <2>5. Shaped(p, d, seeds)
    BY <2>3, <2>4, PathsInBalls
  <2>6. p.path[1] # p.path[d + 1] /\ p.path[d + 1] \in Within(p.path[1], d) /\ p.w \in Nat
        /\ \E s \in seeds : s.id = p.path[1]
    BY <2>4, <2>5 DEF Shaped, PathRow
  <2>. QED  BY <2>3, <2>6
<1>5. ASSUME NEW k \in 0..n, NEW id \in Retrievable, NEW s \in seeds,
             s.id # id, id \in Within(s.id, k)
      PROVE  \E r \in rs : r.id = id /\ r.d <= k
  <2>1. PICK j \in 0..k : \E p \in lev(j) : p.path[1] = s.id /\ p.path[j + 1] = id
    BY <1>5, BallsByPaths
  <2>2. PICK p \in lev(j) : p.path[1] = s.id /\ p.path[j + 1] = id
    BY <2>1
  <2>3. j # 0
    BY <1>5, <2>2
  <2>4. j \in 1..n /\ j <= k
    BY <2>3
  <2>5. p \in ends(j)
    BY <2>2
  <2>6. row(p, j).id = id /\ row(p, j).d = j
    BY <2>2
  <2>. HIDE DEF ends, row
  <2>7. row(p, j) \in level(j)
    BY <2>5
  <2>. HIDE DEF level
  <2>8. row(p, j) \in rs
    BY <1>1, <2>4, <2>7
  <2>. QED  BY <2>4, <2>6, <2>8
<1>. QED  BY <1>3, <1>4, <1>5 DEF rs

\* Rows that carry a depth and a weight, both numbers.
IsRows(rs) == IsFiniteSet(rs) /\ \A r \in rs : r.d \in Nat /\ r.w \in Nat

LEMMA PrecedenceIs ==
    ASSUME NEW rs, IsRows(rs)
    PROVE  \E b \in Nat : /\ \A r \in rs : r.w < b
                          /\ Precedence(rs) = [r \in rs |-> r.w - r.d * b]
<1>. DEFINE f == [r \in rs |-> r.w]
            weights == {r.w : r \in rs}
            S == {0} \cup weights
            m == Max(S)
<1>1. IsFiniteSet(weights)
  <2>1. DOMAIN f = rs /\ {f[x] : x \in DOMAIN f} = weights
    OBVIOUS
  <2>. HIDE DEF f, weights
  <2>. QED  BY <2>1, ImageIsFinite DEF IsRows
<1>2. weights \in SUBSET Nat
  BY DEF IsRows
<1>3. S \in SUBSET Nat /\ IsFiniteSet(S)
  <2>. HIDE DEF weights
  <2>1. IsFiniteSet(weights \cup {0})
    BY <1>1, FS_AddElement
  <2>2. S = weights \cup {0}
    OBVIOUS
  <2>. QED  BY <1>2, <2>1, <2>2
<1>4. m \in S /\ \A x \in S : m >= x
  <2>1. S \in SUBSET Int /\ S # {}
    BY <1>3
  <2>. HIDE DEF S
  <2>2. PICK top \in S : \A x \in S : x <= top
    BY <1>3, <2>1, LargestIs
  <2>3. \A x \in S : top >= x
    BY <1>3, <2>2
  <2>. QED  BY <2>3 DEF Max
<1>5. Precedence(rs) = [r \in rs |-> r.w - r.d * (1 + m)]
  BY DEF Precedence
<1>6. \A r \in rs : r.w \in S
  OBVIOUS
<1>. HIDE DEF S, m
<1>7. 1 + m \in Nat /\ \A r \in rs : r.w < 1 + m
  BY <1>3, <1>4, <1>6 DEF IsRows
<1>. QED  BY <1>5, <1>7

LEMMA DeeperWeighs ==
    ASSUME NEW a \in Nat, NEW c \in Nat, NEW b \in Nat, a >= c + 1
    PROVE  a * b >= c * b + b
<1>1. a - (c + 1) \in Nat
  OBVIOUS
<1>2. \A e \in Nat : e * b \in Nat
  OBVIOUS
<1>3. a * b = (c + 1) * b + (a - (c + 1)) * b /\ (c + 1) * b = c * b + b
  OBVIOUS
<1>. QED  BY <1>1, <1>2, <1>3

\* The LIMIT cuts nothing from few rows, and the deepest rows from many.
LEMMA CutIs ==
    ASSUME NEW rs, IsRows(rs), NEW k \in Nat, NEW taken \in Nearest(rs, k, Precedence(rs))
    PROVE  /\ taken \subseteq rs /\ IsRows(taken)
           /\ Cardinality(rs) <= k => taken = rs
           /\ \A x \in taken, y \in rs \ taken : x.d <= y.d
<1>1. /\ taken \in SUBSET rs
      /\ Cardinality(taken) = k \/ (Cardinality(taken) < k /\ taken = rs)
      /\ \A x \in taken, y \in rs \ taken : Precedence(rs)[x] >= Precedence(rs)[y]
  BY DEF Nearest
<1>2. IsRows(taken) /\ Cardinality(taken) <= Cardinality(rs)
      /\ (Cardinality(rs) = Cardinality(taken) => rs = taken)
      /\ Cardinality(taken) \in Nat /\ Cardinality(rs) \in Nat
  BY <1>1, FS_Subset, FS_CardinalityType DEF IsRows
<1>3. Cardinality(rs) <= k => taken = rs
  BY <1>1, <1>2
<1>4. ASSUME NEW x \in taken, NEW y \in rs \ taken, ~(x.d <= y.d) PROVE FALSE
  <2>1. PICK b \in Nat : (\A r \in rs : r.w < b) /\ Precedence(rs) = [r \in rs |-> r.w - r.d * b]
    BY PrecedenceIs
  <2>2. x \in rs /\ y \in rs
    BY <1>1
  <2>3. x.w - x.d * b >= y.w - y.d * b /\ x.w < b
    BY <1>1, <2>1, <2>2
  <2>4. x.d \in Nat /\ y.d \in Nat /\ x.w \in Nat /\ y.w \in Nat
    BY <2>2 DEF IsRows
  <2>5. x.d * b >= y.d * b + b
    BY <1>4, <2>4, DeeperWeighs
  <2>6. x.d * b \in Int /\ y.d * b \in Int
    BY <2>4
  <2>. QED  BY <2>3, <2>4, <2>5, <2>6
<1>. QED  BY <1>1, <1>2, <1>3, <1>4

\* Every id of the rows taken keeps one of them.
LEMMA FirstRowsKeepIds ==
    ASSUME NEW taken, IsRows(taken)
    PROVE  {n.id : n \in FirstRows(taken)} = {r.id : r \in taken}
<1>. DEFINE order == Precedence(taken)
            firsts == {q \in taken : \A o \in taken : o.id = q.id => order[o] <= order[q]}
            entry(r) == [id |-> r.id, score |-> r.w * Power4[MaxDepth - r.d]]
<1>1. FirstRows(taken) = {entry(r) : r \in firsts}
  BY DEF FirstRows
<1>2. \A r : entry(r).id = r.id
  OBVIOUS
<1>. HIDE DEF entry
<1>3. {n.id : n \in FirstRows(taken)} \subseteq {r.id : r \in taken}
  BY <1>1, <1>2
<1>4. ASSUME NEW r \in taken PROVE \E q \in firsts : q.id = r.id
  <2>. DEFINE same == {o \in taken : o.id = r.id}
              f == [o \in same |-> order[o]]
              S == {f[o] : o \in DOMAIN f}
  <2>1. PICK b \in Nat : order = [o \in taken |-> o.w - o.d * b]
    BY PrecedenceIs
  <2>2. \A o \in taken : order[o] \in Int
    <3>1. \A o \in taken : o.w \in Nat /\ o.d * b \in Int
      BY DEF IsRows
    <3>. QED  BY <2>1, <3>1
  <2>3. same \in SUBSET taken /\ r \in same
    OBVIOUS
  <2>. HIDE DEF order
  <2>4. IsFiniteSet(same)
    BY <2>3, FS_Subset DEF IsRows
  <2>5. DOMAIN f = same /\ S \in SUBSET Int /\ S # {}
    BY <2>2, <2>3
  <2>6. IsFiniteSet(S)
    <3>. HIDE DEF f
    <3>. QED  BY <2>4, <2>5, ImageIsFinite
  <2>7. PICK top \in S : \A x \in S : x <= top
    <3>. HIDE DEF S
    <3>. QED  BY <2>5, <2>6, LargestIs
  <2>8. PICK q \in same : top = order[q]
    OBVIOUS
  <2>9. \A o \in same : order[o] <= order[q]
    BY <2>7, <2>8
  <2>. QED  BY <2>3, <2>9
<1>5. {r.id : r \in taken} \subseteq {n.id : n \in FirstRows(taken)}
  <2>. HIDE DEF firsts
  <2>. QED  BY <1>1, <1>2, <1>4
<1>. QED  BY <1>3, <1>5

Reached(d) == {id \in Retrievable : \E s \in Seeds : s.id # id /\ id \in Within(s.id, d)}

Expanding == req \in Requests /\ req.op \in {"deep", "graph"} /\ IsRanking(vhits)

LEMMA SeedsAre ==
    ASSUME Expanding
    PROVE  Seeds \in SeedSets /\ req.depth \in Nat
<1>. DEFINE hits == {[id |-> id, score |-> Cosine[id]] : id \in Range(vhits)}
            center == [id |-> req.center, score |-> 10]
<1>0. IsRequest(req)
  BY RetrievalAssumption DEF Expanding
<1>1. req.depth \in Nat
  <2>1. req.op = "deep" => req.depth \in Nat
    BY <1>0 DEF IsRequest, Searches
  <2>2. req.op = "graph" => req.depth \in Nat
    BY <1>0 DEF IsRequest, Searches
  <2>. QED  BY <2>1, <2>2 DEF Expanding
<1>2. CASE req.op = "graph"
  <2>1. req.center \in Ids
    BY <1>0, <1>2 DEF IsRequest, Searches
  <2>2. Seeds = {center} /\ center \in [id : Ids, score : Nat]
    BY <1>2, <2>1 DEF Seeds
  <2>3. IsFiniteSet({center})
    <3>. HIDE DEF center
    <3>. QED  BY FS_Singleton
  <2>. QED  BY <1>1, <2>2, <2>3 DEF SeedSets
<1>3. CASE req.op # "graph"
  <2>. DEFINE f == [id \in Range(vhits) |-> [id |-> id, score |-> Cosine[id]]]
  <2>1. Seeds = hits
    BY <1>3 DEF Seeds
  <2>2. Range(vhits) \in SUBSET Ids /\ IsFiniteSet(Ids)
    BY FusionAssumption DEF Expanding, IsRanking, Range
  <2>3. IsFiniteSet(Range(vhits))
    BY <2>2, FS_Subset
  <2>4. \A id \in Range(vhits) : [id |-> id, score |-> Cosine[id]] \in [id : Ids, score : Nat]
    <3>1. \A id \in Ids : Cosine[id] \in Nat
      BY RetrievalAssumption
    <3>. QED  BY <2>2, <3>1
  <2>5. DOMAIN f = Range(vhits) /\ {f[x] : x \in DOMAIN f} = hits
    OBVIOUS
  <2>6. hits \in SUBSET [id : Ids, score : Nat]
    BY <2>4
  <2>7. IsFiniteSet(hits)
    <3>. HIDE DEF f, hits
    <3>. QED  BY <2>3, <2>5, ImageIsFinite
  <2>. HIDE DEF hits
  <2>. QED  BY <1>1, <2>1, <2>6, <2>7 DEF SeedSets
<1>. QED  BY <1>2, <1>3

LEMMA ReachedGrows ==
    ASSUME Seeds \in SeedSets, NEW m \in Nat, NEW n \in Nat, m <= n
    PROVE  Reached(m) \subseteq Reached(n)
<1>1. \A s \in Seeds : s.id \in Ids
  BY DEF SeedSets
<1>2. \A s \in Seeds : Within(s.id, m) \subseteq Within(s.id, n)
  BY <1>1, WithinWider
<1>. QED  BY <1>2 DEF Reached

\* What the expansion may return, against what its seeds reach.
LEMMA NeighborhoodReaches ==
    ASSUME Walkable, Expanding, NEW found \in Neighborhoods
    PROVE  LET ids == {n.id : n \in found}
               rs == PathRows(Seeds, edges, Passable, Retrievable, req.depth)
           IN  /\ ids \subseteq Reached(req.depth)
               /\ \/ ids = Reached(req.depth)
                  \/ /\ Cardinality(rs) > DegreeLimit
                     /\ \A d \in 1..req.depth : Reached(d) \subseteq ids \/ ids \subseteq Reached(d)
<1>. DEFINE ids == {n.id : n \in found}
            n == req.depth
            rs == PathRows(Seeds, edges, Passable, Retrievable, n)
<1>0. Seeds \in SeedSets /\ n \in Nat /\ DegreeLimit \in Nat
  BY SeedsAre, RetrievalAssumption
<1>1. CASE Seeds = {} \/ n = 0
  <2>1. ids = {}
    BY <1>1 DEF Neighborhoods
  <2>2. Reached(n) = {}
    <3>1. CASE Seeds = {}
      BY <3>1 DEF Reached
    <3>2. CASE n = 0
      <4>1. \A s \in Seeds : s.id \in Ids
        BY <1>0 DEF SeedSets
      <4>2. \A s \in Seeds : Within(s.id, 0) = {s.id}
        BY <4>1, WithinGrows
      <4>. QED  BY <3>2, <4>2 DEF Reached
    <3>. QED  BY <1>1, <3>1, <3>2
  <2>. QED  BY <2>1, <2>2
<1>2. CASE ~(Seeds = {} \/ n = 0)
  <2>1. PICK taken \in Nearest(rs, DegreeLimit, Precedence(rs)) : found = FirstRows(taken)
    BY <1>2 DEF Neighborhoods, BfsExpand
  <2>2. /\ IsFiniteSet(rs)
        /\ \A r \in rs : /\ r.d \in 1..n /\ r.w \in Nat /\ r.id \in Retrievable
                         /\ \E s \in Seeds : s.id # r.id /\ r.id \in Within(s.id, r.d)
        /\ \A k \in 0..n : \A id \in Retrievable : \A s \in Seeds :
             s.id # id /\ id \in Within(s.id, k) => \E r \in rs : r.id = id /\ r.d <= k
    BY <1>0, RowsAre
  <2>. HIDE DEF rs, n
  <2>3. IsRows(rs)
    BY <1>0, <2>2 DEF IsRows
  <2>4. /\ taken \subseteq rs /\ IsRows(taken)
        /\ Cardinality(rs) <= DegreeLimit => taken = rs
        /\ \A x \in taken, y \in rs \ taken : x.d <= y.d
    BY <1>0, <2>1, <2>3, CutIs
  <2>5. ids = {r.id : r \in taken}
    BY <2>1, <2>4, FirstRowsKeepIds
  <2>6. Cardinality(rs) \in Nat
    BY <2>2, FS_CardinalityType
  <2>7. \A r \in rs : r.id \in Reached(r.d) /\ r.d \in 1..n
    BY <2>2 DEF Reached
  <2>8. \A k \in 0..n : \A id \in Reached(k) : \E r \in rs : r.id = id /\ r.d <= k
    BY <2>2 DEF Reached
  <2>. HIDE DEF ids
  <2>9. \A r \in taken : \A k \in 0..n : r.d <= k => r.id \in Reached(k)
    <3>. TAKE r \in taken
    <3>. TAKE k \in 0..n
    <3>. HAVE r.d <= k
    <3>1. r.d \in Nat /\ k \in Nat /\ r.id \in Reached(r.d)
      BY <1>0, <2>4, <2>7
    <3>. QED  BY <1>0, <3>1, ReachedGrows
  <2>10. ids \subseteq Reached(n)
    <3>1. \A r \in taken : r.d <= n
      BY <1>0, <2>4, <2>7
    <3>2. n \in 0..n
      BY <1>0
    <3>. QED  BY <2>5, <2>9, <3>1, <3>2
  <2>11. CASE Cardinality(rs) <= DegreeLimit
    <3>1. n \in 0..n
      BY <1>0
    <3>2. Reached(n) \subseteq ids
      BY <2>4, <2>5, <2>8, <2>11, <3>1
    <3>. QED  BY <2>10, <3>2 DEF ids, n
  <2>12. CASE Cardinality(rs) > DegreeLimit
    <3>1. ASSUME NEW d \in 1..n, ~(Reached(d) \subseteq ids) PROVE ids \subseteq Reached(d)
      <4>1. PICK id \in Reached(d) : id \notin ids
        BY <3>1
      <4>2. d \in 0..n
        BY <1>0
      <4>3. PICK r \in rs : r.id = id /\ r.d <= d
        BY <2>8, <4>1, <4>2
      <4>4. r \notin taken
        BY <2>5, <4>1, <4>3
      <4>5. \A x \in taken : x.d <= d
        <5>1. \A x \in taken : x.d <= r.d /\ x.d \in Int /\ r.d \in Int /\ d \in Int
          BY <2>4, <2>7, <4>3, <4>4
        <5>. QED  BY <4>3, <5>1
      <4>. QED  BY <2>5, <2>9, <4>2, <4>5
    <3>. QED  BY <2>10, <2>12, <3>1 DEF ids, n, rs
  <2>. QED  BY <1>0, <2>6, <2>11, <2>12
<1>. QED  BY <1>1, <1>2

\* In a quiet graph the neighbours are what the expansion may return still.
Expanded ==
    /\ IsFiniteSet(edges)
    /\ quiet /\ req.op \in {"deep", "graph"} /\ at \in {"serve", "record", "edges"} =>
        neighbors \in Neighborhoods

LEMMA LinkedIsFinite ==
    ASSUME IsFiniteSet(edges), NEW e PROVE IsFiniteSet(Linked(e))
BY FS_AddElement DEF Linked

LEMMA ExpandedNext ==
    ASSUME Inv, Expanded, [Next]_vars PROVE Expanded'
<1>. USE DEF Expanded
<1>0. Placed
  BY DEF Inv
<1>1. CASE UNCHANGED vars
  BY <1>1 DEF vars, tables, recall, ghosts, Neighborhoods, Seeds, Passable, Retrievable, Live
<1>2. ASSUME NEW r \in Requests, Begin(r) PROVE Expanded'
  <2>1. r.op \in Searches \cup {"context", "graph", "relate", "relate_batch"}
    BY RequestIs
  <2>2. edges' = edges /\ at' \in {"vector", "expand", "validate", "exists"}
    BY <1>2, <2>1 DEF Begin, tables
  <2>. QED  BY <2>2
<1>3. ASSUME NEW ok \in BOOLEAN, VectorSearch(ok) PROVE Expanded'
  <2>1. edges' = edges /\ req' = req /\ at = "vector"
    BY <1>3 DEF VectorSearch, tables
  <2>2. req.op \in Searches \cup {"context"}
    BY <1>0, <2>1 DEF Placed
  <2>3. CASE req.op = "deep"
    <3>1. at' \in {"expand", Failed}
      BY <1>3, <2>3 DEF VectorSearch, Fusing
    <3>. QED  BY <2>1, <3>1 DEF Failed
  <2>. QED  BY <2>1, <2>2, <2>3 DEF Searches
<1>4. ASSUME NEW ok \in BOOLEAN, TextSearch(ok) \/ Hydrate(ok) \/ Validate(ok) \/ Exists(ok)
      PROVE  Expanded'
  BY <1>4 DEF TextSearch, Hydrate, Validate, Exists, tables, Failed
<1>5. ASSUME NEW ok \in BOOLEAN, Expand(ok) PROVE Expanded'
  <2>1. UNCHANGED <<rows, edges, req, vhits>>
    BY <1>5 DEF Expand, tables
  <2>2. Neighborhoods' = Neighborhoods
    BY <2>1 DEF Neighborhoods, Seeds, Passable, Retrievable, Live
  <2>. QED  BY <1>5, <2>1, <2>2 DEF Expand, Failed
<1>6. ASSUME NEW ok \in BOOLEAN, Serve \/ RecordAccess(ok) \/ Edges(ok) PROVE Expanded'
  <2>1. UNCHANGED <<rows, edges, req, vhits, neighbors, quiet>>
    BY <1>6 DEF Serve, RecordAccess, Edges, tables, recall, ghosts
  <2>2. Neighborhoods' = Neighborhoods
    BY <2>1 DEF Neighborhoods, Seeds, Passable, Retrievable, Live
  <2>3. at \in {"serve", "record", "edges"} \/ req.op = "hybrid"
    BY <1>6 DEF Serve, RecordAccess, Edges
  <2>. QED  BY <2>1, <2>2, <2>3
<1>7. CASE Fuse \/ Assemble
  <2>1. edges' = edges /\ req' = req
    BY <1>7 DEF Fuse, Assemble, tables
  <2>2. at' = "hydrate" \/ req.op = "context"
    BY <1>7 DEF Fuse, Assemble
  <2>. QED  BY <2>1, <2>2
<1>8. ASSUME NEW ok \in BOOLEAN, InsertEdge(ok) PROVE Expanded'
  <2>1. edges' \in {Linked(Head(todo)), edges} /\ req' = req
    BY <1>8 DEF InsertEdge
  <2>2. IsFiniteSet(edges')
    BY <2>1, LinkedIsFinite
  <2>3. req.op \in {"relate", "relate_batch"}
    BY <1>0, <1>8 DEF InsertEdge, Placed
  <2>. QED  BY <2>1, <2>2, <2>3
<1>9. ASSUME NEW id \in Ids, Delete(id) PROVE Expanded'
  <2>1. edges' \in SUBSET edges /\ quiet' = FALSE
    BY <1>9 DEF Delete, Write
  <2>. QED  BY <2>1, FS_Subset
<1>10. ASSUME NEW id \in Ids, NEW s \in Status, SetStatus(id, s) PROVE Expanded'
  BY <1>10 DEF SetStatus, Write
<1>11. ASSUME NEW e \in NewEdges, Link(e) PROVE Expanded'
  BY <1>11, LinkedIsFinite DEF Link, Write
<1>. QED
  BY <1>1, <1>2, <1>3, <1>4, <1>5, <1>6, <1>7, <1>8, <1>9, <1>10, <1>11 DEF Next, Step, Others

\* In a quiet graph an expansion returns what some other seed reaches within the
\* depth; its LIMIT cuts only where there are more paths, and no nearer node.
THEOREM ExpansionCorrect == Spec => []ExpansionIsReach
<1>1. Init => Expanded
  <2>. SUFFICES ASSUME Init PROVE Expanded
    OBVIOUS
  <2>1. edges \in SUBSET FirstEdges /\ at = "idle"
    BY DEF Init
  <2>2. IsFiniteSet(FirstEdges)
    BY RetrievalAssumption
  <2>3. IsFiniteSet(edges)
    BY <2>1, <2>2, FS_Subset
  <2>. QED  BY <2>1, <2>3 DEF Expanded
<1>2. Inv /\ Expanded /\ [Next]_vars => Expanded'
  BY ExpandedNext
<1>3. ASSUME Inv, Expanded PROVE ExpansionIsReach
  <2>. SUFFICES ASSUME quiet, req.op \in {"deep", "graph"}, at \in {"serve", "edges"}
                PROVE  LET found == {n.id : n \in neighbors}
                       IN  /\ found \subseteq Reached(req.depth)
                           /\ \/ found = Reached(req.depth)
                              \/ /\ Cardinality(PathRows(Seeds, edges, Passable, Retrievable,
                                                         req.depth)) > DegreeLimit
                                 /\ \A d \in 1..req.depth :
                                      Reached(d) \subseteq found \/ found \subseteq Reached(d)
    BY DEF ExpansionIsReach, Reached
  <2>1. Walkable /\ Expanding
    BY <1>3 DEF Inv, Placed, Typed, Expanded, Walkable, Expanding
  <2>2. neighbors \in Neighborhoods
    BY <1>3 DEF Expanded
  <2>. QED  BY <2>1, <2>2, NeighborhoodReaches
<1>. QED  BY <1>1, <1>2, <1>3, InvHolds, PTL DEF Spec

-----------------------------------------------------------------------------
(* Types and sizes.                                                        *)

\* What a search holds fits its pool, what it serves its limit; edges come from
\* the tables and the other writers unless the request relates.
Sized ==
    /\ at \notin {"idle", Failed} /\ req.op \in Searches =>
            Cardinality(page) <= req.limit /\ Cardinality(kept) + Len(missing) <= Pool
    /\ DOMAIN graph \subseteq FirstEdges \cup NewEdges
    /\ at = "idle" \/ req.op \notin {"relate", "relate_batch"} =>
            edges \subseteq FirstEdges \cup NewEdges

\* Fusion keeps what the pool holds, a part to serve and a part to hydrate.
LEMMA FusedFits ==
    ASSUME Inv, Fuse, req.op \in Searches
    PROVE  Cardinality(kept') + Len(missing') <= Pool
<1>1. /\ req \in Requests /\ Fusing /\ req.op = "hybrid"
      /\ IsRanking(vhits) /\ IsRanking(bhits) /\ IsFiniteSet(Ids)
  BY FusionAssumption DEF Inv, Placed, Typed, Fuse, Fusing, Searches
<1>2. FusionLimit = Pool /\ Pool \in Nat
  BY <1>1, LimitsAre
<1>3. IsRanking(Ranking) /\ Len(Ranking) <= Pool
  <2>. DEFINE all == Sorted(FusedIds(bhits, vhits), FusedBefore(bhits, vhits))
  <2>1. /\ IsRanking(all)
        /\ Ranking = IF BmShare + VecShare = 0 THEN <<>> ELSE Truncate(all, Pool)
    BY <1>1, <1>2, FuseRanks DEF Ranking
  <2>. HIDE DEF all
  <2>2. CASE BmShare + VecShare = 0
    <3>1. Ranking = <<>>
      BY <2>1, <2>2
    <3>2. IsRanking(Ranking)
      BY <1>1, RankingIs
    <3>. QED  BY <1>2, <3>1, <3>2
  <2>3. CASE BmShare + VecShare # 0
    <3>1. IsRanking(Truncate(all, Pool))
          /\ Len(Truncate(all, Pool)) = IF Pool < Len(all) THEN Pool ELSE Len(all)
      BY <1>2, <2>1, TruncateRanks
    <3>2. Len(all) \in Nat
      BY <2>1 DEF IsRanking
    <3>. QED  BY <1>2, <2>1, <2>3, <3>1, <3>2
  <2>. QED  BY <2>2, <2>3
<1>4. IsRanking(Relevant) /\ Range(Relevant) \subseteq Range(Ranking)
  BY <1>1, RankingIs
<1>5. /\ kept' = Range(Relevant) \cap Range(vhits)
      /\ missing' = Only(Relevant, Ids \ Range(vhits))
  BY DEF Fuse
<1>6. IsRanking(missing') /\ Range(missing') = Range(Relevant) \cap (Ids \ Range(vhits))
  BY <1>4, <1>5, OnlyRanks
<1>7. Cardinality(Range(missing')) = Len(missing') /\ Cardinality(Range(Ranking)) = Len(Ranking)
      /\ Len(Ranking) \in Nat
  BY <1>3, <1>6, RankInList DEF IsRanking
<1>8. IsFiniteSet(Range(Ranking)) /\ Range(Ranking) \in SUBSET Ids
  <2>1. Range(Ranking) \in SUBSET Ids
    BY <1>3 DEF IsRanking, Range
  <2>. QED  BY <1>1, <2>1, FS_Subset
<1>. DEFINE A == kept'
            B == Range(missing')
            R == Range(Ranking)
<1>9. A \in SUBSET R /\ B \in SUBSET R /\ A \cap B = {}
  BY <1>4, <1>5, <1>6
<1>. HIDE DEF A, B, R
<1>10. /\ IsFiniteSet(A) /\ IsFiniteSet(B) /\ IsFiniteSet(R)
       /\ Cardinality(A) \in Nat /\ Cardinality(B) \in Nat /\ Cardinality(R) \in Nat
  BY <1>8, <1>9, FS_Subset, FS_CardinalityType DEF R
<1>11. Cardinality(A \cup B) = Cardinality(A) + Cardinality(B)
  <2>1. Cardinality(A \cap B) = 0
    BY <1>9, FS_EmptySet
  <2>2. Cardinality(A \cup B) = Cardinality(A) + Cardinality(B) - Cardinality(A \cap B)
    BY <1>10, FS_Union
  <2>. QED  BY <1>10, <2>1, <2>2
<1>12. Cardinality(A \cup B) <= Cardinality(R)
  <2>1. A \cup B \in SUBSET R
    BY <1>9
  <2>. QED  BY <1>10, <2>1, FS_Subset
<1>. QED  BY <1>2, <1>3, <1>7, <1>10, <1>11, <1>12 DEF A, B, R

\* A search serves at most its limit.
LEMMA ServedFits ==
    ASSUME Inv, Serve
    PROVE  Cardinality(page') <= req.limit
<1>1. req \in Requests /\ req.op \in Searches /\ IsFiniteSet(Ids)
  BY FusionAssumption DEF Inv, Placed, Typed, Serve, Searches
<1>2. req.offset \in Nat /\ req.limit \in Nat
  BY <1>1, RequestIs
<1>3. page' \in Pages(Filtered)
  BY DEF Serve
<1>4. DOMAIN Filtered \in SUBSET Ids
  <2>1. DOMAIN Filtered \subseteq req.wanted
    BY DEF Filtered
  <2>2. req.wanted \subseteq Ids
    BY <1>1, RequestIs
  <2>. QED  BY <2>1, <2>2
<1>5. IsFiniteSet(DOMAIN Filtered) /\ Cardinality(DOMAIN Filtered) \in Nat
  BY <1>1, <1>4, FS_Subset, FS_CardinalityType
<1>. DEFINE n == Cardinality(DOMAIN Filtered)
<1>6. Cardinality(page') = Least(req.offset + req.limit, n) - Least(req.offset, n)
  BY <1>2, <1>3, <1>5, PageCount
<1>. HIDE DEF n
<1>7. n \in Nat
  BY <1>5 DEF n
<1>. QED  BY <1>2, <1>6, <1>7 DEF Least

LEMMA SizedNext ==
    ASSUME Inv, Sized, [Next]_vars PROVE Sized'
<1>. USE DEF Inv
<1>. USE DEF tables, recall, answer, relating, ghosts, faults
<1>. DEFINE Seen == FirstEdges \cup NewEdges
            Fits == at \notin {"idle", Failed} /\ req.op \in Searches =>
                      Cardinality(page) <= req.limit
                        /\ Cardinality(kept) + Len(missing) <= Pool
            From == at = "idle" \/ req.op \notin {"relate", "relate_batch"} =>
                      edges \subseteq Seen
<1>0. Fits /\ DOMAIN graph \subseteq Seen /\ From
  BY DEF Sized
<1>a. ASSUME UNCHANGED <<req, page, kept, missing, graph>>,
             at' \notin {"idle", Failed} => at \notin {"idle", Failed},
             edges' \subseteq edges \cup Seen, at' # "idle" \/ at = "idle"
      PROVE  Sized'
  <2>1. Pool' = Pool
    BY <1>a DEF Pool
  <2>2. Fits'
    BY <1>0, <1>a, <2>1
  <2>3. From'
    BY <1>0, <1>a
  <2>. HIDE DEF Fits, From
  <2>. QED  BY <1>0, <1>a, <2>2, <2>3 DEF Sized, Fits, From
<1>1. ASSUME NEW r \in Requests, Begin(r) PROVE Sized'
  <2>1. /\ at = "idle" /\ at' # "idle" /\ req' = r
        /\ UNCHANGED <<page, kept, missing, graph, edges>>
    <3>1. r.op \in Searches \cup {"context", "graph", "relate", "relate_batch"}
      BY RequestIs
    <3>. QED  BY <1>1, <3>1 DEF Begin
  <2>2. page = {} /\ kept = {} /\ missing = <<>>
    <3>1. page = {} /\ kept = {} /\ Range(missing) = {}
      BY <2>1 DEF Witnessed, Found
    <3>2. missing \in Seq(Ids)
      BY DEF Typed, IsRanking
    <3>. QED  BY <3>1, <3>2 DEF Range
  <2>3. ASSUME r.op \in Searches
        PROVE  Cardinality(page) <= r.limit /\ Cardinality(kept) + Len(missing) <= Pool'
    <3>1. r.limit \in Nat /\ r.offset \in Nat
      BY <2>3, RequestIs
    <3>2. Pool' \in Nat
      BY <2>1, <3>1 DEF Pool
    <3>3. Cardinality({}) = 0 /\ Len(missing) = 0
      BY <2>2, FS_EmptySet
    <3>. QED  BY <2>2, <3>1, <3>2, <3>3
  <2>4. edges \subseteq Seen
    BY <1>0, <2>1
  <2>5. Fits'
    BY <2>1, <2>3
  <2>6. DOMAIN graph' \subseteq Seen /\ edges' \subseteq Seen
    BY <1>0, <2>1, <2>4
  <2>7. From'
    BY <2>6
  <2>. HIDE DEF Fits, From
  <2>. QED  BY <2>5, <2>6, <2>7 DEF Sized, Fits, From
<1>2. ASSUME NEW ok \in BOOLEAN,
             VectorSearch(ok) \/ TextSearch(ok) \/ Expand(ok)
               \/ RecordAccess(ok) \/ Validate(ok) \/ Exists(ok)
      PROVE Sized'
  <2>1. /\ UNCHANGED <<req, page, kept, missing, graph, edges>>
        /\ at \notin {"idle", Failed} /\ at' # "idle"
    <3>1. CASE VectorSearch(ok)
      <4>1. at = "vector" /\ UNCHANGED <<req, page, kept, missing, graph, edges>>
        BY <3>1 DEF VectorSearch
      <4>2. Fusing \/ req.op = "fast" \/ req.op = "deep"
        BY <4>1 DEF Placed, Fusing, Searches
      <4>3. at' \in {"text", "fuse", Failed, "serve", "expand"}
        BY <3>1, <4>2 DEF VectorSearch
      <4>. QED  BY <4>1, <4>3 DEF Failed
    <3>2. CASE TextSearch(ok)
      BY <3>2 DEF TextSearch, Failed
    <3>3. CASE Expand(ok)
      BY <3>3 DEF Expand, Failed
    <3>4. CASE RecordAccess(ok)
      BY <3>4 DEF RecordAccess, Failed
    <3>5. CASE Validate(ok)
      BY <3>5 DEF Validate, Failed
    <3>6. CASE Exists(ok)
      BY <3>6 DEF Exists, Failed
    <3>. QED  BY <1>2, <3>1, <3>2, <3>3, <3>4, <3>5, <3>6
  <2>. QED  BY <1>a, <2>1
<1>3. ASSUME NEW ok \in BOOLEAN, Hydrate(ok) PROVE Sized'
  <2>1. /\ missing # <<>> /\ missing' = Tail(missing)
        /\ kept' \in {kept, kept \cup {Head(missing)}}
        /\ UNCHANGED <<req, at, page, graph, edges>> /\ at = "hydrate"
    BY <1>3 DEF Hydrate
  <2>2. missing \in Seq(Ids) /\ kept \in SUBSET Ids /\ IsFiniteSet(Ids) /\ req \in Requests
    BY <2>1, FusionAssumption DEF Typed, IsRanking, Placed
  <2>3. Len(missing') = Len(missing) - 1 /\ Len(missing) \in Nat
    BY <2>1, <2>2
  <2>4. IsFiniteSet(kept) /\ Cardinality(kept) \in Nat
    BY <2>2, FS_Subset, FS_CardinalityType
  <2>5. Cardinality(kept') \in {Cardinality(kept), Cardinality(kept) + 1}
    BY <2>1, <2>4, FS_AddElement
  <2>6. Pool' = Pool
    BY <2>1 DEF Pool
  <2>7. req.op \in Searches => Pool \in Nat
    BY <2>2, RequestIs DEF Pool
  <2>8. Fits'
    BY <1>0, <2>1, <2>3, <2>4, <2>5, <2>6, <2>7
  <2>. HIDE DEF Fits
  <2>. QED  BY <1>0, <2>1, <2>8 DEF Sized, Fits
<1>4. CASE Fuse
  <2>1. UNCHANGED <<req, page, graph, edges>> /\ at = "fuse" /\ at' = "hydrate"
    BY <1>4 DEF Fuse
  <2>2. Pool' = Pool
    BY <2>1 DEF Pool
  <2>3. req.op \in Searches => Cardinality(kept') + Len(missing') <= Pool
    BY <1>4, FusedFits
  <2>. QED  BY <1>0, <2>1, <2>2, <2>3 DEF Sized, Failed
<1>5. CASE Serve
  <2>1. UNCHANGED <<req, kept, missing, graph, edges>> /\ at \in {"serve", "hydrate"}
        /\ at' = "record"
    BY <1>5 DEF Serve
  <2>2. Pool' = Pool
    BY <2>1 DEF Pool
  <2>3. Cardinality(page') <= req.limit
    BY <1>5, ServedFits
  <2>. QED  BY <1>0, <2>1, <2>2, <2>3 DEF Sized, Failed
<1>6. CASE Assemble
  <2>1. UNCHANGED <<req, graph, edges>> /\ at' = "record" /\ req.op = "context"
    BY <1>6 DEF Assemble
  <2>. QED  BY <1>0, <2>1 DEF Sized, Searches
<1>7. ASSUME NEW ok \in BOOLEAN, Edges(ok) PROVE Sized'
  <2>1. /\ UNCHANGED <<req, kept, missing, edges>> /\ at = "edges" /\ at' = "answered"
        /\ req.op # "graph" => page' = page
        /\ DOMAIN graph' \subseteq edges
        /\ req.op \notin {"relate", "relate_batch"}
    BY <1>7 DEF Edges, Placed, Searches, NoEdges, Between
  <2>2. Pool' = Pool
    BY <2>1 DEF Pool
  <2>3. DOMAIN graph' \subseteq Seen
    BY <1>0, <2>1
  <2>. QED  BY <1>0, <2>1, <2>2, <2>3 DEF Sized, Searches, Failed
<1>8. ASSUME NEW ok \in BOOLEAN, InsertEdge(ok) PROVE Sized'
  <2>1. /\ at = "insert" /\ at' \in {"insert", "answered"} /\ UNCHANGED <<req, graph>>
        /\ req.op \in {"relate", "relate_batch"}
    BY <1>8 DEF InsertEdge, Placed
  <2>. QED  BY <1>0, <2>1 DEF Sized, Searches
<1>9. ASSUME NEW id \in Ids, Delete(id) PROVE Sized'
  <2>1. /\ UNCHANGED <<req, at, page, kept, missing, graph>> /\ edges' \subseteq edges
    BY <1>9 DEF Delete, Write
  <2>. QED  BY <1>a, <2>1
<1>10. ASSUME NEW id \in Ids, NEW s \in Status, SetStatus(id, s) PROVE Sized'
  <2>1. UNCHANGED <<req, at, page, kept, missing, graph, edges>>
    BY <1>10 DEF SetStatus, Write
  <2>. QED  BY <1>a, <2>1
<1>11. ASSUME NEW e \in NewEdges, Link(e) PROVE Sized'
  <2>1. UNCHANGED <<req, at, page, kept, missing, graph>> /\ edges' \subseteq edges \cup {e}
    BY <1>11 DEF Link, Linked, Write
  <2>. QED  BY <1>a, <2>1
<1>12. CASE UNCHANGED vars
  <2>1. UNCHANGED <<req, at, page, kept, missing, graph, edges>>
    BY <1>12 DEF vars
  <2>. QED  BY <1>a, <2>1
<1>. QED  BY <1>1, <1>2, <1>3, <1>4, <1>5, <1>6, <1>7, <1>8, <1>9, <1>10, <1>11, <1>12
          DEF Next, Step, Others

\* Types; a page is never longer than its limit, what a fused search keeps and
\* still hydrates never more than its pool, and only real edges are served.
THEOREM TypeCorrect == Spec => []TypeOK
<1>1. Init => Sized
  BY DEF Init, Sized, NoEdges
<1>2. Inv /\ Sized /\ [Next]_vars => Sized'
  BY SizedNext
<1>3. Inv /\ Sized => TypeOK
  <2>. SUFFICES ASSUME Inv, Sized PROVE TypeOK
    OBVIOUS
  <2>1. /\ kept \subseteq Ids /\ existing \subseteq Ids /\ page \subseteq Ids
        /\ rows \in [Ids -> Status] /\ accesses \in [Ids -> Nat]
        /\ Range(vhits) \cup Range(bhits) \cup Range(missing) \subseteq Ids
    BY DEF Inv, Typed, IsRanking, Range
  <2>2. shown \subseteq Bucket /\ {n.id : n \in neighbors} \subseteq Ids
    BY RetrievalAssumption DEF Inv, Witnessed, Found
  <2>. QED  BY <2>1, <2>2 DEF TypeOK, Sized
<1>. QED  BY <1>1, <1>2, <1>3, InvHolds, PTL DEF Spec
=============================================================================
