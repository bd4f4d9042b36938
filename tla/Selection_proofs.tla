-------------------------- MODULE Selection_proofs --------------------------
(***************************************************************************)
(* Proofs about the decisions of Selection: what each answers, for every    *)
(* INF, catalog, index, driver store and network.  Each part proves the     *)
(* promise of one module of the answer that the code computes; the last     *)
(* one carries them over to the behaviours of Spec.                         *)
(***************************************************************************)
EXTENDS Selection, FiniteSetTheorems, SequenceTheorems, TLAPS

-----------------------------------------------------------------------------
(* Numbers, lists and folds.                                               *)

\* A set of natural numbers has a smallest one.
LEMMA Smallest ==
  ASSUME NEW T, T \subseteq Nat, T # {}
  PROVE  \E x \in T : \A y \in T : x <= y
<1>1. IsWellFoundedOn(OpToRel(<, Nat), Nat)
  BY NatLessThanWellFounded, Zenon
<1>2. PICK x \in T : \A y \in T : <<y, x>> \notin OpToRel(<, Nat)
  BY <1>1, WFMin, Zenon
<1>3. ASSUME NEW y \in T PROVE x <= y
  <2>1. x \in Nat /\ y \in Nat
    OBVIOUS
  <2>2. <<y, x>> \in Nat \X Nat /\ <<y, x>>[1] = y /\ <<y, x>>[2] = x
    BY <2>1
  <2>3. ~(y < x)
    BY <1>2, <2>2, Zenon DEF OpToRel
  <2> QED BY <2>1, <2>3
<1> QED BY <1>3

\* Induction over the numbers of a set.
LEMMA Induction ==
  ASSUME NEW P, 0 \in P, \A n \in Nat : n \in P => n + 1 \in P
  PROVE  \A n \in Nat : n \in P
<1> DEFINE Bad == {n \in Nat : n \notin P}
<1> SUFFICES ASSUME Bad # {} PROVE FALSE
  OBVIOUS
<1>1. PICK x \in Bad : \A y \in Bad : x <= y
  <2>1. Bad \subseteq Nat
    OBVIOUS
  <2> HIDE DEF Bad
  <2> QED BY <2>1, Smallest
<1>2. x - 1 \in Nat /\ ~(x <= x - 1)
  BY <1>1
<1>3. x - 1 \in P
  BY <1>1, <1>2
<1> QED BY <1>1, <1>2, <1>3

\* Min finds the smallest number of a set.
LEMMA MinIs ==
  ASSUME NEW S, S \subseteq Nat, S # {}
  PROVE  Min(S) \in S /\ \A y \in S : Min(S) <= y
<1>1. \E x \in S : \A y \in S : x <= y
  BY Smallest
<1> QED BY <1>1 DEF Min

\* Max finds a largest element where there is one.
LEMMA MaxChosen ==
  ASSUME NEW S, \E x \in S : \A y \in S : x >= y
  PROVE  Max(S) \in S /\ \A y \in S : Max(S) >= y
BY Zenon DEF Max

\* Max finds the largest number of a set that has a bound.
LEMMA MaxIs ==
  ASSUME NEW n \in Nat, NEW S, S \subseteq 0 .. n, S # {}
  PROVE  Max(S) \in S /\ \A y \in S : y <= Max(S)
<1> DEFINE T == {x \in Nat : x <= n /\ n - x \in S}
<1>1. PICK t \in T : \A y \in T : t <= y
  <2>1. PICK s \in S : TRUE
    OBVIOUS
  <2>2. n - s \in T
    <3>1. n - (n - s) = s
      BY <2>1
    <3> QED BY <2>1, <3>1
  <2>3. T \subseteq Nat
    OBVIOUS
  <2> HIDE DEF T
  <2> QED BY <2>2, <2>3, Smallest
<1>2. ASSUME NEW y \in S PROVE y <= n - t
  <2>1. n - (n - y) = y
    OBVIOUS
  <2>2. n - y \in T
    BY <2>1
  <2>3. t \in Int /\ y \in Int
    OBVIOUS
  <2> HIDE DEF T
  <2>4. t <= n - y
    BY <1>1, <2>2
  <2> QED BY <2>3, <2>4
<1>3. n - t \in S
  OBVIOUS
<1>4. \E x \in S : \A y \in S : x >= y
  BY <1>2, <1>3
<1>5. Max(S) \in S /\ \A y \in S : Max(S) >= y
  BY <1>4, MaxChosen, Zenon
<1>6. \A y \in S : y \in Int
  OBVIOUS
<1> QED BY <1>5, <1>6

\* before[x] is what comes before x in a strict total order of S.
Ordering(S, before) ==
  /\ before \in [S -> SUBSET S]
  /\ \A x \in S : x \notin before[x]
  /\ \A x, y \in S : x # y => x \in before[y] \/ y \in before[x]
  /\ \A x, y \in S : y \in before[x] => before[y] \subseteq before[x]

\* (slice::sort_by) Every element has one position, and the order is kept.
LEMMA SortedIs ==
  ASSUME NEW S, IsFiniteSet(S), NEW before, Ordering(S, before)
  PROVE  /\ Cardinality(S) \in Nat
         /\ Sorted(S, before) \in [1 .. Cardinality(S) -> S]
         /\ \A x \in S : \E k \in 1 .. Cardinality(S) : Sorted(S, before)[k] = x
         /\ \A i, j \in 1 .. Cardinality(S) :
              i < j => Sorted(S, before)[i] \in before[Sorted(S, before)[j]]
         /\ \A i, j \in 1 .. Cardinality(S) :
              Sorted(S, before)[i] = Sorted(S, before)[j] => i = j
<1> DEFINE n == Cardinality(S)
           rank == [x \in S |-> Cardinality(before[x])]
           at == Sorted(S, before)
<1>1. n \in Nat
  BY FS_CardinalityType
<1>2. ASSUME NEW x \in S PROVE IsFiniteSet(before[x]) /\ rank[x] \in 0 .. n - 1
  <2>1. before[x] \in SUBSET S /\ before[x] # S
    BY DEF Ordering
  <2>2. IsFiniteSet(before[x]) /\ Cardinality(before[x]) <= n /\ Cardinality(before[x]) # n
    BY <2>1, FS_Subset
  <2>3. Cardinality(before[x]) \in Nat
    BY <2>2, FS_CardinalityType
  <2> QED BY <1>1, <2>2, <2>3
<1>3. ASSUME NEW x \in S, NEW y \in S, x \in before[y] PROVE rank[x] < rank[y]
  <2>1. before[x] \cup {x} \subseteq before[y] /\ x \notin before[x]
    BY <1>3 DEF Ordering
  <2>2. Cardinality(before[x] \cup {x}) = Cardinality(before[x]) + 1
    BY <1>2, <2>1, FS_AddElement
  <2>3. Cardinality(before[x] \cup {x}) <= Cardinality(before[y])
    BY <1>2, <2>1, FS_Subset
  <2>4. Cardinality(before[x]) \in Int /\ Cardinality(before[y]) \in Int
    BY <1>2
  <2> QED BY <2>2, <2>3, <2>4
<1>4. \A x, y \in S : rank[x] = rank[y] => x = y
  <2>1. \A x, y \in S : x # y => rank[x] < rank[y] \/ rank[y] < rank[x]
    BY <1>3 DEF Ordering
  <2>2. \A x \in S : rank[x] \in Int
    BY <1>1, <1>2
  <2> HIDE DEF rank
  <2> QED BY <2>1, <2>2
<1>5. \A r \in 0 .. n - 1 : \E x \in S : rank[x] = r
  <2>1. rank \in [S -> 0 .. n - 1]
    BY <1>2
  <2>2. IsFiniteSet(0 .. n - 1) /\ Cardinality(0 .. n - 1) = n
    <3>1. 0 \in Int /\ n - 1 \in Int
      BY <1>1
    <3>2. IsFiniteSet(0 .. n - 1) /\ Cardinality(0 .. n - 1) = IF 0 > n - 1 THEN 0 ELSE (n - 1) - 0 + 1
      BY <3>1, FS_Interval
    <3> QED BY <1>1, <3>2
  <2> HIDE DEF rank
  <2>3. rank \in Injection(S, 0 .. n - 1)
    BY <1>4, <2>1 DEF Injection, IsInjective
  <2>4. rank \in Surjection(S, 0 .. n - 1)
    BY <2>2, <2>3, FS_Injection
  <2> QED BY <2>4 DEF Surjection
<1>6. ASSUME NEW k \in 1 .. n PROVE at[k] \in S /\ rank[at[k]] = k - 1
  <2>1. k - 1 \in 0 .. n - 1
    BY <1>1
  <2>2. \E x \in S : rank[x] = k - 1
    BY <1>5, <2>1
  <2>3. at[k] = CHOOSE x \in S : Cardinality(before[x]) = k - 1
    BY Zenon DEF Sorted
  <2>4. \E x \in S : Cardinality(before[x]) = k - 1
    BY <2>2
  <2>5. at[k] \in S /\ Cardinality(before[at[k]]) = k - 1
    BY <2>3, <2>4, Zenon
  <2> QED BY <2>5
<1>7. at \in [1 .. n -> S]
  <2>1. at = [k \in 1 .. n |-> at[k]]
    BY DEF Sorted
  <2> HIDE DEF at
  <2> QED BY <1>6, <2>1
<1>8. ASSUME NEW x \in S PROVE \E k \in 1 .. n : at[k] = x
  <2>1. rank[x] \in Int /\ rank[x] + 1 \in 1 .. n /\ (rank[x] + 1) - 1 = rank[x]
    BY <1>1, <1>2
  <2>2. at[rank[x] + 1] \in S /\ rank[at[rank[x] + 1]] = rank[x]
    BY <1>6, <2>1
  <2> HIDE DEF rank, at
  <2>3. at[rank[x] + 1] = x
    BY <1>4, <2>2
  <2> QED BY <2>1, <2>3
<1> HIDE DEF rank, at
<1>9. ASSUME NEW i \in 1 .. n, NEW j \in 1 .. n, i < j PROVE at[i] \in before[at[j]]
  <2>1. at[i] \in S /\ at[j] \in S /\ rank[at[i]] = i - 1 /\ rank[at[j]] = j - 1
    BY <1>6
  <2>2. rank[at[i]] < rank[at[j]] /\ rank[at[i]] # rank[at[j]]
    BY <1>1, <1>9, <2>1
  <2>3. ~(rank[at[j]] < rank[at[i]])
    BY <1>1, <1>9, <2>1
  <2> QED BY <1>3, <2>1, <2>2, <2>3 DEF Ordering
<1>10. ASSUME NEW i \in 1 .. n, NEW j \in 1 .. n, at[i] = at[j] PROVE i = j
  <2>1. rank[at[i]] = i - 1 /\ rank[at[j]] = j - 1
    BY <1>6
  <2> QED BY <1>1, <1>10, <2>1
<1> HIDE DEF n
<1> QED BY <1>1, <1>7, <1>8, <1>9, <1>10 DEF at, n

\* The order of numbers is an order.
LEMMA InOrderIs ==
  ASSUME NEW S, S \subseteq Int, IsFiniteSet(S)
  PROVE  /\ Cardinality(S) \in Nat
         /\ InOrder(S) \in [1 .. Cardinality(S) -> S]
         /\ \A x \in S : \E k \in 1 .. Cardinality(S) : InOrder(S)[k] = x
         /\ \A i, j \in 1 .. Cardinality(S) : i < j => InOrder(S)[i] < InOrder(S)[j]
<1> DEFINE before == [x \in S |-> {y \in S : y < x}]
<1>1. Ordering(S, before)
  <2>1. \A x, y \in S : x # y => x < y \/ y < x
    OBVIOUS
  <2>2. \A x, y, z \in S : y < x /\ z < y => z < x
    OBVIOUS
  <2>3. \A x \in S : ~(x < x)
    OBVIOUS
  <2> QED BY <2>1, <2>2, <2>3, Zenon DEF Ordering
<1>2. \A x, y \in S : y \in before[x] => y < x
  OBVIOUS
<1> HIDE DEF before
<1>3. /\ Cardinality(S) \in Nat
      /\ Sorted(S, before) \in [1 .. Cardinality(S) -> S]
      /\ \A x \in S : \E k \in 1 .. Cardinality(S) : Sorted(S, before)[k] = x
      /\ \A i, j \in 1 .. Cardinality(S) :
           i < j => Sorted(S, before)[i] \in before[Sorted(S, before)[j]]
  BY <1>1, SortedIs
<1>4. InOrder(S) = Sorted(S, before)
  BY DEF InOrder, before
<1> QED BY <1>2, <1>3, <1>4

\* Positions to keep: a finite set of numbers.
Places(K) == K \subseteq Nat /\ IsFiniteSet(K)

\* The positions of a list are finite, and so are the ones among them.
LEMMA Positions ==
  ASSUME NEW n \in Nat, NEW K, K \subseteq 1 .. n
  PROVE  Places(K) /\ IsFiniteSet(K) /\ Cardinality(K) \in Nat
<1>1. IsFiniteSet(1 .. n)
  BY FS_Interval
<1>2. IsFiniteSet(K)
  BY <1>1, FS_Subset
<1>3. Cardinality(K) \in Nat
  BY <1>2, FS_CardinalityType
<1> QED BY <1>2, <1>3 DEF Places

\* (Iterator::filter) What is kept of a list is what stands at the positions kept.
LEMMA KeepHas ==
  ASSUME NEW s, NEW K, Places(K)
  PROVE  /\ Cardinality(K) \in Nat
         /\ Len(Keep(s, K)) = Cardinality(K)
         /\ DOMAIN Keep(s, K) = 1 .. Cardinality(K)
         /\ IsList(Keep(s, K))
         /\ Range(Keep(s, K)) = {s[i] : i \in K}
<1> DEFINE order == InOrder(K)
           n == Cardinality(K)
<1>1. /\ n \in Nat
      /\ order \in [1 .. n -> K]
      /\ \A x \in K : \E k \in 1 .. n : order[k] = x
  <2>1. K \subseteq Int /\ IsFiniteSet(K)
    BY DEF Places
  <2> QED BY <2>1, InOrderIs
<1>2. Keep(s, K) = [k \in 1 .. n |-> s[order[k]]]
  BY DEF Keep
<1> HIDE DEF order, n
<1>3. Len(Keep(s, K)) = n /\ DOMAIN Keep(s, K) = 1 .. n
  BY <1>1, <1>2
<1>4. \A i \in K : \E k \in 1 .. n : Keep(s, K)[k] = s[i]
  BY <1>1, <1>2
<1>5. \A k \in 1 .. n : \E i \in K : Keep(s, K)[k] = s[i]
  BY <1>1, <1>2
<1>6. Range(Keep(s, K)) = {s[i] : i \in K}
  <2> DEFINE kept == Keep(s, K)
  <2>1. Range(kept) = {kept[k] : k \in 1 .. n}
    BY <1>3 DEF Range
  <2>2. /\ \A i \in K : \E k \in 1 .. n : kept[k] = s[i]
        /\ \A k \in 1 .. n : \E i \in K : kept[k] = s[i]
    BY <1>4, <1>5
  <2> HIDE DEF kept
  <2>3. {kept[k] : k \in 1 .. n} = {s[i] : i \in K}
    BY <2>2
  <2> QED BY <2>1, <2>3 DEF kept
<1>7. IsList(Keep(s, K))
  <2> DEFINE kept == Keep(s, K)
  <2>1. kept = [k \in 1 .. n |-> kept[k]]
    BY <1>2
  <2> HIDE DEF kept
  <2>2. IsList(kept)
    BY <1>1, <1>3, <2>1 DEF IsList, kept
  <2> QED BY <2>2 DEF kept
<1> QED BY <1>1, <1>3, <1>6, <1>7, Zenon DEF n

\* One by one: everything at a position kept is in the new list,
LEMMA KeptFrom ==
  ASSUME NEW s, NEW K, Places(K), NEW i \in K
  PROVE  \E k \in 1 .. Cardinality(K) : Keep(s, K)[k] = s[i]
<1>1. s[i] \in Range(Keep(s, K)) /\ DOMAIN Keep(s, K) = 1 .. Cardinality(K)
  BY KeepHas
<1> QED BY <1>1 DEF Range

\* and nothing else.
LEMMA KeptAre ==
  ASSUME NEW s, NEW K, Places(K), NEW k \in 1 .. Cardinality(K)
  PROVE  \E i \in K : Keep(s, K)[k] = s[i]
<1>1. DOMAIN Keep(s, K) = 1 .. Cardinality(K) /\ Range(Keep(s, K)) = {s[i] : i \in K}
  BY KeepHas
<1>2. Keep(s, K)[k] \in Range(Keep(s, K))
  BY <1>1 DEF Range
<1> QED BY <1>1, <1>2

\* The largest number that is counted to.
LEMMA MaxOfCount ==
  ASSUME NEW n \in Nat, NEW s, s \subseteq 1 .. n + 1, n + 1 \in s
  PROVE  Max(s) = n + 1
<1>1. s \subseteq 0 .. n + 1 /\ s # {} /\ n + 1 \in Nat
  OBVIOUS
<1>2. Max(s) \in s /\ \A y \in s : y <= Max(s)
  BY <1>1, MaxIs
<1>3. \A y \in s : y <= n + 1 /\ y \in Int
  OBVIOUS
<1>4. Max(s) <= n + 1 /\ n + 1 <= Max(s) /\ Max(s) \in Int
  BY <1>2, <1>3
<1> QED BY <1>4

\* g folds a step over sets of the positions 1 .. n, the last one of a set last.
FoldsBy(g, A, base, step, n) ==
  /\ g \in [SUBSET (1 .. n) -> A]
  /\ \A s \in SUBSET (1 .. n) :
       g[s] = IF s = {} THEN base ELSE step[<<g[s \ {Max(s)}], Max(s)>>]

\* (Iterator::fold) Whatever the step, there is such a function.
LEMMA FoldExists ==
  ASSUME NEW A, NEW base \in A, NEW m \in Nat, NEW step \in [A \X (1 .. m) -> A]
  PROVE  \E g : FoldsBy(g, A, base, step, m)
<1> DEFINE P == {n \in Nat : n <= m => \E g : FoldsBy(g, A, base, step, n)}
<1>1. 0 \in P
  <2> DEFINE g == [s \in SUBSET (1 .. 0) |-> base]
  <2>1. 1 .. 0 = {}
    OBVIOUS
  <2>2. FoldsBy(g, A, base, step, 0)
    BY <2>1 DEF FoldsBy
  <2> HIDE DEF g
  <2> QED BY <2>2
<1>2. ASSUME NEW n \in Nat, n \in P PROVE n + 1 \in P
  <2> SUFFICES ASSUME n + 1 <= m PROVE \E h : FoldsBy(h, A, base, step, n + 1)
    OBVIOUS
  <2>1. PICK g : FoldsBy(g, A, base, step, n)
    BY <1>2
  <2> DEFINE h == [s \in SUBSET (1 .. n + 1) |->
                     IF n + 1 \in s THEN step[<<g[s \ {n + 1}], n + 1>>] ELSE g[s]]
  <2>2. ASSUME NEW s \in SUBSET (1 .. n + 1), n + 1 \notin s
        PROVE  s \in SUBSET (1 .. n) /\ h[s] = g[s]
    BY <2>2
  <2>3. ASSUME NEW s \in SUBSET (1 .. n + 1), n + 1 \in s
        PROVE  /\ Max(s) = n + 1 /\ s \ {Max(s)} \in SUBSET (1 .. n)
               /\ h[s] = step[<<g[s \ {n + 1}], n + 1>>]
               /\ h[s \ {n + 1}] = g[s \ {n + 1}]
    <3>1. Max(s) = n + 1
      BY <2>3, MaxOfCount
    <3>2. s \ {n + 1} \in SUBSET (1 .. n) /\ n + 1 \notin s \ {n + 1}
      BY <2>3
    <3>3. s \ {n + 1} \in SUBSET (1 .. n + 1)
      OBVIOUS
    <3>4. h[s \ {n + 1}] = g[s \ {n + 1}]
      BY <3>2, <3>3
    <3>5. h[s] = step[<<g[s \ {n + 1}], n + 1>>]
      BY <2>3
    <3> HIDE DEF h
    <3> QED BY <3>1, <3>2, <3>4, <3>5
  <2>4. \A s \in SUBSET (1 .. n) : g[s] \in A
    BY <2>1 DEF FoldsBy
  <2>5. ASSUME NEW s \in SUBSET (1 .. n + 1) PROVE h[s] \in A
    <3>1. CASE n + 1 \in s
      <4>1. s \ {n + 1} \in SUBSET (1 .. n)
        BY <2>3, <3>1
      <4>2. <<g[s \ {n + 1}], n + 1>> \in A \X (1 .. m)
        BY <2>4, <4>1
      <4> HIDE DEF h
      <4> QED BY <2>3, <3>1, <4>2
    <3> HIDE DEF h
    <3> QED BY <2>2, <2>4, <3>1
  <2>6. h \in [SUBSET (1 .. n + 1) -> A]
    <3>1. h = [s \in SUBSET (1 .. n + 1) |-> h[s]]
      OBVIOUS
    <3> HIDE DEF h
    <3> QED BY <2>5, <3>1
  <2>7. ASSUME NEW s \in SUBSET (1 .. n + 1)
        PROVE  h[s] = IF s = {} THEN base ELSE step[<<h[s \ {Max(s)}], Max(s)>>]
    <3> HIDE DEF h
    <3>1. CASE n + 1 \in s
      BY <2>3, <3>1
    <3>2. CASE n + 1 \notin s
      <4>1. s \in SUBSET (1 .. n) /\ h[s] = g[s]
        BY <2>2, <3>2
      <4>2. g[s] = IF s = {} THEN base ELSE step[<<g[s \ {Max(s)}], Max(s)>>]
        BY <2>1, <4>1 DEF FoldsBy
      <4>3. s \ {Max(s)} \in SUBSET (1 .. n + 1) /\ n + 1 \notin s \ {Max(s)}
        BY <3>2
      <4>4. h[s \ {Max(s)}] = g[s \ {Max(s)}]
        BY <2>2, <4>3
      <4> QED BY <4>1, <4>2, <4>4
    <3> QED BY <3>1, <3>2
  <2> HIDE DEF h
  <2> QED BY <2>6, <2>7 DEF FoldsBy
<1>3. m \in P
  <2> HIDE DEF P
  <2> QED BY <1>1, <1>2, Induction
<1> QED BY <1>3

\* Where the recursion of a fold is at the position k.
LEMMA FoldTurn ==
  ASSUME NEW k \in Nat \ {0}
  PROVE  /\ 1 .. k # {} /\ Max(1 .. k) = k
         /\ (1 .. k) \ {k} = 1 .. k - 1
<1>1. k - 1 \in Nat /\ (k - 1) + 1 = k
  OBVIOUS
<1>2. 1 .. k \subseteq 1 .. (k - 1) + 1 /\ (k - 1) + 1 \in 1 .. k
  OBVIOUS
<1>3. Max(1 .. k) = (k - 1) + 1
  BY <1>1, <1>2, MaxOfCount
<1> QED BY <1>1, <1>3

\* A list is a sequence of what it contains.
LEMMA ListIs ==
  ASSUME NEW s, IsList(s)
  PROVE  /\ Len(s) \in Nat /\ DOMAIN s = 1 .. Len(s)
         /\ s \in Seq(Range(s))
         /\ \A k \in 1 .. Len(s) : s[k] \in Range(s)
         /\ \A x \in Range(s) : \E k \in 1 .. Len(s) : x = s[k]
<1>1. Len(s) \in Nat /\ s = [k \in 1 .. Len(s) |-> s[k]]
  BY DEF IsList
<1>2. DOMAIN s = 1 .. Len(s)
  BY <1>1
<1>3. \A k \in 1 .. Len(s) : s[k] \in Range(s)
  BY <1>2 DEF Range
<1>4. s \in [1 .. Len(s) -> Range(s)]
  BY <1>1, <1>3
<1>5. s \in Seq(Range(s))
  BY <1>1, <1>4, SeqDef
<1> QED BY <1>1, <1>2, <1>3, <1>5 DEF Range

-----------------------------------------------------------------------------
(* The name given to Windows (name_match.rs).                              *)

\* The best name so far, name by name.
LEMMA NameTurns ==
  ASSUME NEW hint, NEW staged, IsList(staged)
  PROVE  \E acc : /\ acc[0] = <<>>
                  /\ \A k \in 1 .. Len(staged) :
                       acc[k] = BetterName(hint, acc[k - 1], staged[k])
                  /\ PickBestName(hint, staged) = acc[Len(staged)]
<1> DEFINE n == Len(staged)
           A == {<<>>} \cup {<<x>> : x \in Range(staged)}
           step == [p \in A \X (1 .. n) |-> BetterName(hint, p[1], staged[p[2]])]
           Turns(g) == g = [s \in SUBSET DOMAIN staged |->
                              IF s = {} THEN <<>>
                              ELSE BetterName(hint, g[s \ {Max(s)}], staged[Max(s)])]
           g0 == CHOOSE g : Turns(g)
<1>1. n \in Nat /\ DOMAIN staged = 1 .. n /\ \A k \in 1 .. n : staged[k] \in Range(staged)
  BY ListIs
<1>2. step \in [A \X (1 .. n) -> A]
  BY <1>1 DEF BetterName
<1>3. PICK g : FoldsBy(g, A, <<>>, step, n)
  <2>1. <<>> \in A
    OBVIOUS
  <2> HIDE DEF A, step
  <2> QED BY <1>1, <1>2, <2>1, FoldExists
<1>4. Turns(g)
  <2>1. ASSUME NEW s \in SUBSET (1 .. n), s # {}
        PROVE  g[s] = BetterName(hint, g[s \ {Max(s)}], staged[Max(s)])
    <3>1. Max(s) \in 1 .. n
      <4>1. s \subseteq 0 .. n
        BY <1>1
      <4> QED BY <1>1, <2>1, <4>1, MaxIs
    <3>2. g[s] = step[<<g[s \ {Max(s)}], Max(s)>>] /\ g[s \ {Max(s)}] \in A
      BY <2>1, <1>3 DEF FoldsBy
    <3> HIDE DEF A
    <3> QED BY <3>1, <3>2
  <2>2. g = [s \in SUBSET (1 .. n) |-> g[s]] /\ g[{}] = <<>>
    BY <1>3 DEF FoldsBy
  <2> QED BY <1>1, <2>1, <2>2
<1>5. Turns(g0)
  <2> HIDE DEF Turns
  <2> QED BY <1>4
<1>6. PickBestName(hint, staged) = g0[1 .. n]
  BY <1>1, Zenon DEF PickBestName, FoldLeft, MapThenFoldSet
<1> DEFINE acc == [k \in 0 .. n |-> g0[1 .. k]]
<1>7. acc[0] = <<>>
  <2>1. 1 .. 0 = {} /\ 0 \in 0 .. n
    BY <1>1
  <2> HIDE DEF g0
  <2> QED BY <1>5, <2>1
<1>8. ASSUME NEW k \in 1 .. n PROVE acc[k] = BetterName(hint, acc[k - 1], staged[k])
  <2>1. k \in Nat \ {0} /\ k - 1 \in 0 .. n /\ k \in 0 .. n /\ 1 .. k \in SUBSET (1 .. n)
    BY <1>1
  <2>2. 1 .. k # {} /\ Max(1 .. k) = k /\ (1 .. k) \ {k} = 1 .. k - 1
    BY <2>1, FoldTurn
  <2> HIDE DEF g0
  <2>3. g0[1 .. k] = BetterName(hint, g0[1 .. k - 1], staged[k])
    BY <1>1, <1>5, <2>1, <2>2
  <2> QED BY <2>1, <2>3
<1>9. n \in 0 .. n
  BY <1>1
<1> HIDE DEF g0
<1>10. PickBestName(hint, staged) = acc[n]
  BY <1>6, <1>9
<1> HIDE DEF acc
<1> QED BY <1>7, <1>8, <1>10

\* (pick_best_driver_name) No staged name shares more words with the hint.
LEMMA NameIs ==
  ASSUME NEW hint, NEW staged, IsList(hint), IsList(staged)
  PROVE  NameIsClosest(hint, staged, PickBestName(hint, staged))
<1> DEFINE n == Len(staged)
<1>1. n \in Nat /\ DOMAIN staged = 1 .. n
  BY ListIs
<1>2. \A x : Shared(hint, x) \in Nat
  <2> SUFFICES ASSUME NEW x PROVE Shared(hint, x) \in Nat
    OBVIOUS
  <2>1. Len(hint) \in Nat /\ DOMAIN hint = 1 .. Len(hint)
    BY ListIs
  <2>2. {i \in DOMAIN hint : hint[i] \in Range(x)} \subseteq 1 .. Len(hint)
    BY <2>1
  <2> QED BY <2>1, <2>2, Positions DEF Shared
<1>3. PICK acc : /\ acc[0] = <<>>
                 /\ \A k \in 1 .. n : acc[k] = BetterName(hint, acc[k - 1], staged[k])
                 /\ PickBestName(hint, staged) = acc[n]
  BY NameTurns
<1> DEFINE Best(k) == \E i \in 1 .. k :
                        /\ acc[k] = <<staged[i]>>
                        /\ \A j \in 1 .. k : Shared(hint, staged[j]) <= Shared(hint, staged[i])
           P == {k \in Nat : k \in 1 .. n => Best(k)}
<1>4. 0 \in P
  OBVIOUS
<1>5. ASSUME NEW k \in Nat, k \in P PROVE k + 1 \in P
  <2> SUFFICES ASSUME k + 1 \in 1 .. n PROVE Best(k + 1)
    OBVIOUS
  <2>1. acc[k + 1] = BetterName(hint, acc[k], staged[k + 1])
    <3>1. (k + 1) - 1 = k
      OBVIOUS
    <3> QED BY <1>3, <3>1
  <2>2. CASE k = 0
    <3>1. acc[k + 1] = <<staged[1]>>
      BY <1>3, <2>1, <2>2 DEF BetterName
    <3>2. 1 .. k + 1 = {1} /\ Shared(hint, staged[1]) <= Shared(hint, staged[1])
      BY <1>2, <2>2
    <3> QED BY <3>1, <3>2
  <2>3. CASE k # 0
    <3>1. k \in 1 .. n
      BY <2>3
    <3>2. PICK i \in 1 .. k :
            /\ acc[k] = <<staged[i]>>
            /\ \A j \in 1 .. k : Shared(hint, staged[j]) <= Shared(hint, staged[i])
      BY <1>5, <3>1
    <3>3. acc[k] # <<>> /\ acc[k][1] = staged[i]
      BY <3>2
    <3>4. 1 .. k + 1 = (1 .. k) \cup {k + 1}
      OBVIOUS
    <3>5. CASE Shared(hint, staged[k + 1]) > Shared(hint, staged[i])
      <4>1. acc[k + 1] = <<staged[k + 1]>>
        BY <2>1, <3>3, <3>5 DEF BetterName
      <4>2. \A j \in 1 .. k + 1 : Shared(hint, staged[j]) <= Shared(hint, staged[k + 1])
        <5>1. \A j \in 1 .. k : Shared(hint, staged[j]) <= Shared(hint, staged[k + 1])
          BY <1>2, <3>2, <3>5
        <5>2. Shared(hint, staged[k + 1]) <= Shared(hint, staged[k + 1])
          BY <1>2
        <5> QED BY <3>4, <5>1, <5>2
      <4> QED BY <3>4, <4>1, <4>2
    <3>6. CASE ~(Shared(hint, staged[k + 1]) > Shared(hint, staged[i]))
      <4>1. acc[k + 1] = <<staged[i]>>
        BY <2>1, <3>2, <3>3, <3>6 DEF BetterName
      <4>2. Shared(hint, staged[k + 1]) <= Shared(hint, staged[i])
        BY <1>2, <3>6
      <4> QED BY <3>2, <3>4, <4>1, <4>2
    <3> QED BY <3>5, <3>6
  <2> QED BY <2>2, <2>3
<1>6. n \in P
  <2> HIDE DEF P
  <2> QED BY <1>1, <1>4, <1>5, Induction
<1>7. CASE n = 0
  <2>1. staged = <<>> /\ PickBestName(hint, staged) = <<>>
    BY <1>3, <1>7 DEF IsList
  <2> QED BY <2>1 DEF NameIsClosest
<1>8. CASE n # 0
  <2>1. n \in 1 .. n
    BY <1>1, <1>8
  <2>2. PICK i \in 1 .. n :
            /\ acc[n] = <<staged[i]>>
            /\ \A j \in 1 .. n : Shared(hint, staged[j]) <= Shared(hint, staged[i])
    BY <1>6, <2>1
  <2>3. staged # <<>>
    BY <1>8
  <2>4. Range(acc[n]) = {staged[i]} /\ acc[n] # <<>> /\ acc[n][1] = staged[i]
    BY <2>2 DEF Range
  <2>5. staged[i] \in Range(staged) /\ \A x \in Range(staged) : \E j \in 1 .. n : x = staged[j]
    BY ListIs
  <2> QED BY <1>3, <2>2, <2>3, <2>4, <2>5 DEF NameIsClosest
<1> QED BY <1>7, <1>8

-----------------------------------------------------------------------------
(* One SDI index (sdi/index.rs).                                           *)

\* (validate_cross_references) In an accepted index a record leads to an INF.
LEMMA LinksHold ==
  ASSUME NEW x, IsIndex(x), Accepts(x), NEW r \in 0 .. x.count[HwidRecord] - 1, NEW id
  PROVE  BuildHit(x, id, x.hwid[r].desc) =
           [hwid |-> id, name |-> OrEmpty(ReadString(x, x.desc[x.hwid[r].desc].name)),
            inf |-> OrEmpty(ReadString(x, x.inf[x.mfr[x.desc[x.hwid[r].desc].mfr].inf].file))]
<1> DEFINE d == x.hwid[r].desc
           m == x.desc[d].mfr
           i == x.mfr[m].inf
<1>1. /\ x.count[Inffile] \in Nat /\ x.count[Manufacturer] \in Nat
      /\ x.count[Desc] \in Nat /\ x.count[HwidRecord] \in Nat
  BY DEF IsIndex, Inffile, Manufacturer, Desc, HwidRecord
<1>2. d \in Nat /\ d < x.count[Desc]
  BY DEF IsIndex, Accepts, ReferencesHold
<1> HIDE DEF d
<1>3. d \in 0 .. x.count[Desc] - 1
  BY <1>1, <1>2
<1>4. m \in Nat /\ m < x.count[Manufacturer]
  BY <1>3 DEF IsIndex, Accepts, ReferencesHold
<1> HIDE DEF m
<1>5. m \in 0 .. x.count[Manufacturer] - 1
  BY <1>1, <1>4
<1>6. i \in Nat /\ i < x.count[Inffile]
  BY <1>5 DEF IsIndex, Accepts, ReferencesHold
<1> HIDE DEF i
<1>7. ~(d >= x.count[Desc]) /\ ~(m >= x.count[Manufacturer]) /\ ~(i >= x.count[Inffile])
  BY <1>1, <1>2, <1>4, <1>6
<1>8. BuildHit(x, id, d) = [hwid |-> id, name |-> OrEmpty(ReadString(x, x.desc[d].name)),
                            inf |-> OrEmpty(ReadString(x, x.inf[i].file))]
  BY <1>7, Zenon DEF BuildHit, m, i
<1> QED BY <1>8 DEF d, m, i

\* A list that is filtered by what holds of all of it stays as long as it is.
LEMMA KeepAll ==
  ASSUME NEW n \in Nat, NEW s
  PROVE  Cardinality(1 .. n) = n /\ Len(Keep(s, 1 .. n)) = n
<1>1. IsFiniteSet(1 .. n) /\ Cardinality(1 .. n) = IF 1 > n THEN 0 ELSE n - 1 + 1
  BY FS_Interval
<1>2. Cardinality(1 .. n) = n
  BY <1>1
<1>3. Places(1 .. n)
  BY Positions
<1> QED BY <1>2, <1>3, KeepHas

\* Two ways to count records: from 0 and from 1.
LEMMA CountFromOne ==
  ASSUME NEW n \in Nat, NEW R, R \subseteq 0 .. n - 1
  PROVE  LET K == {i \in 1 .. n : i - 1 \in R}
         IN  /\ IsFiniteSet(K) /\ IsFiniteSet(R) /\ Cardinality(K) = Cardinality(R)
<1> DEFINE K == {i \in 1 .. n : i - 1 \in R}
           f == [r \in R |-> r + 1]
<1>1. IsFiniteSet(R)
  <2>1. 0 \in Int /\ n - 1 \in Int
    OBVIOUS
  <2>2. IsFiniteSet(0 .. n - 1)
    BY <2>1, FS_Interval
  <2> QED BY <2>2, FS_Subset
<1>2. f \in Bijection(R, K)
  <2>1. \A r \in R : r + 1 \in K
    <3>1. \A r \in R : r \in Int /\ r + 1 \in 1 .. n /\ (r + 1) - 1 = r
      OBVIOUS
    <3> QED BY <3>1
  <2>2. f \in [R -> K]
    BY <2>1
  <2>3. \A a, b \in R : f[a] = f[b] => a = b
    <3>1. \A r \in R : r \in Int /\ f[r] = r + 1
      OBVIOUS
    <3> HIDE DEF f
    <3> QED BY <3>1
  <2>4. \A k \in K : \E r \in R : f[r] = k
    <3>1. \A k \in K : k - 1 \in R /\ (k - 1) + 1 = k
      OBVIOUS
    <3> QED BY <3>1
  <2> HIDE DEF f, K
  <2> QED BY <2>2, <2>3, <2>4 DEF Bijection, Injection, IsInjective, Surjection
<1> HIDE DEF f, K
<1>3. ExistsBijection(R, K)
  BY <1>2 DEF ExistsBijection
<1>4. IsFiniteSet(K) /\ Cardinality(K) = Cardinality(R)
  BY <1>1, <1>3, FS_Bijection
<1> QED BY <1>1, <1>4 DEF K

\* (SdiIndex::find_matching) In an accepted index every record asked for answers.
LEMMA IndexIs ==
  ASSUME NEW x, NEW ids, IsIndex(x), Accepts(x)
  PROVE  EveryRecordAnswers(x, ids, FindHits(x, ids))
<1> DEFINE n == x.count[HwidRecord]
           records == [i \in 1 .. n |-> x.hwid[i - 1]]
           K == {i \in 1 .. n : Answers(x, ids, records[i])}
           asked == Keep(records, K)
           hits == [k \in DOMAIN asked |-> BuildHit(x, ReadString(x, asked[k].id), asked[k].desc)]
           R == {r \in 0 .. n - 1 : Answers(x, ids, x.hwid[r])}
           Hit(r) == [hwid |-> ReadString(x, x.hwid[r].id),
                      name |-> OrEmpty(ReadString(x, x.desc[x.hwid[r].desc].name)),
                      inf |-> OrEmpty(ReadString(x, x.inf[x.mfr[x.desc[x.hwid[r].desc].mfr].inf].file))]
<1>1. n \in Nat
  BY DEF IsIndex, Inffile, HwidRecord
<1>2. FindHits(x, ids) = Keep(hits, {k \in DOMAIN hits : hits[k] # NoHit})
  BY Zenon DEF FindHits
<1> HIDE DEF n
<1>3. K = {i \in 1 .. n : i - 1 \in R}
  <2>1. \A i \in 1 .. n : i - 1 \in 0 .. n - 1
    BY <1>1
  <2> QED BY <2>1
<1>4. Places(K) /\ Cardinality(K) = Cardinality(R) /\ Cardinality(K) \in Nat
  <2>1. R \subseteq 0 .. n - 1 /\ K \subseteq 1 .. n
    OBVIOUS
  <2> HIDE DEF R, K
  <2>2. Places(K) /\ Cardinality(K) \in Nat
    BY <1>1, <2>1, Positions
  <2>3. Cardinality(K) = Cardinality(R)
    BY <1>1, <1>3, <2>1, CountFromOne
  <2> QED BY <2>2, <2>3
<1> DEFINE c == Cardinality(K)
<1>5. /\ DOMAIN asked = 1 .. c
      /\ \A i \in K : \E k \in 1 .. c : asked[k] = records[i]
      /\ \A k \in 1 .. c : \E i \in K : asked[k] = records[i]
  <2> HIDE DEF K, records
  <2>1. DOMAIN asked = 1 .. c
    BY <1>4, KeepHas
  <2>2. ASSUME NEW i \in K PROVE \E k \in 1 .. c : asked[k] = records[i]
    BY <1>4, KeptFrom
  <2>3. ASSUME NEW k \in 1 .. c PROVE \E i \in K : asked[k] = records[i]
    BY <1>4, KeptAre
  <2> HIDE DEF asked, c
  <2> QED BY <2>1, <2>2, <2>3
<1>6. \A i \in K : i - 1 \in R /\ records[i] = x.hwid[i - 1]
  BY <1>3
<1>7. \A r \in R : r + 1 \in K /\ records[r + 1] = x.hwid[r]
  <2>1. \A r \in R : r + 1 \in 1 .. n /\ (r + 1) - 1 = r
    BY <1>1
  <2>2. \A r \in R : r + 1 \in K
    BY <1>3, <2>1
  <2> QED BY <2>1, <2>2
<1>8. \A r \in R : /\ BuildHit(x, ReadString(x, x.hwid[r].id), x.hwid[r].desc) = Hit(r)
                   /\ Hit(r) # NoHit
  <2> SUFFICES ASSUME NEW r \in R
               PROVE  /\ BuildHit(x, ReadString(x, x.hwid[r].id), x.hwid[r].desc) = Hit(r)
                      /\ Hit(r) # NoHit
    OBVIOUS
  <2>1. r \in 0 .. x.count[HwidRecord] - 1
    BY DEF n
  <2>2. BuildHit(x, ReadString(x, x.hwid[r].id), x.hwid[r].desc) = Hit(r)
    BY <2>1, LinksHold
  <2>3. DOMAIN Hit(r) # DOMAIN NoHit
    <3>1. "inf" \in DOMAIN Hit(r) /\ "inf" \notin DOMAIN NoHit
      BY DEF NoHit
    <3> QED BY <3>1
  <2> HIDE DEF Hit
  <2> QED BY <2>2, <2>3
<1> HIDE DEF records, R, K, asked, Hit
<1>9. \A k \in 1 .. c : \E r \in R : hits[k] = Hit(r)
  <2> SUFFICES ASSUME NEW k \in 1 .. c PROVE \E r \in R : hits[k] = Hit(r)
    OBVIOUS
  <2>1. PICK i \in K : asked[k] = records[i]
    BY <1>5
  <2>2. i - 1 \in R /\ asked[k] = x.hwid[i - 1]
    BY <1>6, <2>1
  <2>3. hits[k] = BuildHit(x, ReadString(x, asked[k].id), asked[k].desc)
    BY <1>5
  <2> HIDE DEF hits
  <2> QED BY <1>8, <2>2, <2>3
<1>10. \A r \in R : \E k \in 1 .. c : hits[k] = Hit(r)
  <2> SUFFICES ASSUME NEW r \in R PROVE \E k \in 1 .. c : hits[k] = Hit(r)
    OBVIOUS
  <2>1. PICK k \in 1 .. c : asked[k] = x.hwid[r]
    BY <1>5, <1>7
  <2>2. hits[k] = BuildHit(x, ReadString(x, asked[k].id), asked[k].desc)
    BY <1>5
  <2> HIDE DEF hits
  <2> QED BY <1>8, <2>1, <2>2
<1>11. DOMAIN hits = 1 .. c
  BY <1>5
<1> HIDE DEF hits
<1>12. {k \in DOMAIN hits : hits[k] # NoHit} = 1 .. c
  BY <1>8, <1>9, <1>11
<1>13. c \in Nat /\ c = Cardinality(R)
  BY <1>4
<1> HIDE DEF c
<1>14. /\ Len(FindHits(x, ids)) = c
       /\ DOMAIN FindHits(x, ids) = 1 .. c
       /\ \A k \in 1 .. c : \E j \in 1 .. c : FindHits(x, ids)[j] = hits[k]
  <2>1. Cardinality(1 .. c) = c /\ Places(1 .. c)
    BY <1>13, KeepAll, Positions
  <2>0. FindHits(x, ids) = Keep(hits, 1 .. c)
    BY <1>2, <1>12
  <2>2. /\ Len(FindHits(x, ids)) = c
        /\ DOMAIN FindHits(x, ids) = 1 .. c
    BY <2>0, <2>1, KeepHas
  <2>3. \A k \in 1 .. c : \E j \in 1 .. c : FindHits(x, ids)[j] = hits[k]
    <3>1. ASSUME NEW k \in 1 .. c PROVE \E j \in 1 .. c : FindHits(x, ids)[j] = hits[k]
      <4>1. \E j \in 1 .. Cardinality(1 .. c) : Keep(hits, 1 .. c)[j] = hits[k]
        BY <2>1, KeptFrom
      <4> QED BY <2>0, <2>1, <4>1
    <3> QED BY <3>1
  <2> QED BY <2>2, <2>3
<1>15. ASSUME NEW r \in R
       PROVE  \E h \in Range(FindHits(x, ids)) :
                 /\ h.hwid = x.text[x.hwid[r].id]
                 /\ h.inf = OrEmpty(ReadString(x, x.inf[x.mfr[x.desc[x.hwid[r].desc].mfr].inf].file))
  <2>1. PICK j \in 1 .. c : FindHits(x, ids)[j] = Hit(r)
    BY <1>10, <1>14
  <2>2. Hit(r) \in Range(FindHits(x, ids))
    BY <1>14, <2>1 DEF Range
  <2>3. ReadString(x, x.hwid[r].id) = x.text[x.hwid[r].id]
    BY DEF R, Answers, ReadString
  <2> QED BY <2>2, <2>3 DEF Hit
<1> QED BY <1>13, <1>14, <1>15 DEF EveryRecordAnswers, R, n

-----------------------------------------------------------------------------
(* The packs of the SDI tier (sdi/resolver.rs, add.rs).                    *)

\* A list with nothing in it is the empty one.
LEMMA EmptyIs ==
  ASSUME NEW s, IsList(s)
  PROVE  /\ s = <<>> <=> Len(s) = 0
         /\ s # <<>> <=> \E x : x \in Range(s)
<1>1. Len(s) \in Nat /\ s = [k \in 1 .. Len(s) |-> s[k]] /\ DOMAIN s = 1 .. Len(s)
  BY ListIs DEF IsList
<1>2. ASSUME Len(s) = 0 PROVE s = <<>>
  BY <1>1, <1>2
<1>3. ASSUME s = <<>> PROVE Len(s) = 0
  BY <1>3
<1>4. ASSUME s # <<>> PROVE \E x : x \in Range(s)
  <2>1. 1 \in DOMAIN s
    BY <1>1, <1>2, <1>4
  <2> QED BY <2>1 DEF Range
<1>5. ASSUME s = <<>> PROVE ~\E x : x \in Range(s)
  BY <1>5 DEF Range
<1> QED BY <1>2, <1>3, <1>4, <1>5

\* Two lists, one after the other.
LEMMA Joined ==
  ASSUME NEW T, NEW s \in Seq(T), NEW t \in Seq(T)
  PROVE  s \o t \in Seq(T) /\ Range(s \o t) = Range(s) \cup Range(t)
<1>1. /\ s \o t \in Seq(T) /\ Len(s \o t) = Len(s) + Len(t)
      /\ \A k \in 1 .. Len(s) + Len(t) : (s \o t)[k] = IF k <= Len(s) THEN s[k] ELSE t[k - Len(s)]
  OBVIOUS
<1>2. /\ Len(s) \in Nat /\ DOMAIN s = 1 .. Len(s)
      /\ Len(t) \in Nat /\ DOMAIN t = 1 .. Len(t)
      /\ DOMAIN (s \o t) = 1 .. Len(s) + Len(t)
  BY <1>1
<1>3. ASSUME NEW x \in Range(s) PROVE x \in Range(s \o t)
  <2>1. PICK k \in 1 .. Len(s) : x = s[k]
    BY <1>2 DEF Range
  <2>2. k \in 1 .. Len(s) + Len(t) /\ (s \o t)[k] = x
    BY <1>1, <1>2, <2>1
  <2> QED BY <1>2, <2>2 DEF Range
<1>4. ASSUME NEW x \in Range(t) PROVE x \in Range(s \o t)
  <2>1. PICK k \in 1 .. Len(t) : x = t[k]
    BY <1>2 DEF Range
  <2>2. /\ k + Len(s) \in 1 .. Len(s) + Len(t) /\ ~(k + Len(s) <= Len(s))
        /\ (k + Len(s)) - Len(s) = k
    BY <1>2
  <2>3. (s \o t)[k + Len(s)] = x
    BY <1>1, <2>1, <2>2
  <2> QED BY <1>2, <2>2, <2>3 DEF Range
<1>5. ASSUME NEW x \in Range(s \o t) PROVE x \in Range(s) \cup Range(t)
  <2>1. PICK k \in 1 .. Len(s) + Len(t) : x = (s \o t)[k]
    BY <1>2 DEF Range
  <2>2. CASE k <= Len(s)
    <3>1. k \in 1 .. Len(s) /\ x = s[k]
      BY <1>1, <2>1, <2>2
    <3> QED BY <1>2, <3>1 DEF Range
  <2>3. CASE ~(k <= Len(s))
    <3>1. k - Len(s) \in 1 .. Len(t) /\ x = t[k - Len(s)]
      BY <1>1, <1>2, <2>1, <2>3
    <3> QED BY <1>2, <3>1 DEF Range
  <2> QED BY <2>2, <2>3
<1> QED BY <1>1, <1>3, <1>4, <1>5

\* (SdiCandidate) What a pack is offered as.
Kind(f) == IF f.cached THEN "cached" ELSE "uncached"

\* (candidates_from_index) Every candidate of an index is of its pack, and cached if the pack is.
LEMMA CandidatesAre ==
  ASSUME NEW f, IsIndex(f.index), NEW ids
  PROVE  /\ IsList(CandidatesOf(f, ids))
         /\ \A c \in Range(CandidatesOf(f, ids)) :
              c.source = Kind(f) /\ c.pack = f.pack /\ c # NoCandidate
<1> DEFINE x == f.index
           n == x.count[HwidRecord]
           records == [i \in 1 .. n |-> x.hwid[i - 1]]
           K == {i \in DOMAIN records : Answers(x, ids, records[i])}
           asked == Keep(records, K)
           hits == [k \in DOMAIN asked |-> BuildHit(x, ReadString(x, asked[k].id), asked[k].desc)]
           J == {k \in DOMAIN hits : hits[k] # NoHit}
           found == FindHits(x, ids)
           I == {k \in DOMAIN found : found[k].name # <<>>}
           named == Keep(found, I)
<1>1. n \in Nat
  BY DEF IsIndex, Inffile, HwidRecord
<1>2. found = Keep(hits, J)
  BY Zenon DEF FindHits
<1>3. Places(K)
  <2>1. K \subseteq 1 .. n
    OBVIOUS
  <2> HIDE DEF K, n
  <2> QED BY <1>1, <2>1, Positions
<1> HIDE DEF K, n, records
<1>4. DOMAIN asked = 1 .. Cardinality(K) /\ Cardinality(K) \in Nat
  BY <1>3, KeepHas
<1> HIDE DEF asked
<1>5. Places(J)
  <2>1. J \subseteq 1 .. Cardinality(K)
    BY <1>4
  <2> HIDE DEF J
  <2> QED BY <1>4, <2>1, Positions
<1> HIDE DEF J, hits
<1>6. DOMAIN found = 1 .. Cardinality(J) /\ Cardinality(J) \in Nat
  BY <1>2, <1>5, KeepHas
<1> HIDE DEF found
<1>7. Places(I)
  <2>1. I \subseteq 1 .. Cardinality(J)
    BY <1>6
  <2> HIDE DEF I
  <2> QED BY <1>6, <2>1, Positions
<1> HIDE DEF I
<1>8. DOMAIN named = 1 .. Cardinality(I) /\ Cardinality(I) \in Nat
  BY <1>7, KeepHas
<1>9. CandidatesOf(f, ids) = [k \in DOMAIN named |->
            [source |-> Kind(f), pack |-> f.pack, driver |-> named[k].name, inf |-> named[k].inf]]
  BY Zenon DEF CandidatesOf, Kind, named, I, found, x
<1> HIDE DEF named
<1> DEFINE c == CandidatesOf(f, ids)
<1>10. DOMAIN c = 1 .. Cardinality(I) /\ Len(c) = Cardinality(I)
  BY <1>8, <1>9
<1>11. c = [k \in 1 .. Len(c) |-> c[k]]
  BY <1>8, <1>9, <1>10
<1>12. ASSUME NEW e \in Range(c) PROVE e.source = Kind(f) /\ e.pack = f.pack /\ e # NoCandidate
  <2>1. PICK k \in DOMAIN named :
          e = [source |-> Kind(f), pack |-> f.pack, driver |-> named[k].name, inf |-> named[k].inf]
    BY <1>9 DEF Range
  <2>2. "pack" \in DOMAIN e /\ "pack" \notin DOMAIN NoCandidate
    BY <2>1 DEF NoCandidate
  <2> QED BY <2>1, <2>2
<1> HIDE DEF c
<1> QED BY <1>8, <1>10, <1>11, <1>12 DEF IsList, c

\* (pick_sdi_candidate) What is picked is of the kind that was looked for.
LEMMA FirstFromIs ==
  ASSUME NEW c, IsList(c), NEW source
  PROVE  IF \E e \in Range(c) : e.source = source
         THEN FirstFrom(c, source) \in Range(c) /\ FirstFrom(c, source).source = source
         ELSE FirstFrom(c, source) = NoCandidate
<1> DEFINE I == {i \in 1 .. Len(c) : c[i].source = source}
<1>1. /\ Len(c) \in Nat /\ \A k \in 1 .. Len(c) : c[k] \in Range(c)
      /\ \A x \in Range(c) : \E k \in 1 .. Len(c) : x = c[k]
  BY ListIs
<1>2. FirstFrom(c, source) = IF (IF I # {} THEN Min(I) ELSE 0) = 0 THEN NoCandidate
                             ELSE c[IF I # {} THEN Min(I) ELSE 0]
  BY Zenon DEF FirstFrom, SelectInSeq
<1>3. CASE I = {}
  <2>1. \A e \in Range(c) : e.source # source
    BY <1>1, <1>3
  <2> HIDE DEF I
  <2> QED BY <1>2, <1>3, <2>1
<1>4. CASE I # {}
  <2>1. I \subseteq Nat
    OBVIOUS
  <2>2. Min(I) \in I
    <3> HIDE DEF I
    <3> QED BY <1>4, <2>1, MinIs
  <2>3. Min(I) \in 1 .. Len(c) /\ c[Min(I)].source = source
    BY <2>2
  <2>4. Min(I) # 0
    BY <2>3
  <2> HIDE DEF I
  <2>5. FirstFrom(c, source) = c[Min(I)]
    BY <1>2, <1>4, <2>4
  <2> QED BY <1>1, <2>3, <2>5
<1> QED BY <1>3, <1>4

\* What one index file adds to the candidates.
Offered(f, ids) == IF Accepts(f.index) THEN CandidatesOf(f, ids) ELSE <<>>

\* (enumerate_candidates) The candidates so far, file by file.
LEMMA EnumerateTurns ==
  ASSUME NEW files, IsList(files), \A f \in Range(files) : IsIndex(f.index), NEW ids
  PROVE  LET T == UNION {Range(CandidatesOf(f, ids)) : f \in Range(files)}
         IN  \E acc : /\ acc[0] = <<>>
                      /\ \A k \in 0 .. Len(files) : acc[k] \in Seq(T)
                      /\ \A k \in 1 .. Len(files) :
                           /\ Offered(files[k], ids) \in Seq(T)
                           /\ acc[k] = acc[k - 1] \o Offered(files[k], ids)
                      /\ Enumerate(files, ids) = acc[Len(files)]
<1> DEFINE T == UNION {Range(CandidatesOf(f, ids)) : f \in Range(files)}
           n == Len(files)
           A == Seq(T)
           step == [p \in A \X (1 .. n) |-> p[1] \o Offered(files[p[2]], ids)]
           Turns(g) == g = [s \in SUBSET DOMAIN files |->
                              IF s = {} THEN <<>>
                              ELSE g[s \ {Max(s)}] \o Offered(files[Max(s)], ids)]
           g0 == CHOOSE g : Turns(g)
<1>1. n \in Nat /\ DOMAIN files = 1 .. n /\ \A k \in 1 .. n : files[k] \in Range(files)
  BY ListIs
<1>2. \A k \in 1 .. n : Offered(files[k], ids) \in A
  <2> SUFFICES ASSUME NEW k \in 1 .. n PROVE Offered(files[k], ids) \in A
    OBVIOUS
  <2> DEFINE c == CandidatesOf(files[k], ids)
  <2>1. IsList(c)
    BY <1>1, CandidatesAre
  <2>2. Range(c) \subseteq T
    BY <1>1
  <2> HIDE DEF T
  <2>3. c \in Seq(Range(c))
    BY <2>1, ListIs
  <2> HIDE DEF c
  <2>4. c \in Seq(T)
    BY <2>2, <2>3
  <2>5. Offered(files[k], ids) = c \/ Offered(files[k], ids) = <<>>
    BY DEF Offered, c
  <2> HIDE DEF A
  <2>6. <<>> \in A /\ c \in A
    BY <2>4 DEF A
  <2> QED BY <2>5, <2>6
<1> HIDE DEF T
<1>3. step \in [A \X (1 .. n) -> A]
  <2>1. \A p \in A \X (1 .. n) : p[1] \o Offered(files[p[2]], ids) \in A
    BY <1>2
  <2> QED BY <2>1
<1>4. PICK g : FoldsBy(g, A, <<>>, step, n)
  <2>1. <<>> \in A
    OBVIOUS
  <2> HIDE DEF A, step
  <2> QED BY <1>1, <1>3, <2>1, FoldExists
<1>5. Turns(g)
  <2>1. ASSUME NEW s \in SUBSET (1 .. n), s # {}
        PROVE  g[s] = g[s \ {Max(s)}] \o Offered(files[Max(s)], ids)
    <3>1. Max(s) \in 1 .. n
      <4>1. s \subseteq 0 .. n
        BY <1>1
      <4> QED BY <1>1, <2>1, <4>1, MaxIs
    <3>2. g[s] = step[<<g[s \ {Max(s)}], Max(s)>>] /\ g[s \ {Max(s)}] \in A
      BY <2>1, <1>4 DEF FoldsBy
    <3> HIDE DEF A
    <3> QED BY <3>1, <3>2
  <2>2. g = [s \in SUBSET (1 .. n) |-> g[s]] /\ g[{}] = <<>>
    BY <1>4 DEF FoldsBy
  <2> QED BY <1>1, <2>1, <2>2
<1>6. Turns(g0)
  <2> HIDE DEF Turns
  <2> QED BY <1>5
<1>7. Enumerate(files, ids) = g0[1 .. n]
  BY <1>1, Zenon DEF Enumerate, FoldLeft, MapThenFoldSet, Offered
<1> DEFINE acc == [k \in 0 .. n |-> g0[1 .. k]]
<1>8. acc[0] = <<>>
  <2>1. 1 .. 0 = {} /\ 0 \in 0 .. n
    BY <1>1
  <2> HIDE DEF g0
  <2> QED BY <1>6, <2>1
<1>9. ASSUME NEW k \in 1 .. n PROVE acc[k] = acc[k - 1] \o Offered(files[k], ids)
  <2>1. k \in Nat \ {0} /\ k - 1 \in 0 .. n /\ k \in 0 .. n /\ 1 .. k \in SUBSET (1 .. n)
    BY <1>1
  <2>2. 1 .. k # {} /\ Max(1 .. k) = k /\ (1 .. k) \ {k} = 1 .. k - 1
    BY <2>1, FoldTurn
  <2> HIDE DEF g0
  <2>3. g0[1 .. k] = g0[1 .. k - 1] \o Offered(files[k], ids)
    BY <1>1, <1>6, <2>1, <2>2
  <2> QED BY <2>1, <2>3
<1>10. n \in 0 .. n
  BY <1>1
<1> HIDE DEF g0
<1>11. Enumerate(files, ids) = acc[n]
  BY <1>7, <1>10
<1> HIDE DEF acc, A
<1>12. \A k \in 0 .. n : acc[k] \in A
  <2> DEFINE P == {k \in Nat : k <= n => acc[k] \in A}
  <2>1. 0 \in P
    <3>1. <<>> \in A
      BY DEF A
    <3> QED BY <1>8, <3>1
  <2>2. ASSUME NEW k \in Nat, k \in P PROVE k + 1 \in P
    <3> SUFFICES ASSUME k + 1 <= n PROVE acc[k + 1] \in A
      OBVIOUS
    <3>1. k + 1 \in 1 .. n /\ (k + 1) - 1 = k /\ acc[k] \in A
      BY <1>1, <2>2
    <3>2. acc[k + 1] = acc[k] \o Offered(files[k + 1], ids) /\ Offered(files[k + 1], ids) \in A
      BY <1>2, <1>9, <3>1
    <3> QED BY <3>1, <3>2 DEF A
  <2> HIDE DEF P
  <2>3. \A k \in Nat : k \in P
    BY <2>1, <2>2, Induction
  <2> QED BY <1>1, <2>3 DEF P
<1> QED BY <1>2, <1>8, <1>9, <1>11, <1>12 DEF A, T, n

\* (enumerate_candidates) The candidates are what the readable indexes offer.
LEMMA EnumerateIs ==
  ASSUME NEW files, IsList(files), \A f \in Range(files) : IsIndex(f.index), NEW ids
  PROVE  /\ IsList(Enumerate(files, ids))
         /\ Range(Enumerate(files, ids)) =
              UNION {Range(CandidatesOf(f, ids)) : f \in {g \in Range(files) : Accepts(g.index)}}
<1> DEFINE T == UNION {Range(CandidatesOf(f, ids)) : f \in Range(files)}
           n == Len(files)
<1>1. /\ n \in Nat /\ \A k \in 1 .. n : files[k] \in Range(files)
      /\ \A f \in Range(files) : \E k \in 1 .. n : f = files[k]
  BY ListIs
<1>2. PICK acc : /\ acc[0] = <<>>
                 /\ \A k \in 0 .. n : acc[k] \in Seq(T)
                 /\ \A k \in 1 .. n :
                      /\ Offered(files[k], ids) \in Seq(T)
                      /\ acc[k] = acc[k - 1] \o Offered(files[k], ids)
                 /\ Enumerate(files, ids) = acc[n]
  BY EnumerateTurns
<1> HIDE DEF T
<1> DEFINE P == {k \in Nat : k <= n =>
                   Range(acc[k]) = UNION {Range(Offered(files[j], ids)) : j \in 1 .. k}}
<1>3. 0 \in P
  <2>1. Range(<<>>) = {}
    BY DEF Range
  <2>2. 1 .. 0 = {}
    OBVIOUS
  <2> QED BY <1>2, <2>1, <2>2
<1>4. ASSUME NEW k \in Nat, k \in P PROVE k + 1 \in P
  <2> SUFFICES ASSUME k + 1 <= n
               PROVE  Range(acc[k + 1]) = UNION {Range(Offered(files[j], ids)) : j \in 1 .. k + 1}
    OBVIOUS
  <2>1. k \in 0 .. n /\ k + 1 \in 1 .. n /\ (k + 1) - 1 = k /\ k <= n
    BY <1>1
  <2>2. acc[k + 1] = acc[k] \o Offered(files[k + 1], ids)
    BY <1>2, <2>1
  <2>3. Range(acc[k + 1]) = Range(acc[k]) \cup Range(Offered(files[k + 1], ids))
    <3>1. acc[k] \in Seq(T) /\ Offered(files[k + 1], ids) \in Seq(T)
      BY <1>2, <2>1
    <3> QED BY <2>2, <3>1, Joined
  <2>4. Range(acc[k]) = UNION {Range(Offered(files[j], ids)) : j \in 1 .. k}
    BY <1>4, <2>1
  <2>5. 1 .. k + 1 = (1 .. k) \cup {k + 1}
    OBVIOUS
  <2> QED BY <2>3, <2>4, <2>5, Zenon
<1>5. n \in P
  <2> HIDE DEF P
  <2> QED BY <1>1, <1>3, <1>4, Induction
<1>6. Range(Enumerate(files, ids)) = UNION {Range(Offered(files[j], ids)) : j \in 1 .. n}
  BY <1>1, <1>2, <1>5
<1>7. \A f \in Range(files) : ~Accepts(f.index) => Range(Offered(f, ids)) = {}
  BY DEF Offered, Range
<1>8. \A f \in Range(files) : Accepts(f.index) => Offered(f, ids) = CandidatesOf(f, ids)
  BY DEF Offered
<1>9. UNION {Range(Offered(files[j], ids)) : j \in 1 .. n} =
        UNION {Range(CandidatesOf(f, ids)) : f \in {g \in Range(files) : Accepts(g.index)}}
  <2>1. ASSUME NEW e, NEW j \in 1 .. n, e \in Range(Offered(files[j], ids))
        PROVE  \E f \in {g \in Range(files) : Accepts(g.index)} : e \in Range(CandidatesOf(f, ids))
    BY <1>1, <1>7, <1>8, <2>1
  <2>2. ASSUME NEW e, NEW f \in {g \in Range(files) : Accepts(g.index)},
               e \in Range(CandidatesOf(f, ids))
        PROVE  \E j \in 1 .. n : e \in Range(Offered(files[j], ids))
    BY <1>1, <1>8, <2>2
  <2> QED BY <2>1, <2>2
<1>10. n \in 0 .. n
  BY <1>1
<1>11. Enumerate(files, ids) \in Seq(T)
  BY <1>2, <1>10
<1>12. IsList(Enumerate(files, ids))
  BY <1>11 DEF IsList
<1> QED BY <1>6, <1>9, <1>12

\* (run_auto_sdi) What is picked when all the indexes were read.
LEMMA PackIs ==
  ASSUME NEW files, IsList(files),
         \A f \in Range(files) : IsIndex(f.index) /\ f.cached \in BOOLEAN,
         NEW ids, NEW allow
  PROVE  BadIndexHidesNothing(files, ids, allow, PickCandidate(Enumerate(files, ids), allow))
<1> DEFINE good == {f \in Range(files) : Accepts(f.index)}
           c == Enumerate(files, ids)
           pick == PickCandidate(c, allow)
           packs(cached) == {f.pack : f \in {g \in Range(files) :
                               /\ g.cached = cached /\ Accepts(g.index)
                               /\ CandidatesOf(g, ids) # <<>>}}
<1>1. IsList(c) /\ \A e : e \in Range(c) <=> \E f \in good : e \in Range(CandidatesOf(f, ids))
  BY EnumerateIs
<1>2. ASSUME NEW f \in good
      PROVE  /\ CandidatesOf(f, ids) # <<>> <=> \E e : e \in Range(CandidatesOf(f, ids))
             /\ \A e \in Range(CandidatesOf(f, ids)) :
                  e.source = Kind(f) /\ e.pack = f.pack /\ e # NoCandidate
  <2>1. IsIndex(f.index)
    OBVIOUS
  <2>2. IsList(CandidatesOf(f, ids))
    BY <2>1, CandidatesAre
  <2>3. \A e \in Range(CandidatesOf(f, ids)) :
          e.source = Kind(f) /\ e.pack = f.pack /\ e # NoCandidate
    BY <2>1, CandidatesAre
  <2>4. CandidatesOf(f, ids) # <<>> <=> \E e : e \in Range(CandidatesOf(f, ids))
    BY <2>2, EmptyIs
  <2> QED BY <2>3, <2>4
<1>3. \A f \in Range(files) : f.cached \in BOOLEAN
  OBVIOUS
<1>4. ASSUME NEW cached \in BOOLEAN, NEW source, source = IF cached THEN "cached" ELSE "uncached"
      PROVE  IF packs(cached) # {}
             THEN /\ FirstFrom(c, source) # NoCandidate
                  /\ FirstFrom(c, source).source = source
                  /\ FirstFrom(c, source).pack \in packs(cached)
             ELSE FirstFrom(c, source) = NoCandidate
  <2>1. \A f \in good : Kind(f) = source <=> f.cached = cached
    BY <1>3, <1>4 DEF Kind
  <2>2. ASSUME NEW e \in Range(c), e.source = source
        PROVE  e.pack \in packs(cached) /\ e # NoCandidate
    <3>1. PICK f \in good : e \in Range(CandidatesOf(f, ids))
      BY <1>1
    <3>2. e.source = Kind(f) /\ e.pack = f.pack /\ e # NoCandidate /\ CandidatesOf(f, ids) # <<>>
      BY <1>2, <3>1
    <3>3. f.cached = cached
      BY <2>1, <2>2, <3>2
    <3> QED BY <3>2, <3>3
  <2>3. ASSUME packs(cached) # {} PROVE \E e \in Range(c) : e.source = source
    <3>1. PICK f \in good : f.cached = cached /\ CandidatesOf(f, ids) # <<>>
      BY <2>3
    <3>2. PICK e : e \in Range(CandidatesOf(f, ids))
      BY <1>2, <3>1
    <3>3. e \in Range(c) /\ e.source = Kind(f)
      BY <1>1, <1>2, <3>2
    <3> QED BY <2>1, <3>1, <3>3
  <2> HIDE DEF c, good, packs
  <2>4. IF \E e \in Range(c) : e.source = source
        THEN FirstFrom(c, source) \in Range(c) /\ FirstFrom(c, source).source = source
        ELSE FirstFrom(c, source) = NoCandidate
    BY <1>1, FirstFromIs
  <2> QED BY <2>2, <2>3, <2>4
<1>5. IF packs(TRUE) # {}
      THEN /\ FirstFrom(c, "cached") # NoCandidate
           /\ FirstFrom(c, "cached").source = "cached"
           /\ FirstFrom(c, "cached").pack \in packs(TRUE)
      ELSE FirstFrom(c, "cached") = NoCandidate
  <2> HIDE DEF c, packs
  <2> QED BY <1>4
<1>6. IF packs(FALSE) # {}
      THEN /\ FirstFrom(c, "uncached") # NoCandidate
           /\ FirstFrom(c, "uncached").source = "uncached"
           /\ FirstFrom(c, "uncached").pack \in packs(FALSE)
      ELSE FirstFrom(c, "uncached") = NoCandidate
  <2> HIDE DEF c, packs
  <2> QED BY <1>4
<1>7. pick = IF FirstFrom(c, "cached") # NoCandidate \/ ~allow THEN FirstFrom(c, "cached")
             ELSE FirstFrom(c, "uncached")
  BY DEF PickCandidate
<1> HIDE DEF packs, c, pick
<1>8. (CASE packs(TRUE) # {} -> pick.source = "cached" /\ pick.pack \in packs(TRUE)
        [] packs(TRUE) = {} /\ packs(FALSE) # {} /\ allow ->
             pick.source = "uncached" /\ pick.pack \in packs(FALSE)
        [] OTHER -> pick = NoCandidate)
  BY <1>5, <1>6, <1>7
<1> QED BY <1>8 DEF BadIndexHidesNothing, packs, pick, c

-----------------------------------------------------------------------------
(* The addresses of a scan (discovery/subnet.rs).                          *)

\* Multiplication keeps numbers apart.
LEMMA Times ==
  ASSUME NEW B \in Nat, NEW q \in Nat, NEW p \in Nat
  PROVE  B * q \in Nat /\ (q < p => B * q + B <= B * p)
<1>1. B * q \in Nat
  OBVIOUS
<1>2. ASSUME q < p PROVE B * q + B <= B * p
  <2> DEFINE d == p - q - 1
  <2>1. d \in Nat /\ q + 1 \in Nat
    BY <1>2
  <2>2. (q + 1) + d = p
    OBVIOUS
  <2> HIDE DEF d
  <2>3. B * ((q + 1) + d) = B * (q + 1) + B * d
    BY <2>1
  <2>4. B * (q + 1) = B * q + B * 1
    OBVIOUS
  <2>5. B * d \in Nat
    BY <2>1
  <2>6. B * p = B * q + B + B * d
    BY <2>2, <2>3, <2>4
  <2> DEFINE x == B * q
             y == B * d
             z == B * p
  <2>7. x \in Nat /\ y \in Nat /\ z = x + B + y
    BY <1>1, <2>5, <2>6
  <2> HIDE DEF x, y, z
  <2>8. x + B <= z
    BY <2>7
  <2> QED BY <2>8 DEF x, z
<1> QED BY <1>1, <1>2

\* Dividing by a positive number: the quotient is the number of whole blocks.
LEMMA Division ==
  ASSUME NEW B \in Nat \ {0}, NEW a \in Nat
  PROVE  /\ a \div B \in Nat /\ B * (a \div B) \in Nat
         /\ B * (a \div B) <= a /\ a <= B * (a \div B) + B - 1
         /\ a - (a % B) = B * (a \div B)
<1> DEFINE q == a \div B
           r == a % B
           x == B * q
<1>1. q \in Int
  OBVIOUS
<1>2. q >= 0
  OBVIOUS
<1>3. r \in 0 .. B - 1
  OBVIOUS
<1>4. a = x + r
  OBVIOUS
<1> HIDE DEF q, r
<1>5. x \in Nat
  BY <1>1, <1>2, Times
<1> HIDE DEF x
<1>6. x <= a /\ a <= x + B - 1 /\ a - r = x
  BY <1>3, <1>4, <1>5
<1>7. q \in Nat
  BY <1>1, <1>2
<1> QED BY <1>5, <1>6, <1>7 DEF q, r, x

\* There is one quotient.
LEMMA Quotient ==
  ASSUME NEW B \in Nat \ {0}, NEW a \in Nat, NEW q \in Nat, B * q <= a, a <= B * q + B - 1
  PROVE  a \div B = q
<1> DEFINE p == a \div B
           x == B * p
           y == B * q
<1>1. p \in Nat /\ x \in Nat /\ x <= a /\ a <= x + B - 1
  BY Division
<1> HIDE DEF p
<1>2. (p < q => x + B <= y) /\ (q < p => y + B <= x) /\ y \in Nat
  BY <1>1, Times
<1>3. y <= a /\ a <= y + B - 1
  OBVIOUS
<1> HIDE DEF x, y
<1>4. ~(p < q) /\ ~(q < p)
  BY <1>1, <1>2, <1>3
<1>5. p = q
  BY <1>1, <1>4
<1> QED BY <1>5 DEF p

\* The addresses of a block are the ones between its first and its last.
LEMMA Blocks ==
  ASSUME NEW B \in Nat \ {0}, NEW ip \in Nat, NEW a \in Nat
  PROVE  a \div B = ip \div B <=> ip - (ip % B) <= a /\ a <= ip - (ip % B) + B - 1
<1> DEFINE q == ip \div B
           p == a \div B
<1>1. q \in Nat /\ ip - (ip % B) = B * q
  BY Division
<1>2. B * p <= a /\ a <= B * p + B - 1
  BY Division
<1> HIDE DEF p, q
<1>3. B * q <= a /\ a <= B * q + B - 1 => p = q
  BY <1>1, Quotient DEF p
<1>4. p = q <=> B * q <= a /\ a <= B * q + B - 1
  BY <1>2, <1>3
<1> QED BY <1>1, <1>4 DEF p, q

\* Doubling, as far as a number.
DoublesTo(g, n) ==
  /\ g \in [0 .. n -> Nat]
  /\ g[0] = 1 /\ \A k \in 1 .. n : g[k] = 2 * g[k - 1]

\* There is such a function however far,
LEMMA DoublesExist ==
  ASSUME NEW n \in Nat
  PROVE  \E g : DoublesTo(g, n)
<1> DEFINE P == {k \in Nat : \E g : DoublesTo(g, k)}
<1>1. 0 \in P
  <2>1. DoublesTo([k \in 0 .. 0 |-> 1], 0)
    BY DEF DoublesTo
  <2> QED BY <2>1
<1>2. ASSUME NEW k \in Nat, k \in P PROVE k + 1 \in P
  <2>1. PICK g : DoublesTo(g, k)
    BY <1>2
  <2> DEFINE h == [j \in 0 .. k + 1 |-> IF j = k + 1 THEN 2 * g[k] ELSE g[j]]
  <2>2. g[k] \in Nat /\ \A j \in 0 .. k : g[j] \in Nat
    BY <2>1 DEF DoublesTo
  <2>3. h \in [0 .. k + 1 -> Nat]
    BY <2>2
  <2>4. h[0] = 1
    BY <2>1 DEF DoublesTo
  <2>5. ASSUME NEW j \in 1 .. k + 1 PROVE h[j] = 2 * h[j - 1]
    <3>1. CASE j = k + 1
      <4>1. j - 1 \in 0 .. k + 1 /\ j - 1 # k + 1 /\ j - 1 = k
        BY <3>1
      <4> QED BY <3>1, <4>1
    <3>2. CASE j # k + 1
      <4>1. j \in 1 .. k /\ j - 1 \in 0 .. k + 1 /\ j - 1 # k + 1 /\ j \in 0 .. k + 1
        BY <3>2
      <4>2. g[j] = 2 * g[j - 1]
        BY <2>1, <4>1 DEF DoublesTo
      <4> QED BY <3>2, <4>1, <4>2
    <3> QED BY <3>1, <3>2
  <2>6. DoublesTo(h, k + 1)
    <3> HIDE DEF h
    <3> QED BY <2>3, <2>4, <2>5 DEF DoublesTo
  <2> QED BY <2>6
<1> HIDE DEF P
<1>3. n \in P
  BY <1>1, <1>2, Induction
<1> QED BY <1>3 DEF P

\* and two of them agree.
LEMMA DoublesAgree ==
  ASSUME NEW n \in Nat, NEW m \in Nat, NEW g, NEW h, DoublesTo(g, n), DoublesTo(h, m)
  PROVE  \A k \in Nat : k <= n /\ k <= m => g[k] = h[k]
<1> DEFINE P == {k \in Nat : k <= n /\ k <= m => g[k] = h[k]}
<1>1. 0 \in P
  BY DEF DoublesTo
<1>2. ASSUME NEW k \in Nat, k \in P PROVE k + 1 \in P
  <2> SUFFICES ASSUME k + 1 <= n, k + 1 <= m PROVE g[k + 1] = h[k + 1]
    OBVIOUS
  <2>1. k + 1 \in 1 .. n /\ k + 1 \in 1 .. m /\ (k + 1) - 1 = k /\ g[k] = h[k]
    BY <1>2
  <2>2. g[k + 1] = 2 * g[k] /\ h[k + 1] = 2 * h[k]
    BY <2>1 DEF DoublesTo
  <2> QED BY <2>1, <2>2
<1> HIDE DEF P
<1>3. \A k \in Nat : k \in P
  BY <1>1, <1>2, Induction
<1> QED BY <1>3 DEF P

\* (1u32 << k) The powers of two double.
LEMMA Powers ==
  /\ Pow2[0] = 1
  /\ \A k \in Nat : Pow2[k] \in Nat \ {0} /\ Pow2[k + 1] = 2 * Pow2[k]
<1> DEFINE To(n) == CHOOSE g : DoublesTo(g, n)
           h == [n \in Nat |-> To(n)[n]]
           Is(p) == p = [k \in Nat |-> IF k = 0 THEN 1 ELSE 2 * p[k - 1]]
<1>1. \A n \in Nat : DoublesTo(To(n), n)
  BY DoublesExist
<1>2. h[0] = 1
  BY <1>1 DEF DoublesTo
<1>3. ASSUME NEW k \in Nat, k # 0 PROVE h[k] = 2 * h[k - 1]
  <2>1. k - 1 \in Nat /\ k - 1 <= k /\ k - 1 <= k - 1 /\ k \in 1 .. k
    BY <1>3
  <2>2. DoublesTo(To(k), k) /\ DoublesTo(To(k - 1), k - 1)
    BY <1>1, <2>1
  <2> HIDE DEF To
  <2>3. To(k)[k] = 2 * To(k)[k - 1]
    BY <2>1, <2>2 DEF DoublesTo
  <2>4. To(k)[k - 1] = To(k - 1)[k - 1]
    BY <2>1, <2>2, DoublesAgree
  <2> QED BY <2>1, <2>3, <2>4
<1> HIDE DEF h
<1>4. Is(h)
  <2>1. h = [n \in Nat |-> h[n]]
    BY DEF h
  <2> QED BY <1>2, <1>3, <2>1
<1> HIDE DEF Is
<1>5. Is(CHOOSE p : Is(p))
  BY <1>4
<1>6. Pow2 = CHOOSE p : Is(p)
  BY Zenon DEF Pow2, Is
<1>7. Is(Pow2)
  BY <1>5, <1>6
<1>8. Pow2[0] = 1
  BY <1>7 DEF Is
<1>9. ASSUME NEW k \in Nat PROVE Pow2[k + 1] = 2 * Pow2[k]
  <2>1. k + 1 \in Nat /\ k + 1 # 0 /\ (k + 1) - 1 = k
    OBVIOUS
  <2> QED BY <1>7, <2>1 DEF Is
<1> DEFINE P == {k \in Nat : Pow2[k] \in Nat \ {0}}
<1>10. 0 \in P
  BY <1>8
<1>11. ASSUME NEW k \in Nat, k \in P PROVE k + 1 \in P
  BY <1>9, <1>11
<1> HIDE DEF P
<1>12. \A k \in Nat : k \in P
  BY <1>10, <1>11, Induction
<1> QED BY <1>8, <1>9, <1>12 DEF P

\* A power is made of smaller ones.
LEMMA PowersSplit ==
  ASSUME NEW a \in Nat, NEW b \in Nat
  PROVE  Pow2[a + b] = Pow2[a] * Pow2[b]
<1> DEFINE P == {k \in Nat : Pow2[a + k] = Pow2[a] * Pow2[k]}
<1>1. 0 \in P
  BY Powers
<1>2. ASSUME NEW k \in Nat, k \in P PROVE k + 1 \in P
  <2>1. a + (k + 1) = (a + k) + 1 /\ a + k \in Nat
    OBVIOUS
  <2>2. Pow2[a + (k + 1)] = 2 * Pow2[a + k] /\ Pow2[k + 1] = 2 * Pow2[k]
    BY <2>1, Powers
  <2>3. Pow2[a] \in Nat /\ Pow2[k] \in Nat /\ Pow2[a + k] \in Nat
    BY <2>1, Powers
  <2>4. Pow2[a + k] = Pow2[a] * Pow2[k]
    BY <1>2
  <2>5. Pow2[a] * (2 * Pow2[k]) = 2 * (Pow2[a] * Pow2[k])
    BY <2>3
  <2> QED BY <2>2, <2>4, <2>5
<1> HIDE DEF P
<1>3. b \in P
  BY <1>1, <1>2, Induction
<1> QED BY <1>3 DEF P

\* (parse_cidr) The hosts of a network.
LEMMA HostsAre ==
  ASSUME NEW cidr, cidr # Unknown => cidr.ip \in Address /\ cidr.prefix \in Nat
  PROVE  HostsAreTheNetwork(cidr, Hosts(cidr))
<1> DEFINE p == cidr.prefix
           ip == cidr.ip
           B == Pow2[Bits - p]
           N == Network(cidr)
           all == Pow2[Bits]
           hosts == Hosts(cidr)
           inside(a) == a \div B = ip \div B
           last(a) == ~inside(a + 1) \/ a = all - 1
           first(a) == a = 0 \/ ~inside(a - 1)
<1>1. CASE ~Decomposes(cidr)
  BY <1>1 DEF HostsAreTheNetwork, Hosts
<1>2. CASE Decomposes(cidr)
  <2>1. cidr # Unknown /\ ip \in Address /\ p \in Nat /\ p <= Bits /\ Bits \in Nat
    BY <1>2, BitsAssumption DEF Decomposes
  <2>2. Bits - p \in Nat /\ (Bits - p) + p = Bits
    BY <2>1
  <2>3. B \in Nat \ {0} /\ Pow2[p] \in Nat \ {0} /\ all \in Nat \ {0} /\ all = B * Pow2[p]
    <3>1. Pow2[(Bits - p) + p] = Pow2[Bits - p] * Pow2[p]
      BY <2>1, <2>2, PowersSplit
    <3>2. B \in Nat \ {0} /\ Pow2[p] \in Nat \ {0} /\ all \in Nat \ {0}
      BY <2>1, <2>2, Powers
    <3> QED BY <2>2, <3>1, <3>2
  <2>4. ip \in Nat /\ ip < all
    BY <2>1, <2>3 DEF Address
  <2>5. N = ip - (ip % B)
    BY DEF Network, BlockSize
  <2>6. Broadcast(cidr) = N + B - 1
    BY DEF Broadcast, BlockSize
  <2>7. hosts = IF p >= Bits - 1 THEN N .. N + B - 1 ELSE N + 1 .. (N + B - 1) - 1
    <3> HIDE DEF N, B
    <3>1. Hosts(cidr) = IF p >= Bits - 1 THEN Network(cidr) .. Broadcast(cidr)
                        ELSE Network(cidr) + 1 .. Broadcast(cidr) - 1
      BY <1>2, Zenon DEF Hosts
    <3>2. Network(cidr) = N
      BY DEF N
    <3> DEFINE e == N + B - 1
    <3>3. Broadcast(cidr) = e
      BY <2>6
    <3> HIDE DEF e
    <3>4. hosts = IF p >= Bits - 1 THEN N .. e ELSE N + 1 .. e - 1
      BY <3>1, <3>2, <3>3, Zenon DEF hosts
    <3> QED BY <3>4 DEF e
  <2> HIDE DEF B, all, N, hosts
  <2>8. N \in Nat /\ N = B * (ip \div B) /\ N <= ip
    <3> HIDE DEF ip
    <3>1. /\ B * (ip \div B) \in Nat /\ B * (ip \div B) <= ip
          /\ ip - (ip % B) = B * (ip \div B)
      BY <2>3, <2>4, Division, Zenon
    <3> QED BY <2>5, <3>1, Zenon
  <2>9. \A a \in Nat : inside(a) <=> N <= a /\ a <= N + B - 1
    BY <2>3, <2>4, <2>5, Blocks
  <2>10. N + B <= all
    <3> DEFINE q == ip \div B
               Q == Pow2[p]
               x == B * q
               y == B * Q
    <3>1. q \in Nat /\ x \in Nat /\ x <= ip
      BY <2>3, <2>4, Division
    <3>2. Q \in Nat /\ y = all /\ x = N
      BY <2>3, <2>8
    <3> HIDE DEF q, Q
    <3>3. (q < Q => x + B <= y) /\ (Q < q => y + B <= x)
      BY <2>3, <3>1, <3>2, Times
    <3>4. q = Q => x = y
      OBVIOUS
    <3> HIDE DEF x, y
    <3> QED BY <2>3, <2>4, <3>1, <3>2, <3>3, <3>4
  <2>11. ASSUME NEW a \in Address
         PROVE  a \in hosts <=> inside(a) /\ (p < Bits - 1 => ~first(a) /\ ~last(a))
    <3>1. a \in Nat /\ a + 1 \in Nat /\ a <= all - 1
      BY <2>3 DEF Address, all
    <3>2. /\ inside(a) <=> N <= a /\ a <= N + B - 1
          /\ inside(a + 1) <=> N <= a + 1 /\ a + 1 <= N + B - 1
          /\ a # 0 => (inside(a - 1) <=> N <= a - 1 /\ a - 1 <= N + B - 1)
      <4>1. a # 0 => a - 1 \in Nat
        BY <3>1
      <4> HIDE DEF inside
      <4> QED BY <2>9, <3>1, <4>1
    <3> HIDE DEF inside
    <3>3. ASSUME inside(a) PROVE first(a) <=> a = N
      BY <2>8, <2>3, <3>1, <3>2, <3>3
    <3>4. ASSUME inside(a) PROVE last(a) <=> a = N + B - 1
      BY <2>8, <2>3, <2>10, <3>1, <3>2, <3>4
    <3> HIDE DEF first, last
    <3>5. CASE p >= Bits - 1
      <4>1. a \in hosts <=> N <= a /\ a <= N + B - 1
        BY <2>3, <2>7, <2>8, <3>1, <3>5
      <4> QED BY <2>1, <3>2, <3>5, <4>1
    <3>6. CASE ~(p >= Bits - 1)
      <4>1. a \in hosts <=> N + 1 <= a /\ a <= (N + B - 1) - 1
        BY <2>3, <2>7, <2>8, <3>1, <3>6
      <4>2. a \in hosts <=> N <= a /\ a <= N + B - 1 /\ a # N /\ a # N + B - 1
        BY <2>3, <2>8, <3>1, <4>1
      <4>3. p < Bits - 1
        BY <2>1, <3>6
      <4> QED BY <3>2, <3>3, <3>4, <4>2, <4>3
    <3> QED BY <3>5, <3>6
  <2>12. Hosts(NormalizeCidr(cidr)) = hosts
    <3> DEFINE c == NormalizeCidr(cidr)
    <3>1. c.ip = N /\ c.prefix = p
      BY DEF NormalizeCidr, N
    <3>2. Decomposes(c)
      <4>1. N <= all - 1 /\ N \in Address
        BY <2>3, <2>8, <2>10 DEF Address, all
      <4>2. c \in [ip : Address, prefix : 0 .. Bits]
        BY <2>1, <4>1 DEF NormalizeCidr, N
      <4>3. c # Unknown
        BY <4>2, UnknownAssumption
      <4> QED BY <2>1, <3>1, <4>3 DEF Decomposes
    <3>3. N % B = 0
      <4>1. N \div B = ip \div B
        BY <2>3, <2>8, <2>9
      <4>2. N - (N % B) = B * (N \div B)
        BY <2>3, <2>8, Division
      <4>3. N % B \in Int
        BY <2>3, <2>8
      <4> QED BY <2>8, <4>1, <4>2, <4>3
    <3>4. Network(c) = N
      BY <2>8, <3>1, <3>3 DEF Network, BlockSize, B
    <3>5. Broadcast(c) = N + B - 1
      BY <3>1, <3>4 DEF Broadcast, BlockSize, B
    <3> HIDE DEF c
    <3>6. Hosts(c) = IF p >= Bits - 1 THEN N .. N + B - 1 ELSE N + 1 .. (N + B - 1) - 1
      <4>1. Hosts(c) = IF c.prefix >= Bits - 1 THEN Network(c) .. Broadcast(c)
                       ELSE Network(c) + 1 .. Broadcast(c) - 1
        BY <3>2, Zenon DEF Hosts
      <4> DEFINE e == N + B - 1
      <4>2. Broadcast(c) = e
        BY <3>5
      <4> HIDE DEF e
      <4>3. Hosts(c) = IF p >= Bits - 1 THEN N .. e ELSE N + 1 .. e - 1
        BY <3>1, <3>4, <4>1, <4>2, Zenon
      <4> QED BY <4>3 DEF e
    <3> QED BY <2>7, <3>6 DEF c
  <2> QED BY <1>2, <2>11, <2>12 DEF HostsAreTheNetwork, B, all, hosts
<1> QED BY <1>1, <1>2

-----------------------------------------------------------------------------
(* What an INF declares (drivers/inf.rs).                                  *)

\* Joining a list of lists loses nothing and adds nothing.
LEMMA FlattenIs ==
  ASSUME NEW T, NEW ss, IsList(ss), \A k \in 1 .. Len(ss) : ss[k] \in Seq(T)
  PROVE  /\ FlattenSeq(ss) \in Seq(T)
         /\ Range(FlattenSeq(ss)) = UNION {Range(ss[k]) : k \in 1 .. Len(ss)}
<1> DEFINE n == Len(ss)
           A == Seq(T)
           step == [p \in A \X (1 .. n) |-> IF p[2] = 1 THEN ss[p[2]] ELSE p[1] \o ss[p[2]]]
           Turns(g) == g = [i \in 1 .. n |-> IF i = 1 THEN ss[i] ELSE g[i - 1] \o ss[i]]
           g0 == CHOOSE g : Turns(g)
<1>1. n \in Nat
  BY ListIs
<1>2. CASE n = 0
  <2>1. ss = <<>> /\ FlattenSeq(ss) = ss
    BY <1>2, EmptyIs DEF FlattenSeq
  <2>2. Range(<<>>) = {} /\ 1 .. 0 = {}
    BY DEF Range
  <2>3. UNION {Range(ss[k]) : k \in 1 .. n} = {} /\ <<>> \in Seq(T)
    BY <1>2, <2>2
  <2> QED BY <2>1, <2>2, <2>3
<1>3. CASE n # 0
  <2>1. step \in [A \X (1 .. n) -> A]
    <3>1. \A a \in A, k \in 1 .. n : (IF k = 1 THEN ss[k] ELSE a \o ss[k]) \in A
      <4> SUFFICES ASSUME NEW a \in A, NEW k \in 1 .. n
                   PROVE  ss[k] \in A /\ a \o ss[k] \in A
        OBVIOUS
      <4>1. ss[k] \in Seq(T) /\ a \in Seq(T)
        OBVIOUS
      <4> QED BY <4>1
    <3> QED BY <3>1
  <2>2. <<>> \in A
    OBVIOUS
  <2>3. PICK f : FoldsBy(f, A, <<>>, step, n)
    <3> HIDE DEF A, step
    <3> QED BY <1>1, <2>1, <2>2, FoldExists
  <2> DEFINE g == [i \in 1 .. n |-> f[1 .. i]]
  <2>4. ASSUME NEW k \in 1 .. n
        PROVE  f[1 .. k] = step[<<f[1 .. k - 1], k>>] /\ f[1 .. k] \in A /\ f[1 .. k - 1] \in A
    <3>1. k \in Nat \ {0} /\ 1 .. k \in SUBSET (1 .. n) /\ 1 .. k - 1 \in SUBSET (1 .. n)
      BY <1>1
    <3>2. 1 .. k # {} /\ Max(1 .. k) = k /\ (1 .. k) \ {k} = 1 .. k - 1
      BY <3>1, FoldTurn
    <3>3. f[1 .. k] = step[<<f[(1 .. k) \ {Max(1 .. k)}], Max(1 .. k)>>]
      BY <2>3, <3>1, <3>2 DEF FoldsBy
    <3>4. f[1 .. k] \in A /\ f[1 .. k - 1] \in A
      BY <2>3, <3>1 DEF FoldsBy
    <3> HIDE DEF step, A
    <3> QED BY <3>2, <3>3, <3>4
  <2>5. Turns(g)
    <3>1. ASSUME NEW k \in 1 .. n PROVE g[k] = IF k = 1 THEN ss[k] ELSE g[k - 1] \o ss[k]
      <4>1. f[1 .. k] = IF k = 1 THEN ss[k] ELSE f[1 .. k - 1] \o ss[k]
        BY <2>4
      <4>2. k # 1 => k - 1 \in 1 .. n
        BY <1>1
      <4> QED BY <4>1, <4>2
    <3> HIDE DEF g
    <3>2. g = [i \in 1 .. n |-> g[i]]
      BY DEF g
    <3> QED BY <3>1, <3>2
  <2>6. Turns(g0)
    <3> HIDE DEF Turns
    <3> QED BY <2>5
  <2>7. FlattenSeq(ss) = g0[n]
    BY <1>3, Zenon DEF FlattenSeq
  <2> HIDE DEF g0
  <2>8. g0[1] = ss[1]
    BY <1>1, <1>3, <2>6
  <2>9. ASSUME NEW k \in Nat, k # 0, k + 1 <= n PROVE g0[k + 1] = g0[k] \o ss[k + 1]
    <3>1. k + 1 \in 1 .. n /\ k + 1 # 1 /\ (k + 1) - 1 = k
      BY <1>1, <2>9
    <3> QED BY <2>6, <3>1
  <2> DEFINE P == {k \in Nat : k # 0 /\ k <= n =>
                     /\ g0[k] \in Seq(T)
                     /\ Range(g0[k]) = UNION {Range(ss[j]) : j \in 1 .. k}}
  <2>10. 0 \in P
    OBVIOUS
  <2>11. ASSUME NEW k \in Nat, k \in P PROVE k + 1 \in P
    <3> SUFFICES ASSUME k + 1 <= n
                 PROVE  /\ g0[k + 1] \in Seq(T)
                        /\ Range(g0[k + 1]) = UNION {Range(ss[j]) : j \in 1 .. k + 1}
      OBVIOUS
    <3>1. k + 1 \in 1 .. n
      BY <1>1
    <3>2. CASE k = 0
      <4>1. 1 .. k + 1 = {1} /\ k + 1 = 1
        BY <3>2
      <4>2. UNION {Range(ss[j]) : j \in {1}} = Range(ss[1])
        OBVIOUS
      <4> QED BY <2>8, <3>1, <4>1, <4>2
    <3>3. CASE k # 0
      <4>1. g0[k] \in Seq(T) /\ ss[k + 1] \in Seq(T) /\ g0[k + 1] = g0[k] \o ss[k + 1]
        <5>1. k <= n
          BY <1>1
        <5>2. g0[k] \in Seq(T)
          BY <2>11, <3>3, <5>1
        <5>3. g0[k + 1] = g0[k] \o ss[k + 1]
          BY <2>9, <3>3
        <5> QED BY <3>1, <5>2, <5>3
      <4>2. g0[k + 1] \in Seq(T) /\ Range(g0[k + 1]) = Range(g0[k]) \cup Range(ss[k + 1])
        BY <4>1, Joined
      <4>3. Range(g0[k]) = UNION {Range(ss[j]) : j \in 1 .. k}
        BY <1>1, <2>11, <3>3
      <4>4. 1 .. k + 1 = (1 .. k) \cup {k + 1}
        OBVIOUS
      <4> QED BY <4>2, <4>3, <4>4, Zenon
    <3> QED BY <3>2, <3>3
  <2>12. n \in P
    <3> HIDE DEF P
    <3> QED BY <1>1, <2>10, <2>11, Induction
  <2> QED BY <1>1, <1>3, <2>7, <2>12
<1> QED BY <1>2, <1>3

\* The lines of an INF, and the parts of an entry, are lists.
LEMMA BodyIs ==
  ASSUME NEW text, IsText(text), NEW name
  PROVE  /\ Body(text, name) \subseteq 1 .. Len(text)
         /\ Places(Body(text, name))
         /\ \A i \in Body(text, name) : IsList(text[i].parts)
         /\ Named(text, name) = {} => Body(text, name) = {}
<1>1. Body(text, name) \subseteq Entries(text)
  BY DEF Body, Named
<1>2. Body(text, name) \subseteq 1 .. Len(text) /\ Len(text) \in Nat
  BY <1>1, ListIs DEF Entries, IsText
<1>3. Places(Body(text, name))
  BY <1>2, Positions
<1>4. \A i \in Body(text, name) : IsList(text[i].parts)
  BY <1>1 DEF Entries, IsText
<1>5. Named(text, name) = {} => Body(text, name) = {}
  BY DEF Body
<1> QED BY <1>2, <1>3, <1>4, <1>5

\* A model line declares a list, and nothing without a name.
LEMMA ModelLineIs ==
  ASSUME NEW line, IsList(line.parts)
  PROVE  /\ IsList(ModelLine(line))
         /\ \A e \in Range(ModelLine(line)) : e # NoEntry
<1> DEFINE s == ModelLine(line)
           n == Len(line.parts) - 1
<1>1. Len(line.parts) \in Nat
  BY ListIs
<1>2. CASE line.lhs = ""
  <2>1. s = <<>>
    BY <1>2 DEF ModelLine
  <2>2. IsList(<<>>) /\ Range(<<>>) = {}
    BY DEF IsList, Range
  <2> QED BY <2>1, <2>2
<1>3. CASE line.lhs # ""
  <2>1. s = [k \in 1 .. n |-> [display |-> line.lhs, hwid |-> line.parts[k + 1]]]
    BY <1>3 DEF ModelLine
  <2>2. DOMAIN s = 1 .. n
    BY <2>1
  <2>3. IsList(s)
    <3>1. CASE n \in Nat
      BY <2>1, <3>1 DEF IsList
    <3>2. CASE n \notin Nat
      <4>1. 1 .. n = {} /\ 1 .. 0 = {}
        BY <1>1, <3>2
      <4>2. s = <<>>
        <5>1. DOMAIN s = {}
          BY <2>2, <4>1
        <5>2. s = [k \in DOMAIN s |-> s[k]]
          BY <2>1
        <5> HIDE DEF s
        <5> QED BY <5>1, <5>2
      <4> HIDE DEF s
      <4> QED BY <4>1, <4>2 DEF IsList
    <3> QED BY <3>1, <3>2
  <2>4. ASSUME NEW e \in Range(s) PROVE e # NoEntry
    <3>1. PICK k \in 1 .. n : e = [display |-> line.lhs, hwid |-> line.parts[k + 1]]
      BY <2>1 DEF Range
    <3>2. e.display = line.lhs /\ NoEntry.display = ""
      BY <3>1 DEF NoEntry
    <3> QED BY <1>3, <3>2
  <2> QED BY <2>3, <2>4
<1> QED BY <1>2, <1>3

\* What the model lines of some sections declare.
DeclaredBy(text, names) ==
  UNION {Range(ModelLine(text[i])) : i \in UNION {Body(text, n) : n \in names}}

\* (parse_models) The ids of one section.
LEMMA ModelLinesAre ==
  ASSUME NEW text, IsText(text), NEW name, NEW T, DeclaredBy(text, {name}) \subseteq T
  PROVE  /\ ModelLines(text, name) \in Seq(T)
         /\ Range(ModelLines(text, name)) = DeclaredBy(text, {name})
<1> DEFINE K == Body(text, name)
           lines == Keep(text, K)
           ss == [k \in DOMAIN lines |-> ModelLine(lines[k])]
           n == Cardinality(K)
<1>1. Places(K) /\ \A i \in K : IsList(text[i].parts)
  BY BodyIs
<1>2. ModelLines(text, name) = FlattenSeq(ss)
  BY Zenon DEF ModelLines, ss, lines, K
<1>3. DeclaredBy(text, {name}) = UNION {Range(ModelLine(text[i])) : i \in K}
  BY DEF DeclaredBy
<1> HIDE DEF K
<1>4. n \in Nat /\ DOMAIN lines = 1 .. n /\ Range(lines) = {text[i] : i \in K}
  BY <1>1, KeepHas
<1>5. DOMAIN ss = 1 .. n /\ \A k \in 1 .. n : ss[k] = ModelLine(lines[k])
  BY <1>4
<1>6. \A k \in 1 .. n : \E i \in K : lines[k] = text[i]
  BY <1>4 DEF Range
<1>7. \A i \in K : \E k \in 1 .. n : lines[k] = text[i]
  BY <1>4 DEF Range
<1> HIDE DEF lines
<1>8. IsList(ss) /\ Len(ss) = n
  BY <1>4, <1>5 DEF IsList
<1> HIDE DEF ss, n
<1>9. \A k \in 1 .. n : Range(ss[k]) \subseteq T /\ IsList(ss[k])
  <2> SUFFICES ASSUME NEW k \in 1 .. n PROVE Range(ss[k]) \subseteq T /\ IsList(ss[k])
    OBVIOUS
  <2>1. PICK i \in K : ss[k] = ModelLine(text[i])
    BY <1>5, <1>6
  <2>2. IsList(ModelLine(text[i]))
    BY <1>1, ModelLineIs
  <2> QED BY <1>3, <2>1, <2>2
<1>10. \A k \in 1 .. n : ss[k] \in Seq(T)
  <2> SUFFICES ASSUME NEW k \in 1 .. n PROVE ss[k] \in Seq(T)
    OBVIOUS
  <2> DEFINE s == ss[k]
  <2>1. IsList(s) /\ Range(s) \subseteq T
    BY <1>9
  <2> HIDE DEF s
  <2>2. s \in Seq(Range(s))
    BY <2>1, ListIs
  <2>3. s \in Seq(T)
    BY <2>1, <2>2
  <2> QED BY <2>3 DEF s
<1>11. /\ FlattenSeq(ss) \in Seq(T)
       /\ Range(FlattenSeq(ss)) = UNION {Range(ss[k]) : k \in 1 .. n}
  BY <1>8, <1>10, FlattenIs
<1>12. UNION {Range(ss[k]) : k \in 1 .. n} = UNION {Range(ModelLine(text[i])) : i \in K}
  <2>1. ASSUME NEW e, NEW k \in 1 .. n, e \in Range(ss[k])
        PROVE  \E i \in K : e \in Range(ModelLine(text[i]))
    BY <1>5, <1>6, <2>1
  <2>2. ASSUME NEW e, NEW i \in K, e \in Range(ModelLine(text[i]))
        PROVE  \E k \in 1 .. n : e \in Range(ss[k])
    BY <1>5, <1>7, <2>2
  <2> QED BY <2>1, <2>2
<1> QED BY <1>2, <1>3, <1>11, <1>12

\* One more section is read, or was read, or is not there.
LEMMA ReadSectionIs ==
  ASSUME NEW text, IsText(text), NEW name \in Sections(text),
         NEW acc, acc = [seen |-> acc.seen, hwids |-> acc.hwids],
         acc.seen \subseteq Sections(text), acc.hwids \in Seq(Declared(text)),
         Range(acc.hwids) = DeclaredBy(text, acc.seen),
         NEW next, next = ReadSection(text, name, acc)
  PROVE  /\ next = [seen |-> next.seen, hwids |-> next.hwids]
         /\ acc.seen \subseteq next.seen /\ next.seen \subseteq Sections(text)
         /\ next.hwids \in Seq(Declared(text))
         /\ Range(next.hwids) = DeclaredBy(text, next.seen)
         /\ name \in next.seen \/ Named(text, name) = {}
<1>1. CASE Named(text, name) = {} \/ name \in acc.seen
  <2>1. next = acc
    BY <1>1 DEF ReadSection
  <2> QED BY <1>1, <2>1
<1>2. CASE ~(Named(text, name) = {} \/ name \in acc.seen)
  <2> DEFINE more == ModelLines(text, name)
  <2>1. next = [seen |-> acc.seen \cup {name}, hwids |-> acc.hwids \o more]
    BY <1>2 DEF ReadSection
  <2>2. DeclaredBy(text, {name}) \subseteq Declared(text)
    BY DEF DeclaredBy, Declared
  <2>3. more \in Seq(Declared(text)) /\ Range(more) = DeclaredBy(text, {name})
    BY <2>2, ModelLinesAre
  <2> HIDE DEF more
  <2>4. /\ acc.hwids \o more \in Seq(Declared(text))
        /\ Range(acc.hwids \o more) = Range(acc.hwids) \cup Range(more)
    BY <2>3, Joined
  <2>5. DeclaredBy(text, acc.seen \cup {name}) = DeclaredBy(text, acc.seen) \cup DeclaredBy(text, {name})
    BY DEF DeclaredBy
  <2>6. next.seen = acc.seen \cup {name} /\ next.hwids = acc.hwids \o more
    BY <2>1
  <2> QED BY <2>1, <2>3, <2>4, <2>5, <2>6
<1> QED BY <1>1, <1>2

\* What has been read: the lists of the sections seen.
Reading(text) ==
  {acc \in [seen : SUBSET Sections(text), hwids : Seq(Declared(text))] :
     Range(acc.hwids) = DeclaredBy(text, acc.seen)}

\* (parse_manufacturer) One more line of [Manufacturer].
LEMMA ReadManufacturerIs ==
  ASSUME NEW text, IsText(text), NEW m \in Body(text, "Manufacturer"),
         NEW acc \in Reading(text),
         NEW next, next = ReadManufacturer(text, acc, text[m].parts)
  PROVE  /\ next \in Reading(text) /\ acc.seen \subseteq next.seen
         /\ \A name \in LeadsTo(text[m].parts) : name \in next.seen \/ Named(text, name) = {}
<1> DEFINE parts == text[m].parts
<1>0. LeadsTo(parts) \subseteq Sections(text)
  BY DEF Sections
<1> HIDE DEF parts
<1>1. CASE parts = <<>>
  <2>1. next = acc /\ LeadsTo(parts) = {}
    BY <1>1 DEF ReadManufacturer, LeadsTo, parts
  <2> QED BY <2>1 DEF parts
<1>2. CASE parts # <<>>
  <2> DEFINE deco == IF ForAmd64(Tail(parts)) THEN ReadSection(text, Decorated[Head(parts)], acc)
                     ELSE acc
  <2>1. next = ReadSection(text, Head(parts), deco)
    BY <1>2, Zenon DEF ReadManufacturer, parts, deco
  <2>2. Head(parts) = parts[1]
    OBVIOUS
  <2>3. /\ parts[1] \in LeadsTo(parts)
        /\ ForAmd64(Tail(parts)) => Decorated[parts[1]] \in LeadsTo(parts)
        /\ \A name \in LeadsTo(parts) :
             name = parts[1] \/ (ForAmd64(Tail(parts)) /\ name = Decorated[parts[1]])
    BY <1>2 DEF LeadsTo
  <2>4. /\ acc = [seen |-> acc.seen, hwids |-> acc.hwids] /\ acc.seen \subseteq Sections(text)
        /\ acc.hwids \in Seq(Declared(text)) /\ Range(acc.hwids) = DeclaredBy(text, acc.seen)
    BY DEF Reading
  <2>5. /\ deco = [seen |-> deco.seen, hwids |-> deco.hwids]
        /\ acc.seen \subseteq deco.seen /\ deco.seen \subseteq Sections(text)
        /\ deco.hwids \in Seq(Declared(text)) /\ Range(deco.hwids) = DeclaredBy(text, deco.seen)
        /\ ForAmd64(Tail(parts)) =>
             Decorated[parts[1]] \in deco.seen \/ Named(text, Decorated[parts[1]]) = {}
    <3>1. CASE ForAmd64(Tail(parts))
      <4>1. deco = ReadSection(text, Decorated[parts[1]], acc)
        BY <2>2, <3>1
      <4>2. Decorated[parts[1]] \in Sections(text)
        BY <1>0, <2>3, <3>1
      <4> HIDE DEF deco
      <4> QED BY <2>4, <4>1, <4>2, ReadSectionIs
    <3>2. CASE ~ForAmd64(Tail(parts))
      BY <2>4, <3>2
    <3> QED BY <3>1, <3>2
  <2> HIDE DEF deco
  <2>6. /\ next = [seen |-> next.seen, hwids |-> next.hwids]
        /\ deco.seen \subseteq next.seen /\ next.seen \subseteq Sections(text)
        /\ next.hwids \in Seq(Declared(text))
        /\ Range(next.hwids) = DeclaredBy(text, next.seen)
        /\ parts[1] \in next.seen \/ Named(text, parts[1]) = {}
    <3>1. parts[1] \in Sections(text) /\ next = ReadSection(text, parts[1], deco)
      BY <1>0, <2>1, <2>2, <2>3
    <3> QED BY <2>5, <3>1, ReadSectionIs
  <2>7. next \in Reading(text)
    BY <2>6 DEF Reading
  <2>8. \A name \in LeadsTo(parts) : name \in next.seen \/ Named(text, name) = {}
    BY <2>3, <2>5, <2>6
  <2> QED BY <2>5, <2>6, <2>7, <2>8 DEF parts
<1> QED BY <1>1, <1>2

\* (parse_inf) The lines of [Manufacturer], as their parts.
LEMMA ManufacturerLinesAre ==
  ASSUME NEW text, IsText(text)
  PROVE  LET lines == ManufacturerLines(text)
             body == Body(text, "Manufacturer")
         IN  /\ Len(lines) \in Nat /\ DOMAIN lines = 1 .. Len(lines)
             /\ \A k \in 1 .. Len(lines) : \E m \in body : lines[k] = text[m].parts
             /\ \A m \in body : \E k \in 1 .. Len(lines) : lines[k] = text[m].parts
<1> DEFINE K == Body(text, "Manufacturer")
           kept == Keep(text, K)
           lines == ManufacturerLines(text)
           n == Cardinality(K)
<1>1. Places(K)
  BY BodyIs
<1>2. lines = [k \in DOMAIN kept |-> kept[k].parts]
  BY Zenon DEF ManufacturerLines, lines, kept, K
<1> HIDE DEF K, lines
<1>3. n \in Nat /\ DOMAIN kept = 1 .. n /\ Range(kept) = {text[i] : i \in K}
  BY <1>1, KeepHas
<1>4. \A k \in 1 .. n : \E i \in K : kept[k] = text[i]
  BY <1>3 DEF Range
<1>5. \A i \in K : \E k \in 1 .. n : kept[k] = text[i]
  BY <1>3 DEF Range
<1> HIDE DEF kept, n
<1>6. DOMAIN lines = 1 .. n /\ Len(lines) = n /\ \A k \in 1 .. n : lines[k] = kept[k].parts
  BY <1>2, <1>3
<1>7. \A k \in 1 .. n : \E m \in K : lines[k] = text[m].parts
  BY <1>4, <1>6
<1>8. \A m \in K : \E k \in 1 .. n : lines[k] = text[m].parts
  BY <1>5, <1>6
<1> QED BY <1>3, <1>6, <1>7, <1>8 DEF K, lines

\* Before the first line nothing has been read.
LEMMA NothingRead ==
  ASSUME NEW text
  PROVE  [seen |-> {}, hwids |-> <<>>] \in Reading(text)
<1> DEFINE none == [seen |-> {}, hwids |-> <<>>]
           T == Declared(text)
           names == Sections(text)
<1>1. Range(<<>>) = {} /\ DeclaredBy(text, {}) = {}
  BY DEF Range, DeclaredBy
<1>2. none \in [seen : SUBSET names, hwids : Seq(T)]
  <2> HIDE DEF T, names
  <2> QED OBVIOUS
<1>3. none.seen = {} /\ none.hwids = <<>>
  OBVIOUS
<1> HIDE DEF none
<1>4. none \in Reading(text)
  BY <1>1, <1>2, <1>3 DEF Reading
<1> QED BY <1>4 DEF none

\* (parse_inf) What has been read, line by line of [Manufacturer].
LEMMA ParseTurns ==
  ASSUME NEW text, IsText(text)
  PROVE  LET lines == ManufacturerLines(text)
         IN  \E acc : /\ acc[0] = [seen |-> {}, hwids |-> <<>>]
                      /\ \A k \in 1 .. Len(lines) :
                           acc[k - 1] \in Reading(text) =>
                             acc[k] = ReadManufacturer(text, acc[k - 1], lines[k])
                      /\ ParseInf(text) = acc[Len(lines)].hwids
<1> DEFINE lines == ManufacturerLines(text)
           n == Len(lines)
           A == Reading(text)
           none == [seen |-> {}, hwids |-> <<>>]
           step == [p \in A \X (1 .. n) |-> ReadManufacturer(text, p[1], lines[p[2]])]
           Turns(g) == g = [s \in SUBSET DOMAIN lines |->
                              IF s = {} THEN none
                              ELSE ReadManufacturer(text, g[s \ {Max(s)}], lines[Max(s)])]
           g0 == CHOOSE g : Turns(g)
<1>1. n \in Nat /\ DOMAIN lines = 1 .. n
  BY ManufacturerLinesAre
<1>2. step \in [A \X (1 .. n) -> A]
  <2>1. ASSUME NEW acc \in A, NEW k \in 1 .. n PROVE ReadManufacturer(text, acc, lines[k]) \in A
    <3>1. PICK m \in Body(text, "Manufacturer") : lines[k] = text[m].parts
      BY ManufacturerLinesAre
    <3> HIDE DEF lines
    <3> QED BY <3>1, ReadManufacturerIs
  <2> HIDE DEF A, lines
  <2> QED BY <2>1
<1>3. none \in A
  BY NothingRead
<1>4. PICK g : FoldsBy(g, A, none, step, n)
  <2> HIDE DEF A, step, none, lines
  <2> QED BY <1>1, <1>2, <1>3, FoldExists
<1> HIDE DEF none, lines
<1>5. Turns(g)
  <2>1. ASSUME NEW s \in SUBSET (1 .. n), s # {}
        PROVE  g[s] = ReadManufacturer(text, g[s \ {Max(s)}], lines[Max(s)])
    <3>1. Max(s) \in 1 .. n
      <4>1. s \subseteq 0 .. n
        BY <1>1
      <4> QED BY <1>1, <2>1, <4>1, MaxIs
    <3>2. g[s] = step[<<g[s \ {Max(s)}], Max(s)>>] /\ g[s \ {Max(s)}] \in A
      BY <2>1, <1>4 DEF FoldsBy
    <3> HIDE DEF A
    <3> QED BY <3>1, <3>2
  <2>2. g = [s \in SUBSET (1 .. n) |-> g[s]] /\ g[{}] = none
    BY <1>4 DEF FoldsBy
  <2> QED BY <1>1, <2>1, <2>2
<1>6. Turns(g0)
  <2> HIDE DEF Turns
  <2> QED BY <1>5
<1>7. ParseInf(text) = g0[1 .. n].hwids
  BY <1>1, Zenon DEF ParseInf, FoldLeft, MapThenFoldSet, none, lines
<1> DEFINE acc == [k \in 0 .. n |-> g0[1 .. k]]
<1>8. acc[0] = none
  <2>1. 1 .. 0 = {} /\ 0 \in 0 .. n
    BY <1>1
  <2> HIDE DEF g0
  <2> QED BY <1>6, <2>1
<1>9. ASSUME NEW k \in 1 .. n PROVE acc[k] = ReadManufacturer(text, acc[k - 1], lines[k])
  <2>1. k \in Nat \ {0} /\ k - 1 \in 0 .. n /\ k \in 0 .. n /\ 1 .. k \in SUBSET (1 .. n)
    BY <1>1
  <2>2. 1 .. k # {} /\ Max(1 .. k) = k /\ (1 .. k) \ {k} = 1 .. k - 1
    BY <2>1, FoldTurn
  <2> HIDE DEF g0
  <2>3. g0[1 .. k] = ReadManufacturer(text, g0[1 .. k - 1], lines[k])
    BY <1>1, <1>6, <2>1, <2>2
  <2> QED BY <2>1, <2>3
<1>10. n \in 0 .. n
  BY <1>1
<1> HIDE DEF g0
<1>11. ParseInf(text) = acc[n].hwids
  BY <1>7, <1>10
<1> HIDE DEF acc
<1> QED BY <1>8, <1>9, <1>11 DEF none, lines

\* (parse_inf) The parser finds what the INF declares.
LEMMA ParseIs ==
  ASSUME NEW text, IsText(text)
  PROVE  ParseInf(text) \in Seq(Declared(text)) /\ Range(ParseInf(text)) = Declared(text)
<1> DEFINE lines == ManufacturerLines(text)
           n == Len(lines)
<1>1. PICK acc : /\ acc[0] = [seen |-> {}, hwids |-> <<>>]
                 /\ \A k \in 1 .. n :
                      acc[k - 1] \in Reading(text) =>
                        acc[k] = ReadManufacturer(text, acc[k - 1], lines[k])
                 /\ ParseInf(text) = acc[n].hwids
  BY ParseTurns
<1>2. /\ n \in Nat
      /\ \A k \in 1 .. n : \E m \in Body(text, "Manufacturer") : lines[k] = text[m].parts
      /\ \A m \in Body(text, "Manufacturer") : \E k \in 1 .. n : lines[k] = text[m].parts
  BY ManufacturerLinesAre
<1> HIDE DEF lines
<1> DEFINE P == {k \in Nat : k <= n =>
                   /\ acc[k] \in Reading(text)
                   /\ \A j \in 1 .. k : \A name \in LeadsTo(lines[j]) :
                        name \in acc[k].seen \/ Named(text, name) = {}}
<1>3. 0 \in P
  <2>1. acc[0] \in Reading(text)
    BY <1>1, NothingRead
  <2> QED BY <2>1
<1>4. ASSUME NEW k \in Nat, k \in P PROVE k + 1 \in P
  <2> SUFFICES ASSUME k + 1 <= n
               PROVE  /\ acc[k + 1] \in Reading(text)
                      /\ \A j \in 1 .. k + 1 : \A name \in LeadsTo(lines[j]) :
                           name \in acc[k + 1].seen \/ Named(text, name) = {}
    OBVIOUS
  <2>1. k <= n /\ k + 1 \in 1 .. n /\ (k + 1) - 1 = k
    BY <1>2
  <2>2. /\ acc[k] \in Reading(text)
        /\ \A j \in 1 .. k : \A name \in LeadsTo(lines[j]) :
             name \in acc[k].seen \/ Named(text, name) = {}
    BY <1>4, <2>1
  <2>3. acc[k + 1] = ReadManufacturer(text, acc[k], lines[k + 1])
    BY <1>1, <2>1, <2>2
  <2>4. PICK m \in Body(text, "Manufacturer") : lines[k + 1] = text[m].parts
    BY <1>2, <2>1
  <2>5. /\ acc[k + 1] \in Reading(text) /\ acc[k].seen \subseteq acc[k + 1].seen
        /\ \A name \in LeadsTo(lines[k + 1]) : name \in acc[k + 1].seen \/ Named(text, name) = {}
    BY <2>2, <2>3, <2>4, ReadManufacturerIs
  <2>6. ASSUME NEW j \in 1 .. k + 1, NEW name \in LeadsTo(lines[j])
        PROVE  name \in acc[k + 1].seen \/ Named(text, name) = {}
    <3>1. j \in 1 .. k \/ j = k + 1
      OBVIOUS
    <3> QED BY <2>2, <2>5, <2>6, <3>1
  <2> QED BY <2>5, <2>6
<1>5. n \in P
  <2> HIDE DEF P
  <2> QED BY <1>2, <1>3, <1>4, Induction
<1> DEFINE last == acc[n]
<1>6. /\ last \in Reading(text)
      /\ \A j \in 1 .. n : \A name \in LeadsTo(lines[j]) :
           name \in last.seen \/ Named(text, name) = {}
  BY <1>2, <1>5
<1>7. last.seen \subseteq Sections(text) /\ last.hwids \in Seq(Declared(text))
      /\ Range(last.hwids) = DeclaredBy(text, last.seen)
  BY <1>6 DEF Reading
<1>8. ParseInf(text) = last.hwids
  BY <1>1
<1> HIDE DEF last
<1>9. ASSUME NEW name \in Sections(text) PROVE name \in last.seen \/ Body(text, name) = {}
  <2>1. PICK m \in Body(text, "Manufacturer") : name \in LeadsTo(text[m].parts)
    BY DEF Sections
  <2>2. PICK j \in 1 .. n : lines[j] = text[m].parts
    BY <1>2
  <2>3. name \in last.seen \/ Named(text, name) = {}
    BY <1>6, <2>1, <2>2
  <2> QED BY <2>3, BodyIs
<1>10. DeclaredBy(text, last.seen) = Declared(text)
  <2>1. UNION {Body(text, s) : s \in last.seen} = UNION {Body(text, s) : s \in Sections(text)}
    <3>1. ASSUME NEW i, NEW s \in Sections(text), i \in Body(text, s)
          PROVE  s \in last.seen
      BY <1>9, <3>1
    <3> QED BY <1>7, <3>1
  <2> QED BY <2>1, Zenon DEF DeclaredBy, Declared
<1> QED BY <1>7, <1>8, <1>10

\* Nothing that an INF declares is without a name.
LEMMA DeclaredHasName ==
  ASSUME NEW text, IsText(text)
  PROVE  NoEntry \notin Declared(text)
<1>1. ASSUME NEW name, NEW i \in Body(text, name), NEW e \in Range(ModelLine(text[i]))
      PROVE  e # NoEntry
  <2>1. IsList(text[i].parts)
    BY BodyIs
  <2> QED BY <2>1, ModelLineIs
<1> QED BY <1>1 DEF Declared

\* (find_matching) What is found is declared, for the first candidate there is.
LEMMA FindIs ==
  ASSUME NEW declared, IsList(declared), NEW ids, Len(ids) \in Nat,
         NEW entry, entry = FindMatching(declared, ids)
  PROVE  LET Covered(c) == \E e \in Range(declared) : SameId(e.hwid, ids[c])
         IN  \/ entry = NoEntry /\ \A c \in 1 .. Len(ids) : ~Covered(c)
             \/ \E c \in 1 .. Len(ids) :
                  /\ entry \in Range(declared) /\ SameId(entry.hwid, ids[c])
                  /\ \A b \in 1 .. c - 1 : ~Covered(b)
<1> DEFINE Covered(c) == \E e \in Range(declared) : SameId(e.hwid, ids[c])
           hits == {c \in 1 .. Len(ids) : Covered(c)}
           first == {i \in 1 .. Len(declared) : SameId(declared[i].hwid, ids[Min(hits)])}
<1>1. /\ Len(declared) \in Nat
      /\ \A k \in 1 .. Len(declared) : declared[k] \in Range(declared)
      /\ \A e \in Range(declared) : \E k \in 1 .. Len(declared) : e = declared[k]
  BY ListIs
<1>2. entry = IF hits = {} THEN NoEntry ELSE declared[IF first # {} THEN Min(first) ELSE 0]
  BY Zenon DEF FindMatching, SelectInSeq
<1>3. CASE hits = {}
  <2>1. \A c \in 1 .. Len(ids) : ~Covered(c)
    BY <1>3
  <2> HIDE DEF hits, Covered
  <2> QED BY <1>2, <1>3, <2>1 DEF Covered
<1>4. CASE hits # {}
  <2> DEFINE c == Min(hits)
  <2>1. c \in hits /\ \A y \in hits : c <= y
    <3>1. hits \subseteq Nat
      OBVIOUS
    <3> HIDE DEF hits
    <3> QED BY <1>4, <3>1, MinIs
  <2>2. c \in 1 .. Len(ids) /\ Covered(c)
    BY <2>1
  <2>3. \A b \in 1 .. c - 1 : ~Covered(b)
    <3> SUFFICES ASSUME NEW b \in 1 .. c - 1, Covered(b) PROVE FALSE
      OBVIOUS
    <3>1. b \in 1 .. Len(ids) /\ ~(c <= b)
      BY <2>2
    <3>2. b \in hits
      BY <3>1
    <3> HIDE DEF hits
    <3> QED BY <2>1, <3>1, <3>2
  <2>4. first = {i \in 1 .. Len(declared) : SameId(declared[i].hwid, ids[c])}
    OBVIOUS
  <2> HIDE DEF hits, c
  <2>5. first # {} /\ first \subseteq Nat
    <3>1. PICK e \in Range(declared) : SameId(e.hwid, ids[c])
      BY <2>2
    <3>2. PICK k \in 1 .. Len(declared) : e = declared[k]
      BY <1>1
    <3> QED BY <2>4, <3>1, <3>2
  <2>6. Min(first) \in first
    <3> HIDE DEF first
    <3> QED BY <2>5, MinIs
  <2>7. Min(first) \in 1 .. Len(declared) /\ SameId(declared[Min(first)].hwid, ids[c])
    BY <2>4, <2>6
  <2> HIDE DEF first
  <2>8. entry = declared[Min(first)]
    BY <1>2, <1>4, <2>5
  <2>9. entry \in Range(declared) /\ SameId(entry.hwid, ids[c])
    BY <1>1, <2>7, <2>8
  <2> QED BY <2>2, <2>3, <2>9
<1> QED BY <1>3, <1>4

\* The hardware ids of a device are a list.
LEMMA SynthesizeIs ==
  ASSUME NEW device
  PROVE  IsList(Synthesize(device))
<1>1. ASSUME NEW a PROVE IsList(<<a>>)
  BY DEF IsList
<1>2. ASSUME NEW a, NEW b PROVE IsList(<<a, b>>)
  BY DEF IsList
<1>3. IsList(<<>>)
  BY DEF IsList
<1>5. IsList(SynthesizeUsb(device.segments))
  BY <1>1, <1>2 DEF SynthesizeUsb
<1>6. ASSUME NEW a, NEW b, NEW c PROVE IsList(Append(<<a, b>>, c)) /\ IsList(Append(<<>>, c))
  <2>1. <<a, b>> \in Seq({a, b, c}) /\ <<>> \in Seq({a, b, c}) /\ c \in {a, b, c}
    OBVIOUS
  <2>2. Append(<<a, b>>, c) \in Seq({a, b, c}) /\ Append(<<>>, c) \in Seq({a, b, c})
    BY <2>1
  <2> QED BY <2>2 DEF IsList
<1>7. IsList(SynthesizeIpp(device.fields))
  BY <1>2, <1>3, <1>6 DEF SynthesizeIpp
<1> QED BY <1>5, <1>7 DEF Synthesize

\* (match_inf) The driver of an INF.
LEMMA MatchIs ==
  ASSUME NEW text, IsText(text), NEW device
  PROVE  MatchIsBest(text, device, FindMatching(ParseInf(text), Synthesize(device)))
<1> DEFINE ids == Synthesize(device)
           declared == ParseInf(text)
           entry == FindMatching(declared, ids)
           covers(c) == {e \in Declared(text) : SameId(e.hwid, ids[c])}
           instance == <<"USB">> \o device.segments
           whole == /\ device.usb
                    /\ \E e \in Declared(text) : SameId(e.hwid, instance)
           best == IF entry = NoEntry THEN \A c \in DOMAIN ids : covers(c) = {}
                   ELSE \E c \in DOMAIN ids :
                          entry \in covers(c) /\ \A b \in 1 .. c - 1 : covers(b) = {}
<1>0. device.usb => 1 \in 1 .. Len(ids) /\ ids[1] = instance
  <2>1. ASSUME device.usb, NEW a PROVE Len(<<instance>>) = 1 /\ Len(<<instance, a>>) = 2
                                      /\ <<instance>>[1] = instance /\ <<instance, a>>[1] = instance
    OBVIOUS
  <2>2. ASSUME device.usb
        PROVE  ids = <<instance>> \/ \E a : ids = <<instance, a>>
    BY <2>2, Zenon DEF Synthesize, SynthesizeUsb
  <2> HIDE DEF ids, instance
  <2> QED BY <2>1, <2>2
<1> HIDE DEF instance
<1>1. Len(ids) \in Nat /\ DOMAIN ids = 1 .. Len(ids)
  <2>1. IsList(ids)
    BY SynthesizeIs
  <2> HIDE DEF ids
  <2> QED BY <2>1, ListIs
<1>2. IsList(declared) /\ Range(declared) = Declared(text)
  <2>1. declared \in Seq(Declared(text)) /\ Range(declared) = Declared(text)
    BY ParseIs
  <2> HIDE DEF declared
  <2> QED BY <2>1 DEF IsList
<1> HIDE DEF ids, declared
<1>3. \/ entry = NoEntry /\ \A c \in 1 .. Len(ids) : ~\E e \in Range(declared) : SameId(e.hwid, ids[c])
      \/ \E c \in 1 .. Len(ids) :
           /\ entry \in Range(declared) /\ SameId(entry.hwid, ids[c])
           /\ \A b \in 1 .. c - 1 : ~\E e \in Range(declared) : SameId(e.hwid, ids[b])
  BY <1>1, <1>2, FindIs
<1> HIDE DEF entry
<1>4. CASE entry = NoEntry /\ \A c \in 1 .. Len(ids) : ~\E e \in Range(declared) : SameId(e.hwid, ids[c])
  <2>1. \A c \in DOMAIN ids : covers(c) = {}
    BY <1>1, <1>2, <1>4
  <2>2. ~whole
    <3>1. ASSUME whole PROVE FALSE
      <4>1. 1 \in DOMAIN ids /\ covers(1) # {}
        BY <1>0, <1>1, <3>1
      <4> QED BY <2>1, <4>1
    <3> QED BY <3>1
  <2>3. best
    BY <1>4, <2>1
  <2> HIDE DEF covers
  <2> QED BY <2>2, <2>3, Zenon DEF MatchIsBest, covers, ids, entry, declared, instance, whole, best
<1>5. CASE \E c \in 1 .. Len(ids) :
             /\ entry \in Range(declared) /\ SameId(entry.hwid, ids[c])
             /\ \A b \in 1 .. c - 1 : ~\E e \in Range(declared) : SameId(e.hwid, ids[b])
  <2>1. PICK c \in 1 .. Len(ids) :
             /\ entry \in Range(declared) /\ SameId(entry.hwid, ids[c])
             /\ \A b \in 1 .. c - 1 : ~\E e \in Range(declared) : SameId(e.hwid, ids[b])
    BY <1>5
  <2>2. entry \in covers(c) /\ \A b \in 1 .. c - 1 : covers(b) = {}
    BY <1>2, <2>1
  <2>3. entry # NoEntry
    BY <1>2, <2>1, DeclaredHasName
  <2>4. \E d \in DOMAIN ids : entry \in covers(d) /\ \A b \in 1 .. d - 1 : covers(b) = {}
    BY <1>1, <2>2
  <2>5. whole => SameId(entry.hwid, instance)
    <3>1. SUFFICES ASSUME whole PROVE c = 1 /\ ids[1] = instance
      BY <2>1
    <3>2. covers(1) # {}
      BY <1>0, <3>1
    <3>3. ~(1 \in 1 .. c - 1)
      BY <2>2, <3>2
    <3> QED BY <1>0, <1>1, <2>1, <3>1, <3>3
  <2>6. best
    BY <2>3, <2>4
  <2> HIDE DEF covers
  <2> QED BY <2>5, <2>6, Zenon DEF MatchIsBest, covers, ids, entry, declared, instance, whole, best
<1> QED BY <1>3, <1>4, <1>5

-----------------------------------------------------------------------------
(* The catalog resolver (drivers/resolver.rs).                             *)

\* An INF matches if anything it declares is one of the device's ids.
LEMMA MatchesIs ==
  ASSUME NEW text, IsText(text), NEW ids, IsList(ids)
  PROVE  FindMatching(ParseInf(text), ids) # NoEntry <=>
           \E e \in Declared(text), c \in Range(ids) : SameId(e.hwid, c)
<1> DEFINE declared == ParseInf(text)
           entry == FindMatching(declared, ids)
<1>1. IsList(declared) /\ Range(declared) = Declared(text)
  <2>1. declared \in Seq(Declared(text)) /\ Range(declared) = Declared(text)
    BY ParseIs
  <2> HIDE DEF declared
  <2> QED BY <2>1 DEF IsList
<1> HIDE DEF declared
<1>2. /\ Len(ids) \in Nat /\ \A c \in 1 .. Len(ids) : ids[c] \in Range(ids)
      /\ \A x \in Range(ids) : \E c \in 1 .. Len(ids) : x = ids[c]
  BY ListIs
<1>3. \/ entry = NoEntry /\ \A c \in 1 .. Len(ids) : ~\E e \in Range(declared) : SameId(e.hwid, ids[c])
      \/ \E c \in 1 .. Len(ids) :
           /\ entry \in Range(declared) /\ SameId(entry.hwid, ids[c])
           /\ \A b \in 1 .. c - 1 : ~\E e \in Range(declared) : SameId(e.hwid, ids[b])
  BY <1>1, <1>2, FindIs
<1> HIDE DEF entry
<1>4. CASE entry = NoEntry /\ \A c \in 1 .. Len(ids) : ~\E e \in Range(declared) : SameId(e.hwid, ids[c])
  <2>1. ~\E e \in Declared(text), c \in Range(ids) : SameId(e.hwid, c)
    BY <1>1, <1>2, <1>4
  <2> QED BY <1>4, <2>1 DEF entry, declared
<1>5. CASE \E c \in 1 .. Len(ids) :
             /\ entry \in Range(declared) /\ SameId(entry.hwid, ids[c])
             /\ \A b \in 1 .. c - 1 : ~\E e \in Range(declared) : SameId(e.hwid, ids[b])
  <2>1. PICK c \in 1 .. Len(ids) : entry \in Range(declared) /\ SameId(entry.hwid, ids[c])
    BY <1>5
  <2>2. entry # NoEntry
    BY <1>1, <2>1, DeclaredHasName
  <2>3. entry \in Declared(text) /\ ids[c] \in Range(ids)
    BY <1>1, <1>2, <2>1
  <2> QED BY <2>1, <2>2, <2>3 DEF entry, declared
<1> QED BY <1>3, <1>4, <1>5

\* (resolve_driver_for_device) The loop over the first rows.
SearchRows(updates, ids, m) ==
  FoldLeft(LAMBDA found, n : TryUpdate(updates, ids, found, n), NoDriver, [n \in 1 .. m |-> n])

\* The driver so far, row by row.
LEMMA ResolveTurns ==
  ASSUME NEW updates, NEW ids, NEW m \in Nat
  PROVE  \E acc : /\ acc[0] = NoDriver
                  /\ \A k \in 1 .. m : acc[k] = TryUpdate(updates, ids, acc[k - 1], k)
                  /\ SearchRows(updates, ids, m) = acc[m]
<1> DEFINE best(k) == [update |-> k, entry |-> FindMatching(ParseInf(updates[k].infs[
                         Min(MatchingInfs(updates[k], ids))]), ids)]
           A == {NoDriver} \cup {best(k) : k \in 1 .. m}
           numbers == [n \in 1 .. m |-> n]
           step == [p \in A \X (1 .. m) |-> TryUpdate(updates, ids, p[1], p[2])]
           Turns(g) == g = [s \in SUBSET (DOMAIN numbers) |->
                              IF s = {} THEN NoDriver
                              ELSE TryUpdate(updates, ids, g[s \ {Max(s)}], numbers[Max(s)])]
           g0 == CHOOSE g : Turns(g)
<1>1. DOMAIN numbers = 1 .. m /\ \A k \in 1 .. m : numbers[k] = k
  OBVIOUS
<1>2. step \in [A \X (1 .. m) -> A]
  <2>1. ASSUME NEW found \in A, NEW k \in 1 .. m PROVE TryUpdate(updates, ids, found, k) \in A
    <3>1. TryUpdate(updates, ids, found, k) = found \/ TryUpdate(updates, ids, found, k) = best(k)
      BY Zenon DEF TryUpdate, best
    <3> HIDE DEF best
    <3> QED BY <3>1
  <2> HIDE DEF A
  <2> QED BY <2>1
<1>3. PICK g : FoldsBy(g, A, NoDriver, step, m)
  <2>1. NoDriver \in A
    OBVIOUS
  <2> HIDE DEF A, step
  <2> QED BY <1>2, <2>1, FoldExists
<1> HIDE DEF numbers, best
<1>4. Turns(g)
  <2>1. ASSUME NEW s \in SUBSET (1 .. m), s # {}
        PROVE  g[s] = TryUpdate(updates, ids, g[s \ {Max(s)}], numbers[Max(s)])
    <3>1. Max(s) \in 1 .. m
      <4>1. s \subseteq 0 .. m
        OBVIOUS
      <4> QED BY <2>1, <4>1, MaxIs
    <3>2. g[s] = step[<<g[s \ {Max(s)}], Max(s)>>] /\ g[s \ {Max(s)}] \in A
      BY <2>1, <1>3 DEF FoldsBy
    <3> HIDE DEF A
    <3> QED BY <1>1, <3>1, <3>2
  <2>2. g = [s \in SUBSET (1 .. m) |-> g[s]] /\ g[{}] = NoDriver
    BY <1>3 DEF FoldsBy
  <2> QED BY <1>1, <2>1, <2>2
<1>5. Turns(g0)
  <2> HIDE DEF Turns
  <2> QED BY <1>4
<1>6. SearchRows(updates, ids, m) = g0[1 .. m]
  BY <1>1, Zenon DEF SearchRows, FoldLeft, MapThenFoldSet, numbers
<1> DEFINE acc == [k \in 0 .. m |-> g0[1 .. k]]
<1>7. acc[0] = NoDriver
  <2>1. 1 .. 0 = {} /\ 0 \in 0 .. m
    OBVIOUS
  <2> HIDE DEF g0
  <2> QED BY <1>5, <2>1
<1>8. ASSUME NEW k \in 1 .. m PROVE acc[k] = TryUpdate(updates, ids, acc[k - 1], k)
  <2>1. k \in Nat \ {0} /\ k - 1 \in 0 .. m /\ k \in 0 .. m /\ 1 .. k \in SUBSET (1 .. m)
    OBVIOUS
  <2>2. 1 .. k # {} /\ Max(1 .. k) = k /\ (1 .. k) \ {k} = 1 .. k - 1
    BY <2>1, FoldTurn
  <2> HIDE DEF g0
  <2>3. g0[1 .. k] = TryUpdate(updates, ids, g0[1 .. k - 1], k)
    <3>0. \A s \in SUBSET (1 .. m) :
            g0[s] = IF s = {} THEN NoDriver
                    ELSE TryUpdate(updates, ids, g0[s \ {Max(s)}], numbers[Max(s)])
      BY <1>1, <1>5
    <3>1. g0[1 .. k] = TryUpdate(updates, ids, g0[1 .. k - 1], numbers[k])
      BY <2>1, <2>2, <3>0, Zenon
    <3>2. numbers[k] = k
      BY <1>1
    <3> QED BY <3>1, <3>2, Zenon
  <2> QED BY <2>1, <2>3
<1>9. m \in 0 .. m
  OBVIOUS
<1> HIDE DEF g0
<1>10. SearchRows(updates, ids, m) = acc[m]
  BY <1>6, <1>9
<1> HIDE DEF acc
<1> QED BY <1>7, <1>8, <1>10

\* (resolve_driver_for_device) No bad row ends the search.
LEMMA ResolveIs ==
  ASSUME NEW device, NEW updates, IsList(updates), \A u \in Range(updates) : IsRow(u)
  PROVE  ResolverGoesOn(device, updates, Resolve(device, updates))
<1> DEFINE ids == Synthesize(device)
           n == Len(updates)
           m == IF n < MaxCandidates THEN n ELSE MaxCandidates
           top == SubSeq(updates, 1, m)
           found == Resolve(device, updates)
           good == {k \in DOMAIN updates \cap (1 .. MaxCandidates) :
                      /\ Fetched(updates[k])
                      /\ \E text \in Range(updates[k].infs) \ {Garbled} :
                           \E e \in Declared(text), c \in Range(ids) : SameId(e.hwid, c)}
<1>1. n \in Nat /\ DOMAIN updates = 1 .. n /\ \A k \in 1 .. n : updates[k] \in Range(updates)
  BY ListIs
<1>2. m \in Nat /\ m <= n /\ DOMAIN updates \cap (1 .. MaxCandidates) = 1 .. m
  BY <1>1, MaxCandidatesAssumption
<1>3. DOMAIN top = 1 .. m
  BY <1>1, <1>2
<1>4. IsList(ids)
  BY SynthesizeIs
<1> HIDE DEF ids, m
<1>5. \A k \in 1 .. m : k \in good <=> Fetched(updates[k]) /\ MatchingInfs(updates[k], ids) # {}
  <2> SUFFICES ASSUME NEW k \in 1 .. m
               PROVE  k \in good <=> Fetched(updates[k]) /\ MatchingInfs(updates[k], ids) # {}
    OBVIOUS
  <2> DEFINE infs == updates[k].infs
             matches == \E text \in Range(infs) \ {Garbled} :
                          \E e \in Declared(text), c \in Range(ids) : SameId(e.hwid, c)
  <2>1. IsList(infs) /\ \A text \in Range(infs) \ {Garbled} : IsText(text)
    <3>1. k \in 1 .. n
      BY <1>1, <1>2
    <3>2. updates[k] \in Range(updates)
      BY <1>1, <3>1
    <3> QED BY <3>2 DEF IsRow
  <2>2. k \in good <=> Fetched(updates[k]) /\ matches
    BY <1>2
  <2> HIDE DEF good
  <2>3. MatchingInfs(updates[k], ids) =
          {i \in 1 .. Len(infs) : infs[i] # Garbled /\ FindMatching(ParseInf(infs[i]), ids) # NoEntry}
    BY DEF MatchingInfs
  <2> HIDE DEF infs
  <2>4. /\ \A i \in 1 .. Len(infs) : infs[i] \in Range(infs)
        /\ \A x \in Range(infs) : \E i \in 1 .. Len(infs) : x = infs[i]
    BY <2>1, ListIs
  <2>5. \A text \in Range(infs) \ {Garbled} :
          FindMatching(ParseInf(text), ids) # NoEntry <=>
            \E e \in Declared(text), c \in Range(ids) : SameId(e.hwid, c)
    BY <1>4, <2>1, MatchesIs
  <2>6. matches <=> \E i \in 1 .. Len(infs) :
                      infs[i] # Garbled /\ FindMatching(ParseInf(infs[i]), ids) # NoEntry
    <3>1. ASSUME matches
          PROVE  \E i \in 1 .. Len(infs) :
                   infs[i] # Garbled /\ FindMatching(ParseInf(infs[i]), ids) # NoEntry
      BY <2>4, <2>5, <3>1
    <3>2. ASSUME NEW i \in 1 .. Len(infs), infs[i] # Garbled,
                 FindMatching(ParseInf(infs[i]), ids) # NoEntry
          PROVE  matches
      <4>1. infs[i] \in Range(infs) \ {Garbled}
        BY <2>4, <3>2
      <4> QED BY <2>5, <3>2, <4>1
    <3> HIDE DEF matches
    <3> QED BY <3>1, <3>2
  <2> QED BY <2>2, <2>3, <2>6
<1>6. good \subseteq 1 .. m
  BY <1>2
<1> HIDE DEF good
<1>7. CASE device.usb \/ ExtractField(device.fields, "CID") = ""
  <2>1. found = NoDriver
    BY <1>7 DEF Resolve
  <2> QED BY <1>7, <2>1 DEF ResolverGoesOn
<1>8. CASE ~(device.usb \/ ExtractField(device.fields, "CID") = "")
  <2>1. CASE ids = <<>>
    <3>1. found = NoDriver
      BY <1>8, <2>1 DEF Resolve, ids
    <3>2. good = {}
      <4>1. Range(ids) = {}
        BY <2>1 DEF Range
      <4> QED BY <4>1 DEF good
    <3>3. found.update = IF good = {} THEN 0 ELSE Min(good)
      BY <3>1, <3>2 DEF NoDriver
    <3> HIDE DEF found
    <3> QED BY <1>8, <3>3 DEF ResolverGoesOn, good, ids, found
  <2>2. CASE ids # <<>>
    <3>1. found = SearchRows(updates, ids, m)
      <4>1. [k \in DOMAIN top |-> k] = [k \in 1 .. m |-> k]
        BY <1>3
      <4> HIDE DEF top
      <4>2. found = FoldLeft(LAMBDA f, k : TryUpdate(updates, ids, f, k), NoDriver, [k \in DOMAIN top |-> k])
        BY <1>8, <2>2, Zenon DEF Resolve, ids, top, m, n
      <4> QED BY <4>1, <4>2, Zenon DEF SearchRows
    <3>2. PICK acc : /\ acc[0] = NoDriver
                     /\ \A k \in 1 .. m : acc[k] = TryUpdate(updates, ids, acc[k - 1], k)
                     /\ SearchRows(updates, ids, m) = acc[m]
      BY <1>2, ResolveTurns
    <3>3. found = acc[m]
      BY <3>1, <3>2
    <3> HIDE DEF found
    <3> DEFINE Is(k) == \/ acc[k] = NoDriver /\ good \cap (1 .. k) = {}
                        \/ /\ acc[k] # NoDriver /\ acc[k].update \in good \cap (1 .. k)
                           /\ \A j \in good : acc[k].update <= j
               P == {k \in Nat : k <= m => Is(k)}
    <3>4. 0 \in P
      BY <3>2
    <3>5. ASSUME NEW k \in Nat, k \in P PROVE k + 1 \in P
      <4> SUFFICES ASSUME k + 1 <= m PROVE Is(k + 1)
        OBVIOUS
      <4>1. k <= m /\ k + 1 \in 1 .. m /\ (k + 1) - 1 = k /\ 1 .. k + 1 = (1 .. k) \cup {k + 1}
        BY <1>2
      <4>2. Is(k) /\ acc[k + 1] = TryUpdate(updates, ids, acc[k], k + 1)
        BY <3>2, <3>5, <4>1
      <4>3. CASE acc[k] # NoDriver
        <5>1. acc[k + 1] = acc[k]
          BY <4>2, <4>3 DEF TryUpdate
        <5> QED BY <4>1, <4>2, <4>3, <5>1
      <4>4. CASE acc[k] = NoDriver /\ k + 1 \notin good
        <5>1. acc[k + 1] = NoDriver
          BY <1>5, <4>1, <4>2, <4>4 DEF TryUpdate
        <5> QED BY <4>1, <4>2, <4>4, <5>1
      <4>5. CASE acc[k] = NoDriver /\ k + 1 \in good
        <5>1. acc[k + 1] = [update |-> k + 1, entry |-> FindMatching(ParseInf(updates[k + 1].infs[
                              Min(MatchingInfs(updates[k + 1], ids))]), ids)]
          BY <1>5, <4>1, <4>2, <4>5, Zenon DEF TryUpdate
        <5>2. acc[k + 1].update = k + 1 /\ acc[k + 1] # NoDriver
          <6>1. NoDriver.update = 0 /\ k + 1 # 0
            BY DEF NoDriver
          <6>2. acc[k + 1].update = k + 1
            BY <5>1
          <6> QED BY <6>1, <6>2
        <5>3. good \cap (1 .. k) = {}
          BY <4>2, <4>5
        <5>4. \A j \in good : k + 1 <= j
          <6>1. \A j \in good : j \in 1 .. m
            BY <1>6
          <6> QED BY <1>2, <5>3, <6>1
        <5> QED BY <4>1, <4>5, <5>2, <5>4
      <4> QED BY <4>3, <4>4, <4>5
    <3>6. Is(m)
      <4> HIDE DEF P
      <4>1. \A k \in Nat : k \in P
        BY <3>4, <3>5, Induction
      <4>2. m \in P /\ m <= m
        BY <1>2, <4>1
      <4> HIDE DEF Is
      <4> QED BY <4>2 DEF P
    <3>7. good \cap (1 .. m) = good
      BY <1>6
    <3>8. acc[m].update = IF good = {} THEN 0 ELSE Min(good)
      <4>1. CASE good = {}
        BY <3>6, <4>1 DEF NoDriver
      <4>2. CASE good # {}
        <5>1. good \subseteq Nat
          BY <1>6
        <5>2. Min(good) \in good /\ \A y \in good : Min(good) <= y
          BY <4>2, <5>1, MinIs
        <5>3. acc[m].update \in good /\ \A j \in good : acc[m].update <= j
          BY <3>6, <3>7, <4>2
        <5>4. acc[m].update <= Min(good) /\ Min(good) <= acc[m].update
          BY <5>2, <5>3
        <5>5. acc[m].update \in Nat /\ Min(good) \in Nat
          BY <5>1, <5>2, <5>3
        <5> QED BY <4>2, <5>4, <5>5
      <4> QED BY <4>1, <4>2
    <3>9. found.update = IF good = {} THEN 0 ELSE Min(good)
      BY <3>3, <3>8
    <3> QED BY <1>8, <3>9, Zenon DEF ResolverGoesOn, good, ids, found
  <2> QED BY <2>1, <2>2
<1> QED BY <1>7, <1>8

-----------------------------------------------------------------------------
(* The printer list (discovery/mod.rs, mdns.rs, local.rs).                 *)

\* A row of the list has these fields and no others.
IsPrinter(r) ==
  r = [ip |-> r.ip, model |-> r.model, name |-> r.name, ports |-> r.ports, methods |-> r.methods]

\* One row for every address of S.
Listing(list, S) ==
  /\ IsList(list)
  /\ \A k \in 1 .. Len(list) : IsPrinter(list[k]) /\ list[k].ip \in S
  /\ \A ip \in S : \E k \in 1 .. Len(list) : list[k].ip = ip
  /\ \A i, j \in 1 .. Len(list) : list[i].ip = list[j].ip => i = j

\* A row of the scan, with a model if its address is one of N, and no port missing.
Fits(r, N, open) ==
  /\ "local" \notin r.methods
  /\ r.model # Unknown <=> r.ip \in N
  /\ open[r.ip] \subseteq r.ports

\* A list of one such row for every address of S.
ScanRows(list, S, N, open) ==
  /\ Listing(list, S)
  /\ N \subseteq S
  /\ \A k \in 1 .. Len(list) : Fits(list[k], N, open)

\* The addresses with a model once m is merged.
AlsoNamed(N, m) == N \cup (IF m.model # Unknown THEN {m.ip} ELSE {})

\* Adding to what is known of a printer.
LEMMA BackfillIs ==
  ASSUME NEW p, IsPrinter(p), NEW m
  PROVE  /\ IsPrinter(Backfill(p, m))
         /\ Backfill(p, m).ip = p.ip
         /\ Backfill(p, m).model = OrElse(p.model, m.model)
         /\ Backfill(p, m).name = OrElse(p.name, m.name)
         /\ Backfill(p, m).ports = p.ports \cup m.ports
         /\ Backfill(p, m).methods = p.methods \cup {"mdns"}
<1> DEFINE b == Backfill(p, m)
<1>1. b = [ip |-> p.ip, model |-> OrElse(p.model, m.model), name |-> OrElse(p.name, m.name),
           ports |-> p.ports \cup m.ports, methods |-> p.methods \cup {"mdns"}]
  <2> DEFINE a == [ip |-> p.ip, model |-> p.model, name |-> p.name, ports |-> p.ports,
                   methods |-> p.methods]
  <2>1. p = a
    BY DEF IsPrinter
  <2>2. b = [a EXCEPT !.methods = @ \cup {"mdns"}, !.model = OrElse(@, m.model),
                      !.name = OrElse(@, m.name), !.ports = @ \cup m.ports]
    BY <2>1, Zenon DEF Backfill, b
  <2> QED BY <2>2
<1> HIDE DEF b
<1> QED BY <1>1 DEF IsPrinter, b

\* A position of a longer list.
LEMMA AppendHas ==
  ASSUME NEW s, IsList(s), NEW e
  PROVE  /\ IsList(Append(s, e)) /\ Len(Append(s, e)) = Len(s) + 1
         /\ Append(s, e)[Len(s) + 1] = e
         /\ \A k \in 1 .. Len(s) : Append(s, e)[k] = s[k]
<1>1. Len(s) \in Nat /\ s \in Seq(Range(s))
  BY ListIs
<1> DEFINE T == Range(s) \cup {e}
<1>2. s \in Seq(T) /\ e \in T
  BY <1>1
<1> HIDE DEF T
<1>3. /\ Append(s, e) \in Seq(T) /\ Len(Append(s, e)) = Len(s) + 1
      /\ Append(s, e)[Len(s) + 1] = e
      /\ \A k \in 1 .. Len(s) : Append(s, e)[k] = s[k]
  BY <1>2
<1>4. IsList(Append(s, e))
  <2> DEFINE a == Append(s, e)
  <2>1. a \in Seq(T)
    BY <1>3
  <2> HIDE DEF a
  <2>2. IsList(a)
    BY <2>1 DEF IsList
  <2> QED BY <2>2 DEF a
<1> QED BY <1>3, <1>4

\* (merge_mdns_results) One announcement: a row more, or a row that knows more.
LEMMA MergeOneIs ==
  ASSUME NEW list, NEW S, NEW N, NEW open, NEW m,
         ScanRows(list, S, N, open), IsPrinter(m), "local" \notin m.methods,
         m.ip \notin S => open[m.ip] = {}
  PROVE  ScanRows(MergeOne(list, m), S \cup {m.ip}, AlsoNamed(N, m), open)
<1> SUFFICES ASSUME Listing(list, S), N \subseteq S, \A k \in 1 .. Len(list) : Fits(list[k], N, open),
                    NEW next, next = MergeOne(list, m),
                    NEW M, M = N \cup (IF m.model # Unknown THEN {m.ip} ELSE {})
             PROVE  /\ Listing(next, S \cup {m.ip}) /\ M \subseteq S \cup {m.ip}
                    /\ \A k \in 1 .. Len(next) : Fits(next[k], M, open)
  BY DEF ScanRows, AlsoNamed
<1> DEFINE known == {i \in DOMAIN list : list[i].ip = m.ip}
           n == Len(list)
<1>1. n \in Nat /\ DOMAIN list = 1 .. n /\ IsList(list)
  BY ListIs DEF Listing
<1>2. M \subseteq S \cup {m.ip}
  OBVIOUS
<1>3. CASE known = {}
  <2>1. next = Append(list, m)
    BY <1>3, Zenon DEF MergeOne, known
  <2>2. /\ IsList(next) /\ Len(next) = n + 1 /\ next[n + 1] = m
        /\ \A k \in 1 .. n : next[k] = list[k]
    BY <1>1, <2>1, AppendHas
  <2>3. \A k \in 1 .. n : list[k].ip # m.ip
    BY <1>1, <1>3
  <2>4. m.ip \notin S
    BY <2>3 DEF Listing
  <2>5. 1 .. n + 1 = (1 .. n) \cup {n + 1} /\ n + 1 \notin 1 .. n
    BY <1>1
  <2> HIDE DEF n
  <2>6. \A k \in 1 .. Len(next) : IsPrinter(next[k]) /\ next[k].ip \in S \cup {m.ip}
    BY <2>2, <2>5 DEF Listing, n
  <2>7. \A ip \in S \cup {m.ip} : \E k \in 1 .. Len(next) : next[k].ip = ip
    <3>1. ASSUME NEW ip \in S PROVE \E k \in 1 .. Len(next) : next[k].ip = ip
      <4>1. PICK k \in 1 .. n : list[k].ip = ip
        BY DEF Listing, n
      <4> QED BY <2>2, <2>5, <4>1
    <3>2. n + 1 \in 1 .. Len(next) /\ next[n + 1].ip = m.ip
      BY <2>2, <2>5
    <3> QED BY <3>1, <3>2
  <2>8. ASSUME NEW i \in 1 .. Len(next), NEW j \in 1 .. Len(next), next[i].ip = next[j].ip
        PROVE  i = j
    <3>1. (i \in 1 .. n \/ i = n + 1) /\ (j \in 1 .. n \/ j = n + 1)
      BY <2>2, <2>5
    <3>2. CASE i \in 1 .. n /\ j \in 1 .. n
      BY <2>2, <2>8, <3>2 DEF Listing, n
    <3>3. CASE i \in 1 .. n /\ j = n + 1
      BY <2>2, <2>3, <2>8, <3>3
    <3>4. CASE i = n + 1 /\ j \in 1 .. n
      BY <2>2, <2>3, <2>8, <3>4
    <3> QED BY <3>1, <3>2, <3>3, <3>4
  <2>9. ASSUME NEW k \in 1 .. Len(next) PROVE Fits(next[k], M, open)
    <3>1. CASE k \in 1 .. n
      <4>1. Fits(list[k], N, open) /\ next[k] = list[k] /\ list[k].ip # m.ip
        BY <2>2, <2>3, <3>1 DEF n
      <4>2. list[k].ip \in M <=> list[k].ip \in N
        BY <4>1
      <4> QED BY <4>1, <4>2 DEF Fits
    <3>2. CASE k = n + 1
      <4>1. next[k] = m /\ open[m.ip] = {}
        BY <2>2, <2>4, <3>2
      <4>2. m.ip \in M <=> m.model # Unknown
        BY <2>4
      <4> QED BY <4>1, <4>2 DEF Fits
    <3> QED BY <2>2, <2>5, <3>1, <3>2
  <2>10. Listing(next, S \cup {m.ip})
    BY <2>2, <2>6, <2>7, <2>8 DEF Listing
  <2> QED BY <1>2, <2>9, <2>10
<1>4. CASE known # {}
  <2> DEFINE i0 == Min(known)
  <2>1. i0 \in 1 .. n /\ list[i0].ip = m.ip
    <3>1. known \subseteq Nat
      BY <1>1
    <3> HIDE DEF known
    <3>2. Min(known) \in known
      BY <1>4, <3>1, MinIs
    <3> QED BY <1>1, <3>2 DEF known
  <2>2. next = [list EXCEPT ![i0] = Backfill(@, m)]
    BY <1>4, Zenon DEF MergeOne, known, i0
  <2> HIDE DEF i0, known
  <2> DEFINE b == Backfill(list[i0], m)
  <2>3. IsPrinter(list[i0]) /\ Fits(list[i0], N, open)
    BY <2>1 DEF Listing
  <2>4. /\ IsPrinter(b) /\ b.ip = m.ip /\ b.model = OrElse(list[i0].model, m.model)
        /\ b.ports = list[i0].ports \cup m.ports /\ b.methods = list[i0].methods \cup {"mdns"}
    BY <2>1, <2>3, BackfillIs
  <2>5. /\ DOMAIN next = 1 .. n /\ next[i0] = b /\ \A k \in 1 .. n : k # i0 => next[k] = list[k]
    BY <1>1, <2>1, <2>2
  <2> HIDE DEF b
  <2>6. IsList(next) /\ Len(next) = n
    <3>1. next = [k \in DOMAIN next |-> next[k]]
      BY <2>2
    <3> QED BY <1>1, <2>5, <3>1 DEF IsList
  <2>7. \A k \in 1 .. n : next[k].ip = list[k].ip /\ IsPrinter(next[k])
    BY <2>1, <2>4, <2>5 DEF Listing
  <2>8. Fits(b, M, open)
    <3>1. "local" \notin b.methods
      BY <2>3, <2>4 DEF Fits
    <3>2. b.model # Unknown <=> b.ip \in M
      BY <2>1, <2>3, <2>4 DEF Fits, OrElse
    <3>3. open[b.ip] \subseteq b.ports
      BY <2>1, <2>3, <2>4 DEF Fits
    <3> QED BY <3>1, <3>2, <3>3 DEF Fits
  <2>9. ASSUME NEW k \in 1 .. n PROVE Fits(next[k], M, open)
    <3>1. CASE k = i0
      BY <2>5, <2>8, <3>1
    <3>2. CASE k # i0
      <4>1. list[k].ip # m.ip
        BY <2>1, <3>2 DEF Listing
      <4>2. Fits(list[k], N, open) /\ (list[k].ip \in M <=> list[k].ip \in N)
        BY <4>1
      <4> QED BY <2>5, <3>2, <4>2 DEF Fits
    <3> QED BY <3>1, <3>2
  <2>10. S \cup {m.ip} = S
    BY <2>1 DEF Listing
  <2>11. Listing(next, S)
    <3>1. \A ip \in S : \E k \in 1 .. n : list[k].ip = ip
      BY DEF Listing
    <3>2. \A i, j \in 1 .. n : list[i].ip = list[j].ip => i = j
      BY DEF Listing
    <3>3. \A k \in 1 .. n : list[k].ip \in S
      BY DEF Listing
    <3> HIDE DEF n
    <3>4. \A k \in 1 .. n : IsPrinter(next[k]) /\ next[k].ip \in S
      BY <2>7, <3>3
    <3>5. \A ip \in S : \E k \in 1 .. n : next[k].ip = ip
      <4> SUFFICES ASSUME NEW ip \in S PROVE \E k \in 1 .. n : next[k].ip = ip
        OBVIOUS
      <4>1. PICK k \in 1 .. n : list[k].ip = ip
        BY <3>1
      <4> QED BY <2>7, <4>1
    <3>6. \A i, j \in 1 .. n : next[i].ip = next[j].ip => i = j
      BY <2>7, <3>2
    <3> QED BY <2>6, <3>4, <3>5, <3>6 DEF Listing
  <2> QED BY <1>2, <2>6, <2>9, <2>10, <2>11
<1> QED BY <1>3, <1>4

\* The rows that a merge can make.
RowsOf(ips, models, names, ports, methods) ==
  [ip : ips, model : models, name : names, ports : SUBSET ports, methods : SUBSET methods]

\* (merge_mdns_results) The list so far, announcement by announcement.
LEMMA MergeTurns ==
  ASSUME NEW list, IsList(list), \A k \in 1 .. Len(list) : IsPrinter(list[k]),
         NEW mdns, IsList(mdns), \A k \in 1 .. Len(mdns) : IsPrinter(mdns[k])
  PROVE  \E acc : /\ acc[0] = list
                  /\ \A k \in 1 .. Len(mdns) : acc[k] = MergeOne(acc[k - 1], mdns[k])
                  /\ MergeMdns(list, mdns) = acc[Len(mdns)]
<1> DEFINE n == Len(mdns)
           both == Range(list) \cup Range(mdns)
           ips == {r.ip : r \in both}
           models == {r.model : r \in both}
           names == {r.name : r \in both}
           ports == UNION {r.ports : r \in both}
           methods == {"mdns"} \cup UNION {r.methods : r \in both}
           T == RowsOf(ips, models, names, ports, methods)
           A == Seq(T)
           step == [p \in A \X (1 .. n) |-> MergeOne(p[1], mdns[p[2]])]
           Turns(g) == g = [s \in SUBSET DOMAIN mdns |->
                              IF s = {} THEN list
                              ELSE MergeOne(g[s \ {Max(s)}], mdns[Max(s)])]
           g0 == CHOOSE g : Turns(g)
<1>1. /\ n \in Nat /\ DOMAIN mdns = 1 .. n /\ \A k \in 1 .. n : mdns[k] \in Range(mdns)
      /\ \A r \in both : IsPrinter(r)
  <2>1. \A r \in Range(mdns) : \E k \in 1 .. n : r = mdns[k]
    BY ListIs
  <2>2. \A r \in Range(list) : \E k \in 1 .. Len(list) : r = list[k]
    BY ListIs
  <2>3. n \in Nat /\ DOMAIN mdns = 1 .. n /\ \A k \in 1 .. n : mdns[k] \in Range(mdns)
    BY ListIs
  <2> QED BY <2>1, <2>2, <2>3
<1>2. \A r \in both : r \in T
  <2> SUFFICES ASSUME NEW r \in both PROVE r \in T
    OBVIOUS
  <2>1. r.ip \in ips /\ r.model \in models /\ r.name \in names /\ r.ports \subseteq ports
        /\ r.methods \subseteq methods
    OBVIOUS
  <2>2. r = [ip |-> r.ip, model |-> r.model, name |-> r.name, ports |-> r.ports, methods |-> r.methods]
    BY <1>1 DEF IsPrinter
  <2> HIDE DEF both, ips, models, names, ports, methods
  <2> QED BY <2>1, <2>2 DEF RowsOf
<1>3. "mdns" \in methods
  OBVIOUS
<1>4. list \in A
  <2>1. list \in Seq(Range(list))
    BY ListIs
  <2>2. Range(list) \subseteq T
    BY <1>2
  <2> HIDE DEF T
  <2> QED BY <2>1, <2>2
<1>5. \A k \in 1 .. n : mdns[k] \in T
  BY <1>1, <1>2
<1> HIDE DEF ips, models, names, ports, methods, both
<1>6. ASSUME NEW s \in A, NEW m \in T PROVE MergeOne(s, m) \in A
  <2> DEFINE known == {i \in DOMAIN s : s[i].ip = m.ip}
  <2>1. CASE known = {}
    <3>1. MergeOne(s, m) = Append(s, m)
      BY <2>1, Zenon DEF MergeOne, known
    <3>2. Append(s, m) \in Seq(T)
      <4> HIDE DEF T
      <4> QED OBVIOUS
    <3> QED BY <3>1, <3>2
  <2>2. CASE known # {}
    <3> DEFINE i0 == Min(known)
    <3>1. i0 \in DOMAIN s
      <4>0. DOMAIN s \subseteq Nat
        <5> HIDE DEF T
        <5>1. DOMAIN s = 1 .. Len(s) /\ Len(s) \in Nat
          OBVIOUS
        <5> QED BY <5>1
      <4>1. known \subseteq Nat
        BY <4>0
      <4> HIDE DEF known
      <4>2. Min(known) \in known
        BY <2>2, <4>1, MinIs
      <4> QED BY <4>2 DEF known
    <3>2. MergeOne(s, m) = [s EXCEPT ![i0] = Backfill(s[i0], m)]
      BY <2>2, <3>1, Zenon DEF MergeOne, known, i0
    <3> HIDE DEF i0, known
    <3>3. s[i0] \in T
      <4> HIDE DEF T
      <4> QED BY <3>1
    <3>4. IsPrinter(s[i0])
      BY <3>3 DEF RowsOf, IsPrinter
    <3> DEFINE b == Backfill(s[i0], m)
    <3>5. /\ IsPrinter(b) /\ b.ip = s[i0].ip /\ b.model = OrElse(s[i0].model, m.model)
          /\ b.name = OrElse(s[i0].name, m.name)
          /\ b.ports = s[i0].ports \cup m.ports /\ b.methods = s[i0].methods \cup {"mdns"}
      BY <3>4, BackfillIs
    <3> HIDE DEF b
    <3>6. b.ip \in ips /\ b.model \in models /\ b.name \in names /\ b.ports \in SUBSET ports
          /\ b.methods \in SUBSET methods
      BY <1>3, <3>3, <3>5 DEF RowsOf, OrElse
    <3>7. b \in T
      BY <3>5, <3>6 DEF RowsOf, IsPrinter
    <3> HIDE DEF T
    <3>8. [s EXCEPT ![i0] = b] \in Seq(T)
      BY <3>1, <3>7
    <3> QED BY <3>2, <3>8 DEF b
  <2> QED BY <2>1, <2>2
<1> HIDE DEF T
<1>7. step \in [A \X (1 .. n) -> A]
  <2>1. \A s \in A, k \in 1 .. n : MergeOne(s, mdns[k]) \in A
    BY <1>5, <1>6
  <2> HIDE DEF A
  <2> QED BY <2>1
<1>8. PICK g : FoldsBy(g, A, list, step, n)
  <2> HIDE DEF A, step
  <2> QED BY <1>1, <1>4, <1>7, FoldExists
<1>9. Turns(g)
  <2>1. ASSUME NEW s \in SUBSET (1 .. n), s # {}
        PROVE  g[s] = MergeOne(g[s \ {Max(s)}], mdns[Max(s)])
    <3>1. Max(s) \in 1 .. n
      <4>1. s \subseteq 0 .. n
        BY <1>1
      <4> QED BY <1>1, <2>1, <4>1, MaxIs
    <3>2. g[s] = step[<<g[s \ {Max(s)}], Max(s)>>] /\ g[s \ {Max(s)}] \in A
      BY <2>1, <1>8 DEF FoldsBy
    <3> HIDE DEF A
    <3> QED BY <3>1, <3>2
  <2>2. g = [s \in SUBSET (1 .. n) |-> g[s]] /\ g[{}] = list
    BY <1>8 DEF FoldsBy
  <2> QED BY <1>1, <2>1, <2>2
<1>10. Turns(g0)
  <2> HIDE DEF Turns
  <2> QED BY <1>9
<1>11. MergeMdns(list, mdns) = g0[1 .. n]
  BY <1>1, Zenon DEF MergeMdns, FoldLeft, MapThenFoldSet
<1> DEFINE acc == [k \in 0 .. n |-> g0[1 .. k]]
<1>12. acc[0] = list
  <2>1. 1 .. 0 = {} /\ 0 \in 0 .. n
    BY <1>1
  <2> HIDE DEF g0
  <2> QED BY <1>10, <2>1
<1>13. ASSUME NEW k \in 1 .. n PROVE acc[k] = MergeOne(acc[k - 1], mdns[k])
  <2>1. k \in Nat \ {0} /\ k - 1 \in 0 .. n /\ k \in 0 .. n /\ 1 .. k \in SUBSET (1 .. n)
    BY <1>1
  <2>2. 1 .. k # {} /\ Max(1 .. k) = k /\ (1 .. k) \ {k} = 1 .. k - 1
    BY <2>1, FoldTurn
  <2> HIDE DEF g0
  <2>3. g0[1 .. k] = MergeOne(g0[1 .. k - 1], mdns[k])
    BY <1>1, <1>10, <2>1, <2>2
  <2> QED BY <2>1, <2>3
<1>14. n \in 0 .. n
  BY <1>1
<1> HIDE DEF g0
<1>15. MergeMdns(list, mdns) = acc[n]
  BY <1>11, <1>14
<1> HIDE DEF acc
<1> QED BY <1>12, <1>13, <1>15

\* (merge_mdns_results) All announcements: every address once, with what any of them knows.
LEMMA MergeMdnsIs ==
  ASSUME NEW list, NEW S, NEW N, NEW open, ScanRows(list, S, N, open),
         NEW mdns, IsList(mdns),
         \A k \in 1 .. Len(mdns) : /\ IsPrinter(mdns[k]) /\ "local" \notin mdns[k].methods
                                   /\ mdns[k].ip \notin S => open[mdns[k].ip] = {}
  PROVE  ScanRows(MergeMdns(list, mdns), S \cup {mdns[k].ip : k \in 1 .. Len(mdns)},
                  N \cup {mdns[j].ip : j \in {i \in 1 .. Len(mdns) : mdns[i].model # Unknown}}, open)
<1> DEFINE n == Len(mdns)
           To(k) == S \cup {mdns[j].ip : j \in 1 .. k}
           NamedTo(k) == N \cup {mdns[j].ip : j \in {i \in 1 .. k : mdns[i].model # Unknown}}
<1>1. n \in Nat /\ IsList(list) /\ \A k \in 1 .. Len(list) : IsPrinter(list[k])
  BY ListIs DEF ScanRows, Listing
<1>3. PICK acc : /\ acc[0] = list
                 /\ \A k \in 1 .. n : acc[k] = MergeOne(acc[k - 1], mdns[k])
                 /\ MergeMdns(list, mdns) = acc[n]
  BY <1>1, MergeTurns
<1> DEFINE Is(k) == ScanRows(acc[k], To(k), NamedTo(k), open)
           P == {k \in Nat : k <= n => Is(k)}
<1>4. 0 \in P
  <2>0. 1 .. 0 = {} /\ {i \in {} : mdns[i].model # Unknown} = {}
    OBVIOUS
  <2>1. To(0) = S /\ NamedTo(0) = N
    BY <2>0
  <2> HIDE DEF To, NamedTo
  <2> QED BY <1>3, <2>1
<1>5. ASSUME NEW k \in Nat, k \in P PROVE k + 1 \in P
  <2> HIDE DEF Is
  <2> SUFFICES ASSUME k + 1 <= n PROVE Is(k + 1)
    OBVIOUS
  <2> DEFINE m == mdns[k + 1]
  <2>1. k <= n /\ k + 1 \in 1 .. n /\ (k + 1) - 1 = k /\ 1 .. k + 1 = (1 .. k) \cup {k + 1}
    BY <1>1
  <2>2. Is(k) /\ acc[k + 1] = MergeOne(acc[k], m)
    BY <1>3, <1>5, <2>1
  <2>3. To(k + 1) = To(k) \cup {m.ip}
    BY <2>1
  <2>4. NamedTo(k + 1) = AlsoNamed(NamedTo(k), m)
    <3>1. CASE m.model # Unknown
      <4>1. {i \in 1 .. k + 1 : mdns[i].model # Unknown} =
              {i \in 1 .. k : mdns[i].model # Unknown} \cup {k + 1}
        BY <2>1, <3>1
      <4> QED BY <3>1, <4>1 DEF AlsoNamed
    <3>2. CASE m.model = Unknown
      <4>1. {i \in 1 .. k + 1 : mdns[i].model # Unknown} = {i \in 1 .. k : mdns[i].model # Unknown}
        BY <2>1, <3>2
      <4> QED BY <3>2, <4>1 DEF AlsoNamed
    <3> QED BY <3>1, <3>2
  <2>5. /\ IsPrinter(m) /\ "local" \notin m.methods
        /\ m.ip \notin To(k) => open[m.ip] = {}
    <3>1. IsPrinter(m) /\ "local" \notin m.methods /\ (m.ip \notin S => open[m.ip] = {})
      BY <2>1
    <3>2. S \subseteq To(k)
      OBVIOUS
    <3> HIDE DEF To, m
    <3> QED BY <3>1, <3>2
  <2> HIDE DEF To, NamedTo, m
  <2>6. ScanRows(acc[k], To(k), NamedTo(k), open)
    BY <2>2 DEF Is
  <2>7. ScanRows(acc[k + 1], To(k + 1), NamedTo(k + 1), open)
    BY <2>2, <2>3, <2>4, <2>5, <2>6, MergeOneIs
  <2> QED BY <2>7 DEF Is
<1>6. Is(n)
  <2> HIDE DEF P
  <2>1. \A k \in Nat : k \in P
    BY <1>4, <1>5, Induction
  <2>2. n \in P /\ n <= n
    BY <1>1, <2>1
  <2> HIDE DEF Is
  <2> QED BY <2>2 DEF P
<1> QED BY <1>3, <1>6

\* (sort_by_key) Sorting the rows by their address changes nothing else.
LEMMA ByAddressIs ==
  ASSUME NEW list, NEW S, Listing(list, S), S \subseteq Int
  PROVE  /\ Listing(ByAddress(list), S)
         /\ \A k \in 1 .. Len(ByAddress(list)) : \E i \in 1 .. Len(list) : ByAddress(list)[k] = list[i]
<1> DEFINE n == Len(list)
           before == [i \in DOMAIN list |->
                        {j \in DOMAIN list : list[j].ip < list[i].ip \/ (list[j].ip = list[i].ip /\ j < i)}]
           order == Sorted(DOMAIN list, before)
           result == ByAddress(list)
<1>1. n \in Nat /\ DOMAIN list = 1 .. n
  BY ListIs DEF Listing
<1>2. \A k \in 1 .. n : list[k].ip \in Int
  BY DEF Listing
<1>3. result = [k \in DOMAIN list |-> list[order[k]]]
  BY Zenon DEF ByAddress, result, order, before
<1>4. Ordering(1 .. n, before)
  <2> DEFINE ip == [k \in 1 .. n |-> list[k].ip]
             Less(j, i) == ip[j] < ip[i] \/ (ip[j] = ip[i] /\ j < i)
  <2>1. \A k \in 1 .. n : ip[k] \in Int
    BY <1>2
  <2>2. \A i, j \in 1 .. n : j \in before[i] <=> Less(j, i)
    BY <1>1
  <2>3. before \in [1 .. n -> SUBSET (1 .. n)]
    BY <1>1
  <2> HIDE DEF ip, before
  <2>4. \A i \in 1 .. n : ~Less(i, i)
    BY <2>1
  <2>5. \A i, j \in 1 .. n : i # j => Less(i, j) \/ Less(j, i)
    BY <2>1
  <2>6. ASSUME NEW i \in 1 .. n, NEW j \in 1 .. n, NEW k \in 1 .. n, Less(j, i), Less(k, j)
        PROVE  Less(k, i)
    BY <2>1, <2>6
  <2> HIDE DEF Less
  <2>7. \A i, j \in 1 .. n : j \in before[i] => before[j] \subseteq before[i]
    BY <2>2, <2>3, <2>6
  <2> QED BY <2>2, <2>3, <2>4, <2>5, <2>7 DEF Ordering
<1>5. IsFiniteSet(1 .. n) /\ Cardinality(1 .. n) = n
  BY <1>1, Positions, KeepAll
<1> HIDE DEF before
<1>6. /\ order \in [1 .. n -> 1 .. n]
      /\ \A x \in 1 .. n : \E k \in 1 .. n : order[k] = x
      /\ \A i, j \in 1 .. n : order[i] = order[j] => i = j
  <2> DEFINE D == 1 .. n
  <2>1. IsFiniteSet(D) /\ Ordering(D, before) /\ Cardinality(D) = n /\ D = DOMAIN list
    BY <1>1, <1>4, <1>5
  <2> HIDE DEF D, n
  <2>2. /\ order \in [1 .. n -> D]
        /\ \A x \in D : \E k \in 1 .. n : order[k] = x
        /\ \A i, j \in 1 .. n : order[i] = order[j] => i = j
    BY <2>1, SortedIs
  <2> HIDE DEF order
  <2> QED BY <2>2 DEF D
<1> HIDE DEF order, result
<1>7. /\ DOMAIN result = 1 .. n /\ \A k \in 1 .. n : result[k] = list[order[k]]
  BY <1>1, <1>3
<1>8. IsList(result) /\ Len(result) = n
  <2>1. result = [k \in DOMAIN result |-> result[k]]
    BY <1>3
  <2> HIDE DEF n
  <2> QED BY <1>1, <1>7, <2>1 DEF IsList
<1>9. \A k \in 1 .. n : order[k] \in 1 .. n
  BY <1>6
<1>10. \A k \in 1 .. n : IsPrinter(list[k]) /\ list[k].ip \in S
  BY DEF Listing
<1>11. \A ip \in S : \E k \in 1 .. n : list[k].ip = ip
  BY DEF Listing
<1>12. \A i, j \in 1 .. n : list[i].ip = list[j].ip => i = j
  BY DEF Listing
<1> HIDE DEF n
<1>13. \A k \in 1 .. n : IsPrinter(result[k]) /\ result[k].ip \in S
  BY <1>7, <1>9, <1>10
<1>14. ASSUME NEW ip \in S PROVE \E k \in 1 .. n : result[k].ip = ip
  <2>1. PICK i \in 1 .. n : list[i].ip = ip
    BY <1>11
  <2>2. PICK k \in 1 .. n : order[k] = i
    BY <1>6
  <2> QED BY <1>7, <2>1, <2>2
<1>15. ASSUME NEW i \in 1 .. n, NEW j \in 1 .. n, result[i].ip = result[j].ip PROVE i = j
  <2>1. list[order[i]].ip = list[order[j]].ip
    BY <1>7, <1>15
  <2>2. order[i] = order[j]
    BY <1>9, <1>12, <2>1
  <2> QED BY <1>6, <2>2
<1>16. Listing(result, S)
  BY <1>8, <1>13, <1>14, <1>15 DEF Listing
<1>17. \A k \in 1 .. n : \E i \in 1 .. n : result[k] = list[i]
  BY <1>7, <1>9
<1> QED BY <1>8, <1>16, <1>17 DEF result, n

\* There are finitely many addresses, all of them numbers.
LEMMA AddressesAre == IsFiniteSet(Address) /\ Address \subseteq Int
<1>1. Bits \in Nat
  BY BitsAssumption
<1>2. Pow2[Bits] \in Nat
  BY <1>1, Powers
<1>3. 0 \in Int /\ Pow2[Bits] - 1 \in Int
  BY <1>2
<1> QED BY <1>3, FS_Interval DEF Address

\* A row for each of some addresses, in their order.
LEMMA RowsInOrder ==
  ASSUME NEW K, K \subseteq Address, NEW row, \A ip \in K : IsPrinter(row[ip]) /\ row[ip].ip = ip,
         NEW list, list = [k \in DOMAIN InOrder(K) |-> row[InOrder(K)[k]]]
  PROVE  /\ Listing(list, K)
         /\ \A k \in 1 .. Len(list) : \E ip \in K : list[k] = row[ip]
<1> DEFINE found == InOrder(K)
           n == Cardinality(K)
<1>1. K \subseteq Int /\ IsFiniteSet(K)
  BY AddressesAre, FS_Subset
<1>2. /\ n \in Nat /\ found \in [1 .. n -> K]
      /\ \A x \in K : \E k \in 1 .. n : found[k] = x
      /\ \A i, j \in 1 .. n : i < j => found[i] < found[j]
  BY <1>1, InOrderIs
<1> HIDE DEF found, n
<1>3. list = [k \in 1 .. n |-> row[found[k]]]
  BY <1>2 DEF found
<1>4. DOMAIN list = 1 .. n /\ Len(list) = n /\ IsList(list)
  BY <1>2, <1>3 DEF IsList
<1>5. \A k \in 1 .. n : found[k] \in K /\ list[k] = row[found[k]]
  BY <1>2, <1>3
<1>6. \A i, j \in 1 .. n : found[i] = found[j] => i = j
  <2>1. \A k \in 1 .. n : found[k] \in Int
    BY <1>1, <1>5
  <2> QED BY <1>2, <2>1
<1>7. \A ip \in K : \E k \in 1 .. n : list[k].ip = ip
  <2> SUFFICES ASSUME NEW ip \in K PROVE \E k \in 1 .. n : list[k].ip = ip
    OBVIOUS
  <2>1. PICK k \in 1 .. n : found[k] = ip
    BY <1>2
  <2> QED BY <1>5, <2>1
<1>8. \A k \in 1 .. n : IsPrinter(list[k]) /\ list[k].ip \in K /\ list[k].ip = found[k]
  BY <1>5
<1>9. \A i, j \in 1 .. n : list[i].ip = list[j].ip => i = j
  BY <1>6, <1>8
<1>10. Listing(list, K)
  BY <1>4, <1>7, <1>8, <1>9 DEF Listing
<1> QED BY <1>4, <1>5, <1>10

\* The rows of the probes alone, before anything that was announced.
ProbedRows(net, hosts, method) ==
  CASE method = "snmp" -> ScanSnmpOnly(net, hosts)
    [] method = "port" -> ScanPortOnly(net, hosts)
    [] method = "mdns" -> <<>>
    [] method = "all" -> ScanAll(net, hosts)

\* The ports a scan found open at an address.
OpenPorts(net, hosts, method) ==
  [ip \in Address |-> IF ip \in hosts /\ method \in {"all", "port"} THEN net[ip].ports ELSE {}]

\* The addresses that answer a probe, and those of them that name a model.
ProbedAt(net, hosts, method) ==
  {ip \in hosts : \/ method = "snmp" /\ SnmpModel(net[ip]) # Unknown
                  \/ method \in {"all", "port"} /\ net[ip].ports # {}}

NamedAt(net, hosts, method) ==
  {ip \in hosts : \/ method = "snmp" /\ SnmpModel(net[ip]) # Unknown
                  \/ method = "all" /\ net[ip].ports # {} /\ Identify(ip, net[ip]).model # Unknown}

\* (identify_printer) SNMP names a model if either object does before the attempts run out.
LEMMA SnmpIs ==
  ASSUME NEW at
  PROVE  SnmpModel(at) # Unknown <=>
           \E o \in {at.descr, at.sys} : o.text # Unknown /\ o.lost < MaxAttempts
BY DEF SnmpModel, SnmpGet, OrElse

\* (scan_all) A probed address has the ports it was probed on, and the model of IPP or SNMP.
LEMMA IdentifyIs ==
  ASSUME NEW ip, NEW at
  PROVE  /\ IsPrinter(Identify(ip, at)) /\ Identify(ip, at).ip = ip
         /\ Identify(ip, at).ports = at.ports /\ "local" \notin Identify(ip, at).methods
         /\ Identify(ip, at).model # Unknown <=>
              (631 \in at.ports /\ QueryIpp(at.ipp).model # Unknown) \/ SnmpModel(at) # Unknown
<1> DEFINE ipp == IF 631 \in at.ports THEN QueryIpp(at.ipp).model ELSE Unknown
           snmp == SnmpModel(at)
           methods == {"port"} \cup (IF ipp # Unknown THEN {"ipp"} ELSE {})
                        \cup (IF snmp # Unknown THEN {"snmp"} ELSE {})
           r == Identify(ip, at)
<1>1. r = [ip |-> ip, model |-> OrElse(ipp, snmp), name |-> Unknown, ports |-> at.ports,
           methods |-> methods]
  BY DEF Identify, Probed
<1>2. "local" \notin methods
  OBVIOUS
<1>3. OrElse(ipp, snmp) # Unknown <=>
        (631 \in at.ports /\ QueryIpp(at.ipp).model # Unknown) \/ SnmpModel(at) # Unknown
  BY DEF OrElse
<1> HIDE DEF r, ipp, snmp, methods
<1>4. /\ IsPrinter(r) /\ r.ip = ip /\ r.ports = at.ports /\ r.methods = methods
      /\ r.model = OrElse(ipp, snmp)
  BY <1>1 DEF IsPrinter
<1> QED BY <1>2, <1>3, <1>4 DEF r

\* No row at all.
LEMMA NoRows ==
  ASSUME NEW open
  PROVE  ScanRows(<<>>, {}, {}, open)
<1>1. IsList(<<>>) /\ Len(<<>>) = 0 /\ 1 .. 0 = {}
  BY DEF IsList
<1> QED BY <1>1 DEF ScanRows, Listing

\* (scan_snmp_only, scan_port_only, scan_all) Every address that answers has one row.
LEMMA ProbedRowsAre ==
  ASSUME NEW net, NEW hosts, hosts \subseteq Address, NEW method \in {"all", "snmp", "port", "mdns"}
  PROVE  ScanRows(ProbedRows(net, hosts, method), ProbedAt(net, hosts, method),
                  NamedAt(net, hosts, method), OpenPorts(net, hosts, method))
<1> DEFINE K == ProbedAt(net, hosts, method)
           N == NamedAt(net, hosts, method)
           open == OpenPorts(net, hosts, method)
           rows == ProbedRows(net, hosts, method)
           found == InOrder(K)
           row == [ip \in K |->
                     CASE method = "snmp" -> Probed(ip, {}, SnmpModel(net[ip]), {"snmp"})
                       [] method = "port" -> Probed(ip, net[ip].ports, Unknown, {"port"})
                       [] OTHER -> Identify(ip, net[ip])]
<1>1. K \subseteq Address /\ N \subseteq K
  BY DEF ProbedAt, NamedAt
<1>2. CASE method = "mdns"
  <2>1. rows = <<>> /\ K = {} /\ N = {}
    BY <1>2 DEF ProbedRows, ProbedAt, NamedAt
  <2> HIDE DEF rows, K, N, open
  <2>2. ScanRows(rows, K, N, open)
    BY <2>1, NoRows
  <2> QED BY <2>2 DEF rows, K, N, open
<1>3. CASE method # "mdns"
  <2>1. ASSUME NEW ip \in K PROVE IsPrinter(row[ip]) /\ row[ip].ip = ip
    <3>1. CASE method = "snmp" \/ method = "port"
      BY <3>1 DEF IsPrinter, Probed
    <3>2. CASE ~(method = "snmp" \/ method = "port")
      <4>1. row[ip] = Identify(ip, net[ip])
        BY <3>2
      <4> HIDE DEF row
      <4> QED BY <4>1, IdentifyIs
    <3> QED BY <3>1, <3>2
  <2>2. ASSUME NEW ip \in K PROVE Fits(row[ip], N, open)
    <3>1. CASE method = "snmp"
      <4>1. row[ip] = [ip |-> ip, model |-> SnmpModel(net[ip]), name |-> Unknown, ports |-> {},
                       methods |-> {"snmp"}]
        BY <3>1 DEF Probed
      <4>2. ip \in N /\ SnmpModel(net[ip]) # Unknown /\ open[ip] = {}
        BY <1>1, <3>1 DEF ProbedAt, NamedAt, OpenPorts
      <4> HIDE DEF row, N, open
      <4> QED BY <4>1, <4>2 DEF Fits
    <3>2. CASE method = "port"
      <4>1. row[ip] = [ip |-> ip, model |-> Unknown, name |-> Unknown, ports |-> net[ip].ports,
                       methods |-> {"port"}]
        BY <3>2 DEF Probed
      <4>2. ip \notin N /\ open[ip] = net[ip].ports
        BY <1>1, <3>2 DEF ProbedAt, NamedAt, OpenPorts
      <4> HIDE DEF row, N, open
      <4> QED BY <4>1, <4>2 DEF Fits
    <3>3. CASE method = "all"
      <4>1. row[ip] = Identify(ip, net[ip])
        BY <3>3
      <4>2. /\ ip \in N <=> Identify(ip, net[ip]).model # Unknown
            /\ open[ip] = net[ip].ports
        BY <1>1, <3>3 DEF ProbedAt, NamedAt, OpenPorts
      <4>3. /\ Identify(ip, net[ip]).ip = ip /\ Identify(ip, net[ip]).ports = net[ip].ports
            /\ "local" \notin Identify(ip, net[ip]).methods
        BY IdentifyIs
      <4> HIDE DEF row, N, open
      <4> QED BY <4>1, <4>2, <4>3 DEF Fits
    <3> QED BY <1>3, <3>1, <3>2, <3>3
  <2>3. /\ Cardinality(K) \in Nat /\ found \in [1 .. Cardinality(K) -> K]
    <3>1. IsFiniteSet(K) /\ K \subseteq Int
      BY <1>1, AddressesAre, FS_Subset
    <3> HIDE DEF K
    <3> QED BY <3>1, InOrderIs
  <2>4. rows = [k \in DOMAIN found |-> row[found[k]]]
    <3>1. \A k \in DOMAIN found : found[k] \in K
      BY <2>3
    <3>2. CASE method = "snmp"
      <4>1. K = {h \in hosts : SnmpModel(net[h]) # Unknown}
        BY <3>2 DEF ProbedAt
      <4>2. rows = [k \in DOMAIN found |-> Probed(found[k], {}, SnmpModel(net[found[k]]), {"snmp"})]
        BY <3>2, <4>1 DEF ProbedRows, ScanSnmpOnly
      <4> HIDE DEF rows, found
      <4> QED BY <3>1, <3>2, <4>2
    <3>3. CASE method = "port"
      <4>1. K = {h \in hosts : net[h].ports # {}}
        BY <3>3 DEF ProbedAt
      <4>2. rows = [k \in DOMAIN found |-> Probed(found[k], net[found[k]].ports, Unknown, {"port"})]
        BY <3>3, <4>1 DEF ProbedRows, ScanPortOnly, Prober
      <4> HIDE DEF rows, found
      <4> QED BY <3>1, <3>3, <4>2
    <3>4. CASE method = "all"
      <4>1. K = {h \in hosts : net[h].ports # {}}
        BY <3>4 DEF ProbedAt
      <4>2. rows = [k \in DOMAIN found |-> Identify(found[k], net[found[k]])]
        BY <3>4, <4>1 DEF ProbedRows, ScanAll, Prober
      <4> HIDE DEF rows, found
      <4> QED BY <3>1, <3>4, <4>2
    <3> QED BY <1>3, <3>2, <3>3, <3>4
  <2> HIDE DEF rows, row, K, N, open
  <2>5. /\ Listing(rows, K)
        /\ \A k \in 1 .. Len(rows) : \E ip \in K : rows[k] = row[ip]
    BY <1>1, <2>1, <2>4, RowsInOrder DEF found
  <2>6. ScanRows(rows, K, N, open)
    BY <1>1, <2>2, <2>5 DEF ScanRows
  <2> QED BY <2>6 DEF rows, K, N, open
<1> QED BY <1>2, <1>3

\* (merge_by_ip) One announcement for all that an address announced.
LEMMA CollapseIs ==
  ASSUME NEW heard, IsList(heard), NEW ip, \E m \in Range(heard) : m.ip = ip
  PROVE  /\ IsPrinter(Collapse(heard, ip)) /\ Collapse(heard, ip).ip = ip
         /\ Collapse(heard, ip).methods = {"mdns"}
         /\ Collapse(heard, ip).model # Unknown <=>
              \E m \in Range(heard) : m.ip = ip /\ m.model # Unknown
<1> DEFINE own == {k \in DOMAIN heard : heard[k].ip = ip}
           named == {k \in own : heard[k].model # Unknown}
           model == IF named = {} THEN Unknown ELSE heard[Min(named)].model
           top == Max({ServicePriority[heard[k].service] : k \in own})
           best == {k \in own : ServicePriority[heard[k].service] = top}
           name == heard[Min(own)].host
           ports == {CanonicalPort(heard[Min(best)])}
           c == Collapse(heard, ip)
<1>1. c = [ip |-> ip, model |-> model, name |-> name, ports |-> ports, methods |-> {"mdns"}]
  BY Zenon DEF Collapse, c, own, named, model, top, best, name, ports
<1>2. DOMAIN heard \subseteq Nat
  <2>1. Len(heard) \in Nat /\ DOMAIN heard = 1 .. Len(heard)
    BY ListIs
  <2> QED BY <2>1
<1>3. model # Unknown <=> \E m \in Range(heard) : m.ip = ip /\ m.model # Unknown
  <2>1. CASE named = {}
    BY <2>1 DEF Range
  <2>2. CASE named # {}
    <3>1. named \subseteq Nat
      BY <1>2
    <3>2. Min(named) \in named
      <4> HIDE DEF named
      <4> QED BY <2>2, <3>1, MinIs
    <3>3. Min(named) \in DOMAIN heard /\ heard[Min(named)].ip = ip /\ heard[Min(named)].model # Unknown
      BY <3>2
    <3>4. model = heard[Min(named)].model
      BY <2>2
    <3> HIDE DEF named, model
    <3>5. heard[Min(named)] \in Range(heard)
      BY <3>3 DEF Range
    <3> QED BY <3>3, <3>4, <3>5
  <2> QED BY <2>1, <2>2
<1> HIDE DEF c, model, name, ports
<1>4. IsPrinter(c) /\ c.ip = ip /\ c.methods = {"mdns"} /\ c.model = model
  BY <1>1 DEF IsPrinter
<1> QED BY <1>3, <1>4 DEF c

\* (discover) One row for every address that announced itself.
LEMMA DiscoverIs ==
  ASSUME NEW heard, IsList(heard), \A m \in Range(heard) : m.ip \in Address
  PROVE  /\ Listing(Discover(heard), {m.ip : m \in Range(heard)})
         /\ \A k \in 1 .. Len(Discover(heard)) :
              /\ Discover(heard)[k].methods = {"mdns"}
              /\ Discover(heard)[k].model # Unknown <=>
                   \E m \in Range(heard) : m.ip = Discover(heard)[k].ip /\ m.model # Unknown
<1> DEFINE K == {m.ip : m \in Range(heard)}
           row == [ip \in K |-> Collapse(heard, ip)]
           found == InOrder(K)
           list == Discover(heard)
<1>1. K \subseteq Address
  OBVIOUS
<1>2. \A k \in DOMAIN found : found[k] \in K
  <2>1. IsFiniteSet(K) /\ K \subseteq Int
    BY <1>1, AddressesAre, FS_Subset
  <2> HIDE DEF K
  <2>2. Cardinality(K) \in Nat /\ found \in [1 .. Cardinality(K) -> K]
    BY <2>1, InOrderIs
  <2> HIDE DEF found
  <2> QED BY <2>2
<1>3. list = [k \in DOMAIN found |-> Collapse(heard, found[k])]
  BY Zenon DEF Discover, list, found, K
<1>4. list = [k \in DOMAIN found |-> row[found[k]]]
  <2> HIDE DEF list, found, K
  <2> QED BY <1>2, <1>3
<1>5. ASSUME NEW ip \in K
      PROVE  /\ IsPrinter(row[ip]) /\ row[ip].ip = ip /\ row[ip].methods = {"mdns"}
             /\ row[ip].model # Unknown <=> \E m \in Range(heard) : m.ip = ip /\ m.model # Unknown
  <2>1. \E m \in Range(heard) : m.ip = ip
    BY <1>5
  <2>2. row[ip] = Collapse(heard, ip)
    OBVIOUS
  <2> HIDE DEF row, K
  <2> QED BY <2>1, <2>2, CollapseIs
<1> HIDE DEF row, K, list
<1>6. /\ Listing(list, K) /\ \A k \in 1 .. Len(list) : \E ip \in K : list[k] = row[ip]
  BY <1>1, <1>4, <1>5, RowsInOrder DEF found
<1>7. ASSUME NEW k \in 1 .. Len(list)
      PROVE  /\ list[k].methods = {"mdns"}
             /\ list[k].model # Unknown <=>
                  \E m \in Range(heard) : m.ip = list[k].ip /\ m.model # Unknown
  <2>1. PICK ip \in K : list[k] = row[ip]
    BY <1>6
  <2> QED BY <1>5, <2>1
<1> QED BY <1>6, <1>7 DEF list, K

\* The addresses that announced themselves and are listened to, and those that named a model.
Announced(heard, method) == {m \in Range(heard) : method \in {"all", "mdns"}}

ListedAt(net, hosts, method, heard) ==
  ProbedAt(net, hosts, method) \cup {m.ip : m \in Announced(heard, method)}

ModelAt(net, hosts, method, heard) ==
  NamedAt(net, hosts, method)
    \cup {m.ip : m \in {a \in Announced(heard, method) : a.model # Unknown}}

\* (scan_subnet) Every address that answered has one row, with its model and its ports.
LEMMA ScanSubnetIs ==
  ASSUME NEW net, NEW hosts, hosts \subseteq Address, NEW method \in {"all", "snmp", "port", "mdns"},
         NEW heard, IsList(heard), \A m \in Range(heard) : m.ip \in Address
  PROVE  /\ ScanRows(ScanSubnet(net, hosts, method, heard), ListedAt(net, hosts, method, heard),
                     ModelAt(net, hosts, method, heard), OpenPorts(net, hosts, method))
         /\ ListedAt(net, hosts, method, heard) \subseteq Address
<1> DEFINE K == ProbedAt(net, hosts, method)
           N == NamedAt(net, hosts, method)
           open == OpenPorts(net, hosts, method)
           probed == ProbedRows(net, hosts, method)
           mdns == Discover(heard)
           A == ListedAt(net, hosts, method, heard)
           M == ModelAt(net, hosts, method, heard)
           merged == IF method \in {"all", "mdns"} THEN MergeMdns(probed, mdns) ELSE probed
           result == ScanSubnet(net, hosts, method, heard)
<1>1. ScanRows(probed, K, N, open)
  BY ProbedRowsAre
<1>2. A \subseteq Address
  BY DEF ListedAt, ProbedAt, Announced
<1>3. result = ByAddress(merged)
  BY Zenon DEF ScanSubnet, ProbedRows, merged, probed, mdns, result
<1>4. ScanRows(merged, A, M, open)
  <2>1. CASE method \in {"all", "mdns"}
    <3>1. /\ Listing(mdns, {m.ip : m \in Range(heard)})
          /\ \A k \in 1 .. Len(mdns) :
               /\ mdns[k].methods = {"mdns"}
               /\ mdns[k].model # Unknown <=>
                    \E m \in Range(heard) : m.ip = mdns[k].ip /\ m.model # Unknown
      BY DiscoverIs
    <3>2. \A ip \in Address : ip \notin K => open[ip] = {}
      BY <2>1 DEF ProbedAt, OpenPorts
    <3>3. \A m \in Announced(heard, method) : m.ip \in Address
      BY DEF Announced
    <3>4. Announced(heard, method) = Range(heard)
      BY <2>1 DEF Announced
    <3>5. merged = MergeMdns(probed, mdns)
      BY <2>1
    <3> HIDE DEF K, N, open, probed, mdns, merged
    <3>6. \A k \in 1 .. Len(mdns) : IsPrinter(mdns[k]) /\ \E m \in Range(heard) : mdns[k].ip = m.ip
      BY <3>1 DEF Listing
    <3>7. IsList(mdns) /\ \A m \in Range(heard) : \E k \in 1 .. Len(mdns) : mdns[k].ip = m.ip
      BY <3>1 DEF Listing
    <3>8. \A k \in 1 .. Len(mdns) : /\ IsPrinter(mdns[k]) /\ "local" \notin mdns[k].methods
                                    /\ mdns[k].ip \notin K => open[mdns[k].ip] = {}
      BY <3>1, <3>2, <3>6
    <3> DEFINE A1 == K \cup {mdns[k].ip : k \in 1 .. Len(mdns)}
               M1 == N \cup {mdns[j].ip : j \in {i \in 1 .. Len(mdns) : mdns[i].model # Unknown}}
    <3>9. ScanRows(merged, A1, M1, open)
      BY <1>1, <3>5, <3>7, <3>8, MergeMdnsIs DEF K, N, open, probed
    <3>10. A1 = A
      <4>1. A = K \cup {m.ip : m \in Range(heard)}
        BY <3>4 DEF ListedAt, K
      <4> QED BY <3>6, <3>7, <4>1
    <3>11. M1 = M
      <4>1. M = N \cup {m.ip : m \in {a \in Range(heard) : a.model # Unknown}}
        BY <3>4 DEF ModelAt, N
      <4>2. ASSUME NEW j \in 1 .. Len(mdns), mdns[j].model # Unknown
            PROVE  \E m \in {a \in Range(heard) : a.model # Unknown} : mdns[j].ip = m.ip
        BY <3>1, <4>2
      <4>3. ASSUME NEW m \in Range(heard), m.model # Unknown
            PROVE  \E j \in {i \in 1 .. Len(mdns) : mdns[i].model # Unknown} : mdns[j].ip = m.ip
        <5>1. PICK j \in 1 .. Len(mdns) : mdns[j].ip = m.ip
          BY <3>7
        <5> QED BY <3>1, <4>3, <5>1
      <4> HIDE DEF M
      <4> QED BY <4>1, <4>2, <4>3
    <3> QED BY <3>9, <3>10, <3>11
  <2>2. CASE method \notin {"all", "mdns"}
    <3>1. Announced(heard, method) = {}
      BY <2>2 DEF Announced
    <3>2. A = K /\ M = N /\ merged = probed
      BY <2>2, <3>1 DEF ListedAt, ModelAt
    <3> QED BY <1>1, <3>2
  <2> QED BY <2>1, <2>2
<1> HIDE DEF A, M, merged, result, open
<1>5. ScanRows(result, A, M, open)
  <2>1. Listing(merged, A) /\ M \subseteq A /\ A \subseteq Int
    BY <1>2, <1>4, AddressesAre DEF ScanRows
  <2>2. /\ Listing(result, A)
        /\ \A k \in 1 .. Len(result) : \E i \in 1 .. Len(merged) : result[k] = merged[i]
    BY <1>3, <2>1, ByAddressIs
  <2>3. \A k \in 1 .. Len(result) : Fits(result[k], M, open)
    BY <1>4, <2>2 DEF ScanRows
  <2> QED BY <2>1, <2>2, <2>3 DEF ScanRows
<1> QED BY <1>2, <1>5 DEF A, M, result, open

\* The row of an address is one, and an address without a row has none.
LEMMA RowsCount ==
  ASSUME NEW list, NEW S, Listing(list, S), NEW ip
  PROVE  Cardinality({i \in 1 .. Len(list) : list[i].ip = ip}) = IF ip \in S THEN 1 ELSE 0
<1> DEFINE rows == {i \in 1 .. Len(list) : list[i].ip = ip}
<1>1. CASE ip \in S
  <2>1. PICK k \in 1 .. Len(list) : list[k].ip = ip
    BY <1>1 DEF Listing
  <2>2. \A i, j \in 1 .. Len(list) : list[i].ip = list[j].ip => i = j
    BY DEF Listing
  <2>3. rows = {k}
    BY <2>1, <2>2
  <2>4. Cardinality(rows) = 1
    BY <2>3, FS_Singleton
  <2> QED BY <1>1, <2>4
<1>2. CASE ip \notin S
  <2>1. \A k \in 1 .. Len(list) : list[k].ip \in S
    BY DEF Listing
  <2>2. rows = {}
    BY <1>2, <2>1
  <2>3. Cardinality(rows) = 0
    BY <2>2, FS_EmptySet
  <2> QED BY <1>2, <2>3
<1> QED BY <1>1, <1>2

\* (full_discovery, deduplicate) Every answer is listed once, and every queue whose
\* address did not answer.
LEMMA ScanIs ==
  ASSUME NEW net, NEW hosts, hosts \subseteq Address, NEW method \in {"all", "snmp", "port", "mdns"},
         NEW heard, IsList(heard), \A m \in Range(heard) : m.ip \in Address,
         NEW local, IsList(local), \A q \in Range(local) : q.methods = {"local"}
  PROVE  EveryAnswerIsListed(net, hosts, method, heard, local,
                             FullDiscovery(net, hosts, method, heard, local))
<1> DEFINE network == ScanSubnet(net, hosts, method, heard)
           K == {k \in DOMAIN local :
                    \/ local[k].ip = Unknown
                    \/ \A i \in DOMAIN network : network[i].ip # local[k].ip}
           queues == Deduplicate(local, network)
           list == network \o queues
           S == ListedAt(net, hosts, method, heard)
           N == ModelAt(net, hosts, method, heard)
           n == Len(network)
           announced(ip) == {m \in Range(heard) : m.ip = ip /\ method \in {"all", "mdns"}}
           open(ip) == IF ip \in hosts /\ method \in {"all", "port"} THEN net[ip].ports ELSE {}
           snmp(ip) == \E o \in {net[ip].descr, net[ip].sys} :
                          o.text # Unknown /\ o.lost < MaxAttempts
           asked(ip) == ip \in hosts /\ method = "snmp" /\ snmp(ip)
           answers(ip) == asked(ip) \/ open(ip) # {} \/ announced(ip) # {}
           named(ip) ==
             \/ asked(ip)
             \/ method = "all" /\ open(ip) # {} /\ snmp(ip)
             \/ method = "all" /\ 631 \in open(ip) /\ QueryIpp(net[ip].ipp).model # Unknown
             \/ \E m \in announced(ip) : m.model # Unknown
           rows(ip) == {i \in DOMAIN list : list[i].ip = ip /\ list[i].methods # {"local"}}
<1>1. ScanRows(network, S, N, OpenPorts(net, hosts, method)) /\ S \subseteq Address
  BY ScanSubnetIs
<1>2. \A ip : snmp(ip) <=> SnmpModel(net[ip]) # Unknown
  BY SnmpIs
<1>3. ASSUME NEW ip PROVE answers(ip) <=> ip \in S
  <2>1. ip \in ProbedAt(net, hosts, method) <=> asked(ip) \/ open(ip) # {}
    <3>1. snmp(ip) <=> SnmpModel(net[ip]) # Unknown
      BY <1>2
    <3> HIDE DEF snmp
    <3> QED BY <3>1 DEF ProbedAt
  <2>2. ip \in {m.ip : m \in Announced(heard, method)} <=> announced(ip) # {}
    BY DEF Announced
  <2> HIDE DEF asked, open, announced
  <2> QED BY <2>1, <2>2 DEF ListedAt
<1>4. ASSUME NEW ip PROVE named(ip) <=> ip \in N
  <2>1. ip \in NamedAt(net, hosts, method) <=>
          \/ asked(ip)
          \/ method = "all" /\ open(ip) # {} /\ snmp(ip)
          \/ method = "all" /\ 631 \in open(ip) /\ QueryIpp(net[ip].ipp).model # Unknown
    <3>1. snmp(ip) <=> SnmpModel(net[ip]) # Unknown
      BY <1>2
    <3>2. Identify(ip, net[ip]).model # Unknown <=>
            (631 \in net[ip].ports /\ QueryIpp(net[ip].ipp).model # Unknown)
              \/ SnmpModel(net[ip]) # Unknown
      BY IdentifyIs
    <3> HIDE DEF snmp
    <3> QED BY <3>1, <3>2 DEF NamedAt
  <2>2. ip \in {m.ip : m \in {a \in Announced(heard, method) : a.model # Unknown}} <=>
          \E m \in announced(ip) : m.model # Unknown
    BY DEF Announced
  <2> HIDE DEF asked, open, announced, snmp
  <2> QED BY <2>1, <2>2 DEF ModelAt
<1>5. /\ IsList(network) /\ n \in Nat /\ DOMAIN network = 1 .. n
      /\ \A k \in 1 .. n : /\ "local" \notin network[k].methods
                           /\ network[k].ip \in S
                           /\ network[k].model # Unknown <=> network[k].ip \in N
                           /\ OpenPorts(net, hosts, method)[network[k].ip] \subseteq network[k].ports
      /\ \A ip \in S : \E k \in 1 .. n : network[k].ip = ip
  BY <1>1, ListIs DEF ScanRows, Listing, Fits
<1>6. \A ip \in Address : OpenPorts(net, hosts, method)[ip] = open(ip)
  BY DEF OpenPorts
<1>7. /\ IsList(queues) /\ Range(queues) = {local[k] : k \in K}
  <2>1. Len(local) \in Nat /\ DOMAIN local = 1 .. Len(local)
    BY ListIs
  <2>2. K \subseteq 1 .. Len(local)
    BY <2>1
  <2> HIDE DEF K
  <2>3. Places(K)
    BY <2>1, <2>2, Positions
  <2>4. queues = Keep(local, K)
    BY Zenon DEF Deduplicate, K, queues
  <2> HIDE DEF queues
  <2> QED BY <2>3, <2>4, KeepHas
<1> HIDE DEF network, queues, S, N, answers, named, open
<1>8. \A q \in Range(queues) : q.methods = {"local"}
  BY <1>7 DEF Range
<1>9. /\ DOMAIN list = 1 .. n + Len(queues) /\ Len(queues) \in Nat
      /\ \A k \in 1 .. n : list[k] = network[k]
      /\ \A k \in 1 .. n + Len(queues) : k \notin 1 .. n => list[k] \in Range(queues)
      /\ Range(list) = Range(network) \cup Range(queues)
  <2> DEFINE T == Range(network) \cup Range(queues)
  <2>1. network \in Seq(Range(network)) /\ queues \in Seq(Range(queues))
    BY <1>5, <1>7, ListIs
  <2>2. network \in Seq(T) /\ queues \in Seq(T)
    BY <2>1
  <2>3. Range(list) = Range(network) \cup Range(queues)
    BY <2>2, Joined
  <2>4. \A k \in 1 .. Len(queues) : queues[k] \in Range(queues)
    BY <1>7, ListIs
  <2> HIDE DEF T
  <2>5. /\ Len(queues) \in Nat /\ DOMAIN list = 1 .. n + Len(queues)
        /\ \A k \in 1 .. n + Len(queues) : list[k] = IF k <= n THEN network[k] ELSE queues[k - n]
    BY <2>2
  <2>6. \A k \in 1 .. n : k \in 1 .. n + Len(queues) /\ k <= n
    BY <1>5, <2>5
  <2>7. \A k \in 1 .. n + Len(queues) : k \notin 1 .. n => ~(k <= n) /\ k - n \in 1 .. Len(queues)
    BY <1>5, <2>5
  <2> HIDE DEF list, n
  <2> QED BY <2>3, <2>4, <2>5, <2>6, <2>7
<1>10. ASSUME NEW ip \in Address PROVE rows(ip) = {i \in 1 .. n : network[i].ip = ip}
  <2>1. \A i \in 1 .. n : network[i].methods # {"local"} /\ i \in DOMAIN list
    BY <1>5, <1>9
  <2>2. \A i \in DOMAIN list : i \notin 1 .. n => list[i].methods = {"local"}
    BY <1>8, <1>9
  <2> HIDE DEF n, list
  <2> QED BY <1>9, <2>1, <2>2
<1>11. ASSUME NEW ip \in Address
       PROVE  /\ Cardinality(rows(ip)) = IF answers(ip) THEN 1 ELSE 0
              /\ \A i \in rows(ip) :
                   /\ list[i].model # Unknown <=> named(ip)
                   /\ open(ip) \subseteq list[i].ports
  <2>1. Cardinality({i \in 1 .. n : network[i].ip = ip}) = IF ip \in S THEN 1 ELSE 0
    BY <1>1, RowsCount DEF ScanRows
  <2>2. Cardinality(rows(ip)) = IF answers(ip) THEN 1 ELSE 0
    BY <1>3, <1>10, <2>1
  <2>3. \A i \in rows(ip) : i \in 1 .. n /\ network[i].ip = ip /\ list[i] = network[i]
    BY <1>9, <1>10
  <2> HIDE DEF rows, list, n
  <2> QED BY <1>4, <1>5, <1>6, <2>2, <2>3
<1>12. ASSUME NEW q \in Range(local)
       PROVE  q \in Range(list) <=> (q.ip = Unknown \/ ~answers(q.ip))
  <2>1. q \notin Range(network)
    <3>1. \A r \in Range(network) : "local" \notin r.methods
      BY <1>5 DEF Range
    <3> QED BY <3>1
  <2>2. (\A i \in DOMAIN network : network[i].ip # q.ip) <=> ~answers(q.ip)
    BY <1>3, <1>5
  <2>3. q \in Range(queues) <=> (q.ip = Unknown \/ \A i \in DOMAIN network : network[i].ip # q.ip)
    BY <1>7 DEF Range
  <2> HIDE DEF list
  <2> QED BY <1>9, <2>1, <2>2, <2>3
<1> USE DEF answers, named, open
<1>13. EveryAnswerIsListed(net, hosts, method, heard, local, list)
  BY <1>11, <1>12, Zenon DEF EveryAnswerIsListed, announced, open, snmp, asked, answers, named, rows
<1> QED BY <1>13 DEF FullDiscovery, list, network, queues

-----------------------------------------------------------------------------
(* The matcher (matcher.rs).  Every pass over a list of names offers a row  *)
(* per name, and takes it unless the name is listed already.                *)

\* One offer: a row, and whether the pass wants it.
Offer(rows, o) == IF o.take /\ ~Has(rows, o.row.name) THEN Append(rows, o.row) ELSE rows

\* g is the function of a fold that makes the offers 1 .. n one after the other.
OfferTurns(g, base, offers, n) ==
  g = [s \in SUBSET (1 .. n) |->
         IF s = {} THEN base ELSE Offer(g[s \ {Max(s)}], offers[Max(s)])]

\* No name is listed twice.
Distinct(rows) == \A i, j \in 1 .. Len(rows) : rows[i].name = rows[j].name => i = j

\* The last position of a set is one of its own.
LEMMA NonEmptyMax ==
  ASSUME NEW n \in Nat, NEW s \in SUBSET (1 .. n), s # {}
  PROVE  Max(s) \in 1 .. n
<1>1. s \subseteq 0 .. n
  OBVIOUS
<1> QED BY <1>1, MaxIs

\* There is such a function, whatever is offered.
LEMMA OffersExist ==
  ASSUME NEW n \in Nat, NEW base, IsList(base), NEW offers
  PROVE  \E g : OfferTurns(g, base, offers, n)
<1> DEFINE T == Range(base) \cup {offers[k].row : k \in 1 .. n}
           A == Seq(T)
           step == [p \in A \X (1 .. n) |-> Offer(p[1], offers[p[2]])]
<1>1. base \in A
  <2>1. base \in Seq(Range(base)) /\ Range(base) \subseteq T
    BY ListIs
  <2> HIDE DEF T
  <2> QED BY <2>1
<1>2. ASSUME NEW rows \in A, NEW k \in 1 .. n PROVE Offer(rows, offers[k]) \in A
  <2>1. offers[k].row \in T
    OBVIOUS
  <2> HIDE DEF T
  <2> QED BY <2>1 DEF Offer
<1> HIDE DEF A
<1>3. step \in [A \X (1 .. n) -> A]
  BY <1>2
<1>4. PICK g : FoldsBy(g, A, base, step, n)
  <2> HIDE DEF step
  <2> QED BY <1>1, <1>3, FoldExists
<1>5. ASSUME NEW s \in SUBSET (1 .. n), s # {}
      PROVE  g[s] = Offer(g[s \ {Max(s)}], offers[Max(s)])
  <2>1. Max(s) \in 1 .. n
    BY <1>5, NonEmptyMax
  <2>2. g[s] = step[<<g[s \ {Max(s)}], Max(s)>>] /\ g[s \ {Max(s)}] \in A
    BY <1>4, <1>5 DEF FoldsBy
  <2> QED BY <2>1, <2>2
<1>6. g = [s \in SUBSET (1 .. n) |-> g[s]] /\ g[{}] = base
  BY <1>4 DEF FoldsBy
<1>7. OfferTurns(g, base, offers, n)
  BY <1>5, <1>6 DEF OfferTurns
<1> QED BY <1>7

\* What one offer changes.
LEMMA OfferIs ==
  ASSUME NEW rows, IsList(rows), Distinct(rows), NEW o
  PROVE  /\ IsList(Offer(rows, o)) /\ Distinct(Offer(rows, o))
         /\ \/ Offer(rows, o) = rows /\ (o.take => Has(rows, o.row.name))
            \/ /\ o.take /\ ~Has(rows, o.row.name)
               /\ Len(Offer(rows, o)) = Len(rows) + 1
               /\ Offer(rows, o)[Len(rows) + 1] = o.row
               /\ \A i \in 1 .. Len(rows) : Offer(rows, o)[i] = rows[i]
<1> DEFINE next == Offer(rows, o)
           n == Len(rows)
<1>1. n \in Nat /\ DOMAIN rows = 1 .. n
  BY ListIs
<1>2. CASE o.take /\ ~Has(rows, o.row.name)
  <2>1. next = Append(rows, o.row)
    BY <1>2 DEF Offer
  <2>2. /\ IsList(next) /\ Len(next) = n + 1 /\ next[n + 1] = o.row
        /\ \A i \in 1 .. n : next[i] = rows[i]
    BY <2>1, AppendHas
  <2>3. \A i \in 1 .. n : rows[i].name # o.row.name
    BY <1>1, <1>2 DEF Has
  <2>4. 1 .. n + 1 = (1 .. n) \cup {n + 1} /\ n + 1 \notin 1 .. n
    BY <1>1
  <2> HIDE DEF n
  <2>5. ASSUME NEW i \in 1 .. n + 1, NEW j \in 1 .. n + 1, next[i].name = next[j].name
        PROVE  i = j
    <3>1. (i \in 1 .. n \/ i = n + 1) /\ (j \in 1 .. n \/ j = n + 1)
      BY <2>4
    <3>2. CASE i \in 1 .. n /\ j \in 1 .. n
      BY <2>2, <2>5, <3>2 DEF Distinct, n
    <3>3. CASE i \in 1 .. n /\ j = n + 1
      BY <2>2, <2>3, <2>5, <3>3
    <3>4. CASE i = n + 1 /\ j \in 1 .. n
      BY <2>2, <2>3, <2>5, <3>4
    <3> QED BY <3>1, <3>2, <3>3, <3>4
  <2>6. Distinct(next)
    BY <2>2, <2>5 DEF Distinct
  <2> QED BY <1>2, <2>2, <2>6 DEF n
<1>3. CASE ~(o.take /\ ~Has(rows, o.row.name))
  BY <1>3 DEF Offer
<1> QED BY <1>2, <1>3

\* What a pass has made of the list after k offers.
Passed(base, offers, k, rows) ==
  /\ IsList(rows) /\ Distinct(rows)
  /\ Len(base) <= Len(rows)
  /\ \A i \in 1 .. Len(base) : rows[i] = base[i]
  /\ \A i \in Len(base) + 1 .. Len(rows) : \E j \in 1 .. k :
       rows[i] = offers[j].row /\ offers[j].take /\ ~Has(base, offers[j].row.name)
  /\ \A j \in 1 .. k : offers[j].take => Has(rows, offers[j].row.name)

\* A longer list has what a shorter one had.
LEMMA HasMore ==
  ASSUME NEW s, NEW t, IsList(s), IsList(t), Len(s) <= Len(t),
         \A i \in 1 .. Len(s) : t[i] = s[i], NEW name, Has(s, name)
  PROVE  Has(t, name)
<1>1. /\ Len(s) \in Nat /\ DOMAIN s = 1 .. Len(s) /\ Len(t) \in Nat /\ DOMAIN t = 1 .. Len(t)
  BY ListIs
<1>2. PICK i \in 1 .. Len(s) : s[i].name = name
  BY <1>1 DEF Has
<1>3. i \in 1 .. Len(t) /\ t[i].name = name
  BY <1>1, <1>2
<1> QED BY <1>1, <1>3 DEF Has

\* One offer more.
LEMMA PassOne ==
  ASSUME NEW base, IsList(base), NEW offers, NEW k \in Nat, NEW rows, Passed(base, offers, k, rows)
  PROVE  Passed(base, offers, k + 1, Offer(rows, offers[k + 1]))
<1> DEFINE o == offers[k + 1]
           next == Offer(rows, o)
           b == Len(base)
           n == Len(rows)
<1>1. b \in Nat /\ n \in Nat /\ b <= n /\ IsList(rows) /\ Distinct(rows)
  BY ListIs DEF Passed
<1>2. 1 .. k + 1 = (1 .. k) \cup {k + 1}
  OBVIOUS
<1>3. \A i \in 1 .. b : rows[i] = base[i]
  BY DEF Passed
<1>4. ASSUME NEW i \in b + 1 .. n
      PROVE  \E j \in 1 .. k : rows[i] = offers[j].row /\ offers[j].take
                                 /\ ~Has(base, offers[j].row.name)
  BY DEF Passed
<1>5. \A j \in 1 .. k : offers[j].take => Has(rows, offers[j].row.name)
  BY DEF Passed
<1>6. /\ IsList(next) /\ Distinct(next)
      /\ \/ next = rows /\ (o.take => Has(rows, o.row.name))
         \/ /\ o.take /\ ~Has(rows, o.row.name)
            /\ Len(next) = n + 1 /\ next[n + 1] = o.row
            /\ \A i \in 1 .. n : next[i] = rows[i]
  BY <1>1, OfferIs
<1> HIDE DEF next, b, n
<1>7. CASE next = rows /\ (o.take => Has(rows, o.row.name))
  <2>1. \A j \in 1 .. k + 1 : offers[j].take => Has(next, offers[j].row.name)
    BY <1>2, <1>5, <1>7
  <2>2. \A i \in b + 1 .. n : \E j \in 1 .. k + 1 :
          next[i] = offers[j].row /\ offers[j].take /\ ~Has(base, offers[j].row.name)
    BY <1>2, <1>4, <1>7
  <2> HIDE DEF o
  <2> QED BY <1>1, <1>3, <1>6, <1>7, <2>1, <2>2 DEF Passed, b, n, next, o
<1>8. CASE /\ o.take /\ ~Has(rows, o.row.name)
           /\ Len(next) = n + 1 /\ next[n + 1] = o.row
           /\ \A i \in 1 .. n : next[i] = rows[i]
  <2>1. ~Has(base, o.row.name)
    BY <1>1, <1>3, <1>8, HasMore DEF b, n
  <2>2. n + 1 \in 1 .. n + 1 /\ DOMAIN next = 1 .. n + 1 /\ n <= n + 1
    BY <1>1, <1>6, <1>8, ListIs
  <2>3. Has(next, o.row.name)
    BY <1>8, <2>2 DEF Has
  <2>4. \A j \in 1 .. k : offers[j].take => Has(next, offers[j].row.name)
    <3>1. IsList(next) /\ Len(rows) <= Len(next) /\ \A i \in 1 .. Len(rows) : next[i] = rows[i]
      BY <1>6, <1>8, <2>2 DEF n
    <3>2. \A name : Has(rows, name) => Has(next, name)
      BY <1>1, <3>1, HasMore
    <3> QED BY <1>5, <3>2
  <2>5. \A j \in 1 .. k + 1 : offers[j].take => Has(next, offers[j].row.name)
    BY <1>2, <2>3, <2>4
  <2>6. \A i \in 1 .. b : next[i] = base[i]
    <3>1. \A i \in 1 .. b : i \in 1 .. n
      BY <1>1
    <3> QED BY <1>3, <1>8, <3>1
  <2>7. ASSUME NEW i \in b + 1 .. n + 1
        PROVE  \E j \in 1 .. k + 1 :
                 next[i] = offers[j].row /\ offers[j].take /\ ~Has(base, offers[j].row.name)
    <3>1. i = n + 1 \/ (i \in b + 1 .. n /\ i \in 1 .. n)
      BY <1>1
    <3>2. CASE i = n + 1
      BY <1>2, <1>8, <2>1, <3>2
    <3>3. CASE i \in b + 1 .. n /\ i \in 1 .. n
      <4>1. PICK j \in 1 .. k : rows[i] = offers[j].row /\ offers[j].take
                                  /\ ~Has(base, offers[j].row.name)
        BY <1>4, <3>3
      <4> QED BY <1>2, <1>8, <3>3, <4>1
    <3> QED BY <3>1, <3>2, <3>3
  <2>8. b <= n + 1
    BY <1>1
  <2> HIDE DEF o
  <2> QED BY <1>6, <1>8, <2>5, <2>6, <2>7, <2>8 DEF Passed, b, o, next
<1> QED BY <1>6, <1>7, <1>8

\* (match_drivers, each loop) A pass keeps what was listed, adds only what it wants and
\* was not listed, and leaves nothing it wants unlisted.
LEMMA PassIs ==
  ASSUME NEW n \in Nat, NEW base, IsList(base), Distinct(base), NEW offers,
         NEW g, OfferTurns(g, base, offers, n)
  PROVE  Passed(base, offers, n, g[1 .. n])
<1> DEFINE P == {k \in Nat : k <= n => Passed(base, offers, k, g[1 .. k])}
<1>1. 0 \in P
  <2>1. 1 .. 0 = {} /\ g[{}] = base
    BY DEF OfferTurns
  <2>2. Len(base) \in Nat
    BY ListIs
  <2>3. Passed(base, offers, 0, base)
    BY <2>1, <2>2 DEF Passed
  <2> QED BY <2>1, <2>3
<1>2. ASSUME NEW k \in Nat, k \in P PROVE k + 1 \in P
  <2> SUFFICES ASSUME k + 1 <= n PROVE Passed(base, offers, k + 1, g[1 .. k + 1])
    OBVIOUS
  <2>1. k <= n /\ k + 1 \in Nat \ {0} /\ (k + 1) - 1 = k /\ 1 .. k + 1 \in SUBSET (1 .. n)
    OBVIOUS
  <2>2. 1 .. k + 1 # {} /\ Max(1 .. k + 1) = k + 1 /\ (1 .. k + 1) \ {k + 1} = 1 .. k
    BY <2>1, FoldTurn
  <2>3. g[1 .. k + 1] = Offer(g[1 .. k], offers[k + 1])
    BY <2>1, <2>2 DEF OfferTurns
  <2>4. Passed(base, offers, k, g[1 .. k])
    BY <1>2, <2>1
  <2> QED BY <2>3, <2>4, PassOne
<1>3. n \in P
  <2> HIDE DEF P
  <2> QED BY <1>1, <1>2, Induction
<1> QED BY <1>3

\* The passes of match_drivers.
ScoreLocal(base, model, local) ==
  FoldLeft(LAMBDA acc, d : AddScored(acc, model, d, "local"), base, local)

ScoreKnown(base, model, known) ==
  FoldLeft(LAMBDA acc, km : AddScored(acc, model, km.driver, km.source), base, known)

PromoteAll(base, model, mfr, local) ==
  FoldLeft(LAMBDA acc, d : Promote(acc, model, mfr, d), base, local)

AddAll(matched, local, universals) ==
  FoldLeft(LAMBDA acc, u : AddUniversal(matched, local, acc, u), <<>>, universals)

\* The first staged name that stands for a universal driver, 0 if there is none.
Alias(local, name) == SelectInSeq(local, LAMBDA d : IsAlias(d, name))

\* (local_store_drivers.iter().find) What is found is an alias.
LEMMA AliasIs ==
  ASSUME NEW local, IsList(local), NEW name
  PROVE  Alias(local, name) # 0 =>
           /\ local[Alias(local, name)] \in Range(local)
           /\ IsAlias(local[Alias(local, name)], name)
<1> DEFINE I == {i \in 1 .. Len(local) : IsAlias(local[i], name)}
<1>1. Alias(local, name) = IF I # {} THEN Min(I) ELSE 0
  BY Zenon DEF Alias, SelectInSeq, I
<1>2. CASE I # {}
  <2>1. I \subseteq Nat
    OBVIOUS
  <2>2. Min(I) \in I
    <3> HIDE DEF I
    <3> QED BY <1>2, <2>1, MinIs
  <2>3. Min(I) \in 1 .. Len(local) /\ IsAlias(local[Min(I)], name)
    BY <2>2
  <2> HIDE DEF I
  <2> QED BY <1>1, <1>2, <2>3, ListIs
<1>3. CASE I = {}
  BY <1>1, <1>3
<1> QED BY <1>2, <1>3

\* (Tier 2) The local names that score.
LEMMA ScoreLocalIs ==
  ASSUME NEW base, IsList(base), Distinct(base), NEW model, NEW local, IsList(local),
         NEW offers,
         offers = [k \in 1 .. Len(local) |->
                     [row |-> Row(local[k], "fuzzy", "local", Score(model, local[k])),
                      take |-> ~(Score(model, local[k]) < Floor)]]
  PROVE  Passed(base, offers, Len(local), ScoreLocal(base, model, local))
<1> DEFINE n == Len(local)
           Turns(g) == g = [s \in SUBSET DOMAIN local |->
                              IF s = {} THEN base
                              ELSE AddScored(g[s \ {Max(s)}], model, local[Max(s)], "local")]
           g0 == CHOOSE g : Turns(g)
<1>1. n \in Nat /\ DOMAIN local = 1 .. n
  BY ListIs
<1>2. \A rows : \A k \in 1 .. n : AddScored(rows, model, local[k], "local") = Offer(rows, offers[k])
  BY DEF AddScored, Offer, Row
<1>3. ASSUME NEW g PROVE Turns(g) <=> OfferTurns(g, base, offers, n)
  <2>1. ASSUME NEW s \in SUBSET (1 .. n), s # {}
        PROVE  AddScored(g[s \ {Max(s)}], model, local[Max(s)], "local")
                 = Offer(g[s \ {Max(s)}], offers[Max(s)])
    <3>1. Max(s) \in 1 .. n
      BY <1>1, <2>1, NonEmptyMax
    <3> QED BY <1>2, <3>1
  <2>2. [s \in SUBSET DOMAIN local |->
               IF s = {} THEN base
               ELSE AddScored(g[s \ {Max(s)}], model, local[Max(s)], "local")]
          = [s \in SUBSET (1 .. n) |->
               IF s = {} THEN base ELSE Offer(g[s \ {Max(s)}], offers[Max(s)])]
    BY <1>1, <2>1
  <2> QED BY <2>2 DEF OfferTurns
<1> HIDE DEF Turns, n
<1>4. PICK g : OfferTurns(g, base, offers, n)
  BY <1>1, OffersExist
<1>5. Turns(g0)
  BY <1>3, <1>4
<1>6. ScoreLocal(base, model, local) = g0[1 .. n]
  BY <1>1, Zenon DEF ScoreLocal, FoldLeft, MapThenFoldSet, g0, Turns
<1> HIDE DEF g0
<1>7. OfferTurns(g0, base, offers, n)
  BY <1>3, <1>5
<1>8. Passed(base, offers, n, g0[1 .. n])
  BY <1>1, <1>7, PassIs
<1> QED BY <1>6, <1>8 DEF n

\* (Tier 2b) The curated drivers that score.
LEMMA ScoreKnownIs ==
  ASSUME NEW base, IsList(base), Distinct(base), NEW model, NEW known, IsList(known),
         NEW offers,
         offers = [k \in 1 .. Len(known) |->
                     [row |-> Row(known[k].driver, "fuzzy", known[k].source,
                                  Score(model, known[k].driver)),
                      take |-> ~(Score(model, known[k].driver) < Floor)]]
  PROVE  Passed(base, offers, Len(known), ScoreKnown(base, model, known))
<1> DEFINE n == Len(known)
           Turns(g) == g = [s \in SUBSET DOMAIN known |->
                              IF s = {} THEN base
                              ELSE AddScored(g[s \ {Max(s)}], model, known[Max(s)].driver,
                                             known[Max(s)].source)]
           g0 == CHOOSE g : Turns(g)
<1>1. n \in Nat /\ DOMAIN known = 1 .. n
  BY ListIs
<1>2. \A rows : \A k \in 1 .. n :
        AddScored(rows, model, known[k].driver, known[k].source) = Offer(rows, offers[k])
  BY DEF AddScored, Offer, Row
<1>3. ASSUME NEW g PROVE Turns(g) <=> OfferTurns(g, base, offers, n)
  <2>1. ASSUME NEW s \in SUBSET (1 .. n), s # {}
        PROVE  AddScored(g[s \ {Max(s)}], model, known[Max(s)].driver, known[Max(s)].source)
                 = Offer(g[s \ {Max(s)}], offers[Max(s)])
    <3>1. Max(s) \in 1 .. n
      BY <1>1, <2>1, NonEmptyMax
    <3> QED BY <1>2, <3>1
  <2>2. [s \in SUBSET DOMAIN known |->
               IF s = {} THEN base
               ELSE AddScored(g[s \ {Max(s)}], model, known[Max(s)].driver, known[Max(s)].source)]
          = [s \in SUBSET (1 .. n) |->
               IF s = {} THEN base ELSE Offer(g[s \ {Max(s)}], offers[Max(s)])]
    BY <1>1, <2>1
  <2> QED BY <2>2 DEF OfferTurns
<1> HIDE DEF Turns, n
<1>4. PICK g : OfferTurns(g, base, offers, n)
  BY <1>1, OffersExist
<1>5. Turns(g0)
  BY <1>3, <1>4
<1>6. ScoreKnown(base, model, known) = g0[1 .. n]
  BY <1>1, Zenon DEF ScoreKnown, FoldLeft, MapThenFoldSet, g0, Turns
<1> HIDE DEF g0
<1>7. OfferTurns(g0, base, offers, n)
  BY <1>3, <1>5
<1>8. Passed(base, offers, n, g0[1 .. n])
  BY <1>1, <1>7, PassIs
<1> QED BY <1>6, <1>8 DEF n

\* (Tier 2c) The staged universals of the manufacturer.
LEMMA PromoteAllIs ==
  ASSUME NEW base, IsList(base), Distinct(base), NEW model, NEW mfr, NEW local, IsList(local),
         NEW offers,
         offers = [k \in 1 .. Len(local) |->
                     [row |-> Row(local[k], "fuzzy", "local", Max({Score(model, local[k]), Floor})),
                      take |-> IsLocalUniversal(mfr, local[k])]]
  PROVE  Passed(base, offers, Len(local), PromoteAll(base, model, mfr, local))
<1> DEFINE n == Len(local)
           Turns(g) == g = [s \in SUBSET DOMAIN local |->
                              IF s = {} THEN base
                              ELSE Promote(g[s \ {Max(s)}], model, mfr, local[Max(s)])]
           g0 == CHOOSE g : Turns(g)
<1>1. n \in Nat /\ DOMAIN local = 1 .. n
  BY ListIs
<1>2. \A rows : \A k \in 1 .. n : Promote(rows, model, mfr, local[k]) = Offer(rows, offers[k])
  BY DEF Promote, Offer, Row
<1>3. ASSUME NEW g PROVE Turns(g) <=> OfferTurns(g, base, offers, n)
  <2>1. ASSUME NEW s \in SUBSET (1 .. n), s # {}
        PROVE  Promote(g[s \ {Max(s)}], model, mfr, local[Max(s)])
                 = Offer(g[s \ {Max(s)}], offers[Max(s)])
    <3>1. Max(s) \in 1 .. n
      BY <1>1, <2>1, NonEmptyMax
    <3> QED BY <1>2, <3>1
  <2>2. [s \in SUBSET DOMAIN local |->
               IF s = {} THEN base
               ELSE Promote(g[s \ {Max(s)}], model, mfr, local[Max(s)])]
          = [s \in SUBSET (1 .. n) |->
               IF s = {} THEN base ELSE Offer(g[s \ {Max(s)}], offers[Max(s)])]
    BY <1>1, <2>1
  <2> QED BY <2>2 DEF OfferTurns
<1> HIDE DEF Turns, n
<1>4. PICK g : OfferTurns(g, base, offers, n)
  BY <1>1, OffersExist
<1>5. Turns(g0)
  BY <1>3, <1>4
<1>6. PromoteAll(base, model, mfr, local) = g0[1 .. n]
  BY <1>1, Zenon DEF PromoteAll, FoldLeft, MapThenFoldSet, g0, Turns
<1> HIDE DEF g0
<1>7. OfferTurns(g0, base, offers, n)
  BY <1>3, <1>5
<1>8. Passed(base, offers, n, g0[1 .. n])
  BY <1>1, <1>7, PassIs
<1> QED BY <1>6, <1>8 DEF n

\* (Universal drivers) Where every alias is matched, the ones without an alias.
LEMMA AddAllIs ==
  ASSUME NEW matched, NEW local, NEW universals, IsList(universals),
         \A k \in 1 .. Len(universals) :
            Alias(local, universals[k]) # 0 => Has(matched, local[Alias(local, universals[k])]),
         NEW offers,
         offers = [k \in 1 .. Len(universals) |->
                     [row |-> Row(universals[k], "universal", "manufacturer", 0),
                      take |-> ~Has(matched, universals[k]) /\ Alias(local, universals[k]) = 0]]
  PROVE  Passed(<<>>, offers, Len(universals), AddAll(matched, local, universals))
<1> DEFINE n == Len(universals)
           Turns(g) == g = [s \in SUBSET DOMAIN universals |->
                              IF s = {} THEN <<>>
                              ELSE AddUniversal(matched, local, g[s \ {Max(s)}], universals[Max(s)])]
           g0 == CHOOSE g : Turns(g)
<1>1. n \in Nat /\ DOMAIN universals = 1 .. n
  BY ListIs
<1>2. ASSUME NEW rows, NEW k \in 1 .. n
      PROVE  AddUniversal(matched, local, rows, universals[k]) = Offer(rows, offers[k])
  <2> DEFINE name == universals[k]
             alias == Alias(local, name)
             o == offers[k]
  <2>1. AddUniversal(matched, local, rows, name) =
          IF Has(matched, name) \/ Has(rows, name) THEN rows
          ELSE CASE alias = 0 -> Append(rows, Row(name, "universal", "manufacturer", 0))
                 [] alias # 0 /\ ~Has(matched, local[alias]) ->
                      Append(rows, Row(local[alias], "universal", "local", 0))
                 [] OTHER -> rows
    BY Zenon DEF AddUniversal, Alias, alias
  <2>2. alias # 0 => Has(matched, local[alias])
    OBVIOUS
  <2>3. /\ o.row = Row(name, "universal", "manufacturer", 0) /\ o.row.name = name
        /\ o.take <=> ~Has(matched, name) /\ alias = 0
    BY DEF Row
  <2> HIDE DEF alias, name, o
  <2> QED BY <2>1, <2>2, <2>3 DEF Offer, name, o
<1>3. ASSUME NEW g PROVE Turns(g) <=> OfferTurns(g, <<>>, offers, n)
  <2>1. ASSUME NEW s \in SUBSET (1 .. n), s # {}
        PROVE  AddUniversal(matched, local, g[s \ {Max(s)}], universals[Max(s)])
                 = Offer(g[s \ {Max(s)}], offers[Max(s)])
    <3>1. Max(s) \in 1 .. n
      BY <1>1, <2>1, NonEmptyMax
    <3> QED BY <1>2, <3>1
  <2>2. [s \in SUBSET DOMAIN universals |->
               IF s = {} THEN <<>>
               ELSE AddUniversal(matched, local, g[s \ {Max(s)}], universals[Max(s)])]
          = [s \in SUBSET (1 .. n) |->
               IF s = {} THEN <<>> ELSE Offer(g[s \ {Max(s)}], offers[Max(s)])]
    BY <1>1, <2>1
  <2> QED BY <2>2 DEF OfferTurns
<1> HIDE DEF Turns, n
<1>4. IsList(<<>>) /\ Distinct(<<>>)
  BY DEF IsList, Distinct
<1>5. PICK g : OfferTurns(g, <<>>, offers, n)
  BY <1>1, <1>4, OffersExist
<1>6. Turns(g0)
  BY <1>3, <1>5
<1>7. AddAll(matched, local, universals) = g0[1 .. n]
  BY <1>1, Zenon DEF AddAll, FoldLeft, MapThenFoldSet, g0, Turns
<1> HIDE DEF g0
<1>8. OfferTurns(g0, <<>>, offers, n)
  BY <1>3, <1>6
<1>9. Passed(<<>>, offers, n, g0[1 .. n])
  BY <1>1, <1>4, <1>8, PassIs
<1> QED BY <1>7, <1>9 DEF n

\* (to_lowercase) A name keeps its length in lower case.
LEMMA LoweredIs ==
  ASSUME NEW name, IsList(name)
  PROVE  IsList(Lowered(name)) /\ DOMAIN Lowered(name) = 1 .. Len(name)
<1>1. Len(name) \in Nat /\ DOMAIN name = 1 .. Len(name)
  BY ListIs
<1>2. Lowered(name) = [i \in 1 .. Len(name) |-> Lower[name[i]]]
  BY <1>1 DEF Lowered
<1>3. Len(Lowered(name)) = Len(name)
  BY <1>1, <1>2
<1>4. Lowered(name) = [i \in 1 .. Len(Lowered(name)) |-> Lowered(name)[i]]
  BY <1>1, <1>2, <1>3
<1> QED BY <1>1, <1>2, <1>3, <1>4 DEF IsList

\* (normalize_model) The words of a name are a list.
LEMMA WordsAre ==
  ASSUME NEW name, IsList(name)
  PROVE  /\ IsList(Words(name)) /\ Len(Words(name)) \in Nat
         /\ DOMAIN Words(name) = 1 .. Len(Words(name))
         /\ Words(name) # <<>> => Len(Words(name)) > 0
<1> DEFINE lower == Lowered(name)
           K == {i \in DOMAIN lower : lower[i] \notin Noise}
           w == Words(name)
<1>1. Len(lower) \in Nat /\ K \subseteq 1 .. Len(lower) /\ IsList(lower)
  BY LoweredIs, ListIs
<1>2. w = Keep(lower, K)
  BY Zenon DEF Words, w, K, lower
<1> HIDE DEF K, w, lower
<1>3. Places(K)
  BY <1>1, Positions
<1>4. IsList(w)
  BY <1>2, <1>3, KeepHas
<1>5. /\ Len(w) \in Nat /\ DOMAIN w = 1 .. Len(w) /\ (w = <<>> <=> Len(w) = 0)
  BY <1>4, ListIs, EmptyIs
<1> QED BY <1>4, <1>5 DEF w

\* (score_driver) Words in common are counted.
LEMMA HitsAre ==
  ASSUME NEW short, IsList(short), NEW long
  PROVE  Hits(short, long) \in Nat
<1> DEFINE K == {i \in DOMAIN short : short[i] \in Range(long)}
<1>1. Len(short) \in Nat /\ K \subseteq 1 .. Len(short)
  BY ListIs
<1> HIDE DEF K
<1>2. Cardinality(K) \in Nat
  BY <1>1, Positions
<1> QED BY <1>2 DEF Hits, K

\* (score_driver) A score is a number.
LEMMA ScoreIs ==
  ASSUME NEW model, NEW driver, IsList(model), IsList(driver)
  PROVE  Score(model, driver) \in Int
<1> DEFINE m == Words(model)
           d == Words(driver)
<1>1. CASE m = <<>> \/ d = <<>>
  BY <1>1 DEF Score
<1>2. CASE ~(m = <<>> \/ d = <<>>)
  <2>1. /\ Len(m) \in Nat /\ Len(m) > 0 /\ Len(d) \in Nat /\ Len(d) > 0
        /\ Hits(m, d) \in Nat /\ Hits(d, m) \in Nat
    BY <1>2, WordsAre, HitsAre
  <2> HIDE DEF m, d
  <2>2. ASSUME NEW h \in Nat, NEW n \in Nat, n > 0 PROVE (300 * h) \div n \in Int
    BY <2>2
  <2>3. Overlap(m, d) \in Int
    BY <2>1, <2>2 DEF Overlap
  <2>4. Score(model, driver) = (IF NumbersMatch(m, d) THEN 500 ELSE 0) + Overlap(m, d)
    BY <1>2 DEF Score, m, d
  <2> QED BY <2>3, <2>4
<1> QED BY <1>1, <1>2

\* A row that is listed for its own sake: the curated match, or one that scores.
Scores(r, model) ==
  \/ r.confidence = "exact"
  \/ r.confidence = "fuzzy" /\ r.score = Score(model, r.name) /\ ~(Score(model, r.name) < Floor)

\* A row that is listed only because it is universal.
Stopgap(r, model) == r.confidence = "fuzzy" /\ Score(model, r.name) < Floor /\ r.score = Floor

\* The list of a pass: first what scores, then the stopgaps.
InTiers(rows, model) ==
  /\ IsList(rows) /\ Distinct(rows)
  /\ \A i \in 1 .. Len(rows) : /\ Scores(rows[i], model) \/ Stopgap(rows[i], model)
                               /\ rows[i].score \in Int
  /\ \A i, j \in 1 .. Len(rows) : Scores(rows[i], model) /\ Stopgap(rows[j], model) => i < j

\* (sort_by) Ranking keeps every row, and puts no row before one of a higher rank.
LEMMA RankedIs ==
  ASSUME NEW rows, IsList(rows), \A i \in 1 .. Len(rows) : rows[i].score \in Int
  PROVE  /\ IsList(Ranked(rows)) /\ Len(Ranked(rows)) = Len(rows)
         /\ \E order \in [1 .. Len(rows) -> 1 .. Len(rows)] :
              /\ \A i \in 1 .. Len(rows) : \E k \in 1 .. Len(rows) : order[k] = i
              /\ \A i, j \in 1 .. Len(rows) : order[i] = order[j] => i = j
              /\ \A k \in 1 .. Len(rows) : Ranked(rows)[k] = rows[order[k]]
              /\ \A i, j \in 1 .. Len(rows) : i < j => Before(rows, order[i], order[j])
<1> DEFINE n == Len(rows)
           before == [i \in DOMAIN rows |-> {j \in DOMAIN rows : Before(rows, j, i)}]
           order == Sorted(DOMAIN rows, before)
           result == Ranked(rows)
<1>1. n \in Nat /\ DOMAIN rows = 1 .. n
  BY ListIs
<1>2. result = [k \in DOMAIN rows |-> rows[order[k]]]
  BY Zenon DEF Ranked, result, order, before
<1>3. Ordering(1 .. n, before)
  <2> DEFINE rank == [k \in 1 .. n |->
                        IF rows[k].confidence = "exact" THEN 2 * ExactScore ELSE rows[k].score]
             Less(j, i) == rank[j] > rank[i] \/ (rank[j] = rank[i] /\ j < i)
  <2>1. \A k \in 1 .. n : rank[k] \in Int
    BY DEF ExactScore
  <2>2. \A i, j \in 1 .. n : j \in before[i] <=> Less(j, i)
    BY <1>1 DEF Before
  <2>3. before \in [1 .. n -> SUBSET (1 .. n)]
    BY <1>1
  <2> HIDE DEF rank, before
  <2>4. \A i \in 1 .. n : ~Less(i, i)
    BY <2>1
  <2>5. \A i, j \in 1 .. n : i # j => Less(i, j) \/ Less(j, i)
    BY <2>1
  <2>6. ASSUME NEW i \in 1 .. n, NEW j \in 1 .. n, NEW k \in 1 .. n, Less(j, i), Less(k, j)
        PROVE  Less(k, i)
    BY <2>1, <2>6
  <2> HIDE DEF Less
  <2>7. \A i, j \in 1 .. n : j \in before[i] => before[j] \subseteq before[i]
    BY <2>2, <2>3, <2>6
  <2> QED BY <2>2, <2>3, <2>4, <2>5, <2>7 DEF Ordering
<1>4. IsFiniteSet(1 .. n) /\ Cardinality(1 .. n) = n
  BY <1>1, Positions, KeepAll
<1>5. \A i, j \in 1 .. n : j \in before[i] => Before(rows, j, i)
  BY <1>1
<1> HIDE DEF before
<1>6. /\ order \in [1 .. n -> 1 .. n]
      /\ \A x \in 1 .. n : \E k \in 1 .. n : order[k] = x
      /\ \A i, j \in 1 .. n : i < j => order[i] \in before[order[j]]
      /\ \A i, j \in 1 .. n : order[i] = order[j] => i = j
  <2> DEFINE D == 1 .. n
  <2>1. IsFiniteSet(D) /\ Ordering(D, before) /\ Cardinality(D) = n /\ D = DOMAIN rows
    BY <1>1, <1>3, <1>4
  <2> HIDE DEF D, n
  <2>2. /\ order \in [1 .. n -> D]
        /\ \A x \in D : \E k \in 1 .. n : order[k] = x
        /\ \A i, j \in 1 .. n : i < j => order[i] \in before[order[j]]
        /\ \A i, j \in 1 .. n : order[i] = order[j] => i = j
    BY <2>1, SortedIs
  <2> HIDE DEF order
  <2> QED BY <2>2 DEF D
<1> HIDE DEF order, result
<1>7. /\ DOMAIN result = 1 .. n /\ \A k \in 1 .. n : result[k] = rows[order[k]]
  BY <1>1, <1>2
<1>8. IsList(result) /\ Len(result) = n
  <2>1. result = [k \in DOMAIN result |-> result[k]]
    BY <1>2
  <2> HIDE DEF n
  <2> QED BY <1>1, <1>7, <2>1 DEF IsList
<1>9. \A i, j \in 1 .. n : i < j => Before(rows, order[i], order[j])
  BY <1>5, <1>6
<1> HIDE DEF n
<1> QED BY <1>6, <1>7, <1>8, <1>9 DEF n, result

\* (sort_by) Once ranked, no stopgap is ahead of a driver that scores.
LEMMA RankedTiers ==
  ASSUME NEW rows, NEW model, InTiers(rows, model)
  PROVE  /\ IsList(Ranked(rows)) /\ Distinct(Ranked(rows))
         /\ \A name : Has(Ranked(rows), name) <=> Has(rows, name)
         /\ \A i, j \in 1 .. Len(Ranked(rows)) :
              /\ Ranked(rows)[i].confidence = "fuzzy" /\ Score(model, Ranked(rows)[i].name) < Floor
              /\ ~(/\ Ranked(rows)[j].confidence = "fuzzy"
                   /\ Score(model, Ranked(rows)[j].name) < Floor)
              => j < i
<1> DEFINE n == Len(rows)
           result == Ranked(rows)
<1>1. /\ n \in Nat /\ DOMAIN rows = 1 .. n /\ IsList(rows) /\ Distinct(rows)
      /\ \A i \in 1 .. n : Scores(rows[i], model) \/ Stopgap(rows[i], model)
      /\ \A i \in 1 .. n : rows[i].score \in Int
      /\ \A i, j \in 1 .. n : Scores(rows[i], model) /\ Stopgap(rows[j], model) => i < j
  BY ListIs DEF InTiers
<1>2. PICK order \in [1 .. n -> 1 .. n] :
              /\ \A i \in 1 .. n : \E k \in 1 .. n : order[k] = i
              /\ \A i, j \in 1 .. n : order[i] = order[j] => i = j
              /\ \A k \in 1 .. n : result[k] = rows[order[k]]
              /\ \A i, j \in 1 .. n : i < j => Before(rows, order[i], order[j])
  BY <1>1, RankedIs
<1>3. IsList(result) /\ Len(result) = n /\ DOMAIN result = 1 .. n
  BY <1>1, RankedIs, ListIs
<1>4. \A k \in 1 .. n : order[k] \in 1 .. n
  BY <1>2
<1>5. \A i, j \in 1 .. n : rows[i].name = rows[j].name => i = j
  BY <1>1 DEF Distinct
<1>6. Floor \in Int /\ Floor <= 2 * ExactScore
  BY FloorAssumption DEF ExactScore
<1> HIDE DEF n, result
<1>7. Distinct(result)
  <2>1. ASSUME NEW i \in 1 .. n, NEW j \in 1 .. n, result[i].name = result[j].name PROVE i = j
    <3>1. order[i] \in 1 .. n /\ order[j] \in 1 .. n
      BY <1>4
    <3>2. rows[order[i]].name = rows[order[j]].name
      BY <1>2, <2>1
    <3>3. order[i] = order[j]
      BY <1>5, <3>1, <3>2
    <3> QED BY <1>2, <3>3
  <2> QED BY <1>3, <2>1 DEF Distinct
<1>8. ASSUME NEW name PROVE Has(result, name) <=> Has(rows, name)
  <2>1. ASSUME Has(result, name) PROVE Has(rows, name)
    <3>1. PICK k \in 1 .. n : result[k].name = name
      BY <1>3, <2>1 DEF Has
    <3>2. order[k] \in 1 .. n /\ rows[order[k]].name = name
      BY <1>2, <1>4, <3>1
    <3> QED BY <1>1, <3>2 DEF Has
  <2>2. ASSUME Has(rows, name) PROVE Has(result, name)
    <3>1. PICK i \in 1 .. n : rows[i].name = name
      BY <1>1, <2>2 DEF Has
    <3>2. PICK k \in 1 .. n : order[k] = i
      BY <1>2
    <3>3. result[k].name = name
      BY <1>2, <3>1, <3>2
    <3> QED BY <1>3, <3>3 DEF Has
  <2> QED BY <2>1, <2>2
<1>9. ASSUME NEW i \in 1 .. n, NEW j \in 1 .. n,
             result[i].confidence = "fuzzy", Score(model, result[i].name) < Floor,
             ~(result[j].confidence = "fuzzy" /\ Score(model, result[j].name) < Floor)
      PROVE  j < i
  <2> DEFINE a == order[i]
             b == order[j]
  <2>1. a \in 1 .. n /\ b \in 1 .. n /\ result[i] = rows[a] /\ result[j] = rows[b]
    BY <1>2, <1>4
  <2> HIDE DEF a, b
  <2>2. Stopgap(rows[a], model)
    BY <1>1, <1>9, <2>1 DEF Scores, Stopgap
  <2>3. Scores(rows[b], model)
    BY <1>1, <1>9, <2>1 DEF Scores, Stopgap
  <2>4. b < a
    BY <1>1, <2>1, <2>2, <2>3
  <2>5. ~Before(rows, a, b)
    <3>1. rows[a].confidence # "exact" /\ rows[a].score = Floor
      BY <2>2 DEF Stopgap
    <3>2. ASSUME rows[b].confidence # "exact" PROVE ~(rows[b].score < Floor) /\ rows[b].score \in Int
      BY <1>1, <2>1, <2>3, <3>2 DEF Scores
    <3>3. ~(a < b)
      BY <2>1, <2>4
    <3>4. CASE rows[b].confidence = "exact"
      BY <1>6, <3>1, <3>3, <3>4 DEF Before, ExactScore
    <3>5. CASE rows[b].confidence # "exact"
      BY <1>6, <3>1, <3>2, <3>3, <3>5 DEF Before
    <3> QED BY <3>4, <3>5
  <2>6. i # j
    BY <1>9
  <2>7. ~(i < j)
    BY <1>2, <2>5 DEF a, b
  <2> QED BY <2>6, <2>7
<1> QED BY <1>3, <1>7, <1>8, <1>9 DEF result

\* A list of drivers that all fit by themselves.
AllScore(rows, model) ==
  /\ IsList(rows) /\ Distinct(rows)
  /\ \A i \in 1 .. Len(rows) : Scores(rows[i], model) /\ rows[i].score \in Int

\* (known.find) The curated match comes first.
LEMMA ExactRowsAre ==
  ASSUME NEW known, NEW model
  PROVE  AllScore(ExactRows(known, model), model)
<1> DEFINE found == SelectInSeq(known, LAMBDA km : Lowered(km.model) = Lowered(model))
           r == Row(known[found].driver, "exact", known[found].source, ExactScore)
           rows == ExactRows(known, model)
<1>1. rows = IF found = 0 THEN <<>> ELSE <<r>>
  BY Zenon DEF ExactRows, found, r, rows
<1>2. r.confidence = "exact" /\ r.score \in Int
  BY DEF Row, ExactScore
<1> HIDE DEF found, r, rows
<1>3. CASE found = 0
  <2>1. rows = <<>> /\ Len(rows) = 0 /\ IsList(rows)
    BY <1>1, <1>3 DEF IsList
  <2>2. \A i \in 1 .. Len(rows) : FALSE
    BY <2>1
  <2>3. AllScore(rows, model)
    BY <2>1, <2>2 DEF AllScore, Distinct
  <2> QED BY <2>3 DEF rows
<1>4. CASE found # 0
  <2>1. rows = <<r>> /\ Len(rows) = 1 /\ rows[1] = r
    BY <1>1, <1>4
  <2>2. IsList(rows)
    <3>1. <<r>> = [k \in 1 .. 1 |-> <<r>>[k]] /\ Len(<<r>>) = 1
      OBVIOUS
    <3> QED BY <2>1, <3>1 DEF IsList
  <2>3. \A i \in 1 .. Len(rows) : i = 1
    BY <2>1
  <2>4. Distinct(rows)
    BY <2>3 DEF Distinct
  <2>5. \A i \in 1 .. Len(rows) : Scores(rows[i], model) /\ rows[i].score \in Int
    BY <1>2, <2>1, <2>3 DEF Scores
  <2>6. AllScore(rows, model)
    BY <2>2, <2>4, <2>5 DEF AllScore
  <2> QED BY <2>6 DEF rows
<1> QED BY <1>3, <1>4

\* (Tiers 2 and 2b) A pass that wants what scores lists nothing else.
LEMMA ScoredPass ==
  ASSUME NEW model, NEW base, AllScore(base, model), NEW offers, NEW n, NEW rows,
         Passed(base, offers, n, rows),
         \A k \in 1 .. n : offers[k].take =>
            Scores(offers[k].row, model) /\ offers[k].row.score \in Int
  PROVE  AllScore(rows, model)
<1>1. Len(base) \in Nat /\ Len(rows) \in Nat /\ IsList(rows) /\ Distinct(rows)
  BY ListIs DEF Passed, AllScore
<1>2. ASSUME NEW i \in 1 .. Len(rows) PROVE Scores(rows[i], model) /\ rows[i].score \in Int
  <2>1. i \in 1 .. Len(base) \/ i \in Len(base) + 1 .. Len(rows)
    BY <1>1
  <2>2. CASE i \in 1 .. Len(base)
    BY <2>2 DEF Passed, AllScore
  <2>3. CASE i \in Len(base) + 1 .. Len(rows)
    <3>1. PICK j \in 1 .. n : rows[i] = offers[j].row /\ offers[j].take
      BY <2>3 DEF Passed
    <3> QED BY <3>1
  <2> QED BY <2>1, <2>2, <2>3
<1> QED BY <1>1, <1>2 DEF AllScore

\* (Tier 2c) A pass that wants what does not score puts it behind what does.
LEMMA StopgapPass ==
  ASSUME NEW model, NEW base, AllScore(base, model), NEW offers, NEW n, NEW rows,
         Passed(base, offers, n, rows),
         \A k \in 1 .. n : offers[k].take /\ ~Has(base, offers[k].row.name) =>
            Stopgap(offers[k].row, model) /\ offers[k].row.score \in Int
  PROVE  InTiers(rows, model)
<1>1. Len(base) \in Nat /\ Len(rows) \in Nat /\ IsList(rows) /\ Distinct(rows)
  BY ListIs DEF Passed, AllScore
<1>2. ASSUME NEW i \in 1 .. Len(base) PROVE Scores(rows[i], model) /\ rows[i].score \in Int
  BY DEF Passed, AllScore
<1>3. ASSUME NEW i \in Len(base) + 1 .. Len(rows)
      PROVE  Stopgap(rows[i], model) /\ rows[i].score \in Int
  <2>1. PICK j \in 1 .. n : rows[i] = offers[j].row /\ offers[j].take
                              /\ ~Has(base, offers[j].row.name)
    BY <1>3 DEF Passed
  <2> QED BY <2>1
<1>4. \A i \in 1 .. Len(rows) : i \in 1 .. Len(base) \/ i \in Len(base) + 1 .. Len(rows)
  BY <1>1
<1>5. \A i \in 1 .. Len(rows) : ~(Scores(rows[i], model) /\ Stopgap(rows[i], model))
  BY DEF Scores, Stopgap
<1>6. \A i, j \in 1 .. Len(rows) : Scores(rows[i], model) /\ Stopgap(rows[j], model) => i < j
  <2> SUFFICES ASSUME NEW i \in 1 .. Len(rows), NEW j \in 1 .. Len(rows),
                      Scores(rows[i], model), Stopgap(rows[j], model)
               PROVE  i < j
    OBVIOUS
  <2>1. i \in 1 .. Len(base)
    BY <1>3, <1>4, <1>5
  <2>2. j \in Len(base) + 1 .. Len(rows)
    BY <1>2, <1>4, <1>5
  <2> QED BY <1>1, <2>1, <2>2
<1>7. \A i \in 1 .. Len(rows) : /\ Scores(rows[i], model) \/ Stopgap(rows[i], model)
                                /\ rows[i].score \in Int
  BY <1>2, <1>3, <1>4
<1> QED BY <1>1, <1>6, <1>7 DEF InTiers

\* (raw.max) A score under the floor is lifted to it.
LEMMA AtFloor ==
  ASSUME NEW s \in Int, s < Floor
  PROVE  Max({s, Floor}) = Floor /\ Floor \in Int
<1>1. Floor \in Int
  BY FloorAssumption DEF ExactScore
<1> DEFINE S == {s, Floor}
<1>2. Floor \in S /\ (\A y \in S : Floor >= y) /\ \A y \in S : y \in Int
  BY <1>1
<1> HIDE DEF S
<1>3. \E x \in S : \A y \in S : x >= y
  BY <1>2
<1>4. Max(S) \in S /\ \A y \in S : Max(S) >= y
  BY <1>3, MaxChosen
<1> DEFINE m == Max(S)
<1>5. m \in Int /\ m >= Floor /\ Floor >= m
  BY <1>2, <1>4
<1> HIDE DEF m
<1>6. m = Floor
  BY <1>1, <1>5
<1> QED BY <1>1, <1>6 DEF m, S

\* (find_manufacturer) At most one manufacturer, and one of the manifest.
LEMMA ManufacturerIs ==
  ASSUME NEW manifest, IsList(manifest), NEW model, FindManufacturer(manifest, model) # {}
  PROVE  \E m \in Range(manifest) : FindManufacturer(manifest, model) = {m}
<1> DEFINE fits == {k \in DOMAIN manifest :
                      \E p \in manifest[k].prefixes : StartsWith(Lowered(model), Lowered(p))}
<1>1. FindManufacturer(manifest, model) = IF fits = {} THEN {} ELSE {manifest[Min(fits)]}
  BY Zenon DEF FindManufacturer, fits
<1>2. Len(manifest) \in Nat /\ DOMAIN manifest = 1 .. Len(manifest)
  BY ListIs
<1>3. fits \subseteq DOMAIN manifest /\ fits \subseteq Nat
  BY <1>2
<1> HIDE DEF fits
<1>4. fits # {}
  BY <1>1
<1>5. Min(fits) \in fits
  BY <1>3, <1>4, MinIs
<1>6. manifest[Min(fits)] \in Range(manifest)
  BY <1>2, <1>3, <1>5, ListIs
<1> QED BY <1>1, <1>4, <1>6

\* What find_manufacturer and the manifest give match_drivers.
TheMatched(model, local, known, manifest) ==
  LET mfrs == FindManufacturer(manifest, model)
      fromKnown == ScoreKnown(ScoreLocal(ExactRows(known, model), model, local), model, known)
  IN  IF mfrs = {} THEN fromKnown ELSE PromoteAll(fromKnown, model, CHOOSE m \in mfrs : TRUE, local)

TheUniversals(model, local, known, manifest) ==
  LET mfrs == FindManufacturer(manifest, model)
      mfr == CHOOSE m \in mfrs : TRUE
  IN  IF mfrs = {} THEN <<>>
      ELSE AddAll(TheMatched(model, local, known, manifest), local, mfr.universals)

\* (match_drivers) The two lists of the answer.
LEMMA AnswerIs ==
  ASSUME NEW model, NEW local, NEW known, NEW manifest
  PROVE  MatchDrivers(model, local, known, manifest) =
           [matched |-> Ranked(TheMatched(model, local, known, manifest)),
            universal |-> TheUniversals(model, local, known, manifest)]
BY Zenon DEF MatchDrivers, TheMatched, TheUniversals, ScoreLocal, ScoreKnown, PromoteAll, AddAll

\* (match_drivers) What scores before the tier of the universals.
LEMMA ScoredAre ==
  ASSUME NEW model, IsList(model), NEW local, IsList(local), \A d \in Range(local) : IsList(d),
         NEW known, IsList(known), \A km \in Range(known) : IsList(km.driver),
         NEW rows, rows = ScoreKnown(ScoreLocal(ExactRows(known, model), model, local), model, known)
  PROVE  /\ AllScore(rows, model)
         /\ \A d \in Range(local) : ~(Score(model, d) < Floor) => Has(rows, d)
<1> DEFINE base == ExactRows(known, model)
           staged == ScoreLocal(base, model, local)
           offers1 == [k \in 1 .. Len(local) |->
                         [row |-> Row(local[k], "fuzzy", "local", Score(model, local[k])),
                          take |-> ~(Score(model, local[k]) < Floor)]]
           offers2 == [k \in 1 .. Len(known) |->
                         [row |-> Row(known[k].driver, "fuzzy", known[k].source,
                                      Score(model, known[k].driver)),
                          take |-> ~(Score(model, known[k].driver) < Floor)]]
<1>1. AllScore(base, model)
  BY ExactRowsAre
<1> HIDE DEF base
<1>2. ASSUME NEW k \in 1 .. Len(local)
      PROVE  /\ offers1[k].row.name = local[k]
             /\ offers1[k].take <=> ~(Score(model, local[k]) < Floor)
             /\ offers1[k].take => Scores(offers1[k].row, model)
             /\ offers1[k].row.score \in Int
  <2>1. Score(model, local[k]) \in Int
    BY ListIs, ScoreIs
  <2> QED BY <2>1 DEF Scores, Row
<1>3. ASSUME NEW k \in 1 .. Len(known)
      PROVE  /\ offers2[k].take => Scores(offers2[k].row, model)
             /\ offers2[k].row.score \in Int
  <2>1. Score(model, known[k].driver) \in Int
    BY ListIs, ScoreIs
  <2> QED BY <2>1 DEF Scores, Row
<1>4. Passed(base, offers1, Len(local), staged)
  <2>1. IsList(base) /\ Distinct(base)
    BY <1>1 DEF AllScore
  <2> QED BY <2>1, ScoreLocalIs
<1> HIDE DEF offers1, staged
<1>5. AllScore(staged, model)
  BY <1>1, <1>2, <1>4, ScoredPass
<1>6. Passed(staged, offers2, Len(known), rows)
  <2>1. IsList(staged) /\ Distinct(staged)
    BY <1>5 DEF AllScore
  <2> QED BY <2>1, ScoreKnownIs DEF staged, base
<1> HIDE DEF offers2
<1>7. AllScore(rows, model)
  BY <1>3, <1>5, <1>6, ScoredPass
<1>8. ASSUME NEW d \in Range(local), ~(Score(model, d) < Floor) PROVE Has(rows, d)
  <2>1. PICK k \in 1 .. Len(local) : d = local[k]
    BY ListIs
  <2>2. Has(staged, d)
    BY <1>2, <1>4, <1>8, <2>1 DEF Passed
  <2>3. /\ IsList(staged) /\ IsList(rows) /\ Len(staged) <= Len(rows)
        /\ \A i \in 1 .. Len(staged) : rows[i] = staged[i]
    BY <1>5, <1>6 DEF Passed, AllScore
  <2> QED BY <2>2, <2>3, HasMore
<1> QED BY <1>7, <1>8

\* (match_drivers) What is matched, by tier, with every staged universal in it.
LEMMA MatchedAre ==
  ASSUME NEW model, IsList(model), NEW local, IsList(local), \A d \in Range(local) : IsList(d),
         NEW known, IsList(known), \A km \in Range(known) : IsList(km.driver),
         NEW manifest, IsList(manifest)
  PROVE  /\ InTiers(TheMatched(model, local, known, manifest), model)
         /\ \A m \in FindManufacturer(manifest, model) : \A d \in Range(local) :
              IsLocalUniversal(m, d) => Has(TheMatched(model, local, known, manifest), d)
<1> DEFINE mfrs == FindManufacturer(manifest, model)
           mfr == CHOOSE m \in mfrs : TRUE
           scored == ScoreKnown(ScoreLocal(ExactRows(known, model), model, local), model, known)
           rows == TheMatched(model, local, known, manifest)
           offers == [k \in 1 .. Len(local) |->
                        [row |-> Row(local[k], "fuzzy", "local", Max({Score(model, local[k]), Floor})),
                         take |-> IsLocalUniversal(mfr, local[k])]]
<1>1. /\ AllScore(scored, model)
      /\ \A d \in Range(local) : ~(Score(model, d) < Floor) => Has(scored, d)
  BY ScoredAre
<1>2. rows = IF mfrs = {} THEN scored ELSE PromoteAll(scored, model, mfr, local)
  BY Zenon DEF TheMatched, rows, mfrs, mfr, scored
<1> HIDE DEF scored, rows
<1>3. CASE mfrs = {}
  <2>1. \A i \in 1 .. Len(scored) : ~Stopgap(scored[i], model)
    BY <1>1 DEF AllScore, Scores, Stopgap
  <2>2. InTiers(scored, model)
    BY <1>1, <2>1 DEF AllScore, InTiers
  <2> QED BY <1>2, <1>3, <2>2 DEF rows
<1>4. CASE mfrs # {}
  <2>1. mfrs = {mfr}
    BY <1>4, ManufacturerIs
  <2> HIDE DEF mfrs, mfr
  <2>2. Passed(scored, offers, Len(local), rows)
    <3>1. IsList(scored) /\ Distinct(scored)
      BY <1>1 DEF AllScore
    <3> QED BY <1>2, <1>4, <3>1, PromoteAllIs
  <2>3. ASSUME NEW k \in 1 .. Len(local)
        PROVE  /\ offers[k].row.name = local[k]
               /\ offers[k].take <=> IsLocalUniversal(mfr, local[k])
               /\ ~Has(scored, local[k]) => Stopgap(offers[k].row, model)
                                            /\ offers[k].row.score \in Int
    <3> DEFINE s == Score(model, local[k])
    <3>1. local[k] \in Range(local) /\ s \in Int
      BY ListIs, ScoreIs
    <3>2. offers[k].row = Row(local[k], "fuzzy", "local", Max({s, Floor}))
          /\ (offers[k].take <=> IsLocalUniversal(mfr, local[k]))
      OBVIOUS
    <3>3. ASSUME ~Has(scored, local[k]) PROVE s < Floor
      BY <1>1, <3>1, <3>3
    <3> HIDE DEF s
    <3>4. s < Floor => Max({s, Floor}) = Floor /\ Floor \in Int
      BY <3>1, AtFloor
    <3> HIDE DEF offers
    <3> QED BY <3>2, <3>3, <3>4 DEF Stopgap, Row, s
  <2> HIDE DEF offers
  <2>4. InTiers(rows, model)
    <3>1. \A k \in 1 .. Len(local) : offers[k].take /\ ~Has(scored, offers[k].row.name) =>
            Stopgap(offers[k].row, model) /\ offers[k].row.score \in Int
      BY <2>3
    <3> QED BY <1>1, <2>2, <3>1, StopgapPass
  <2>5. ASSUME NEW m \in mfrs, NEW d \in Range(local), IsLocalUniversal(m, d) PROVE Has(rows, d)
    <3>1. m = mfr
      BY <2>1
    <3>2. PICK k \in 1 .. Len(local) : d = local[k]
      BY ListIs
    <3> QED BY <2>2, <2>3, <2>5, <3>1, <3>2 DEF Passed
  <2> QED BY <2>4, <2>5 DEF mfrs, rows
<1> QED BY <1>3, <1>4

\* (match_drivers) Universal drivers are offered, once, and behind what scores.
LEMMA ModelIs ==
  ASSUME NEW model, IsList(model), NEW local, IsList(local), \A d \in Range(local) : IsList(d),
         NEW known, IsList(known), \A km \in Range(known) : IsList(km.driver),
         NEW manifest, IsList(manifest), \A m \in Range(manifest) : IsList(m.universals)
  PROVE  UniversalsAreOffered(model, local, known, manifest,
                              MatchDrivers(model, local, known, manifest))
<1> DEFINE answer == MatchDrivers(model, local, known, manifest)
           mfrs == FindManufacturer(manifest, model)
           mfr == CHOOSE m \in mfrs : TRUE
           promoted == TheMatched(model, local, known, manifest)
           matched == Ranked(promoted)
           universal == TheUniversals(model, local, known, manifest)
           rows == matched \o universal
           n == Len(matched)
<1>1. answer.matched = matched /\ answer.universal = universal
  BY AnswerIs
<1>2. /\ InTiers(promoted, model)
      /\ \A m \in mfrs : \A d \in Range(local) : IsLocalUniversal(m, d) => Has(promoted, d)
  BY MatchedAre
<1>3. /\ IsList(matched) /\ Distinct(matched)
      /\ \A name : Has(matched, name) <=> Has(promoted, name)
      /\ \A i, j \in 1 .. n :
              /\ matched[i].confidence = "fuzzy" /\ Score(model, matched[i].name) < Floor
              /\ ~(matched[j].confidence = "fuzzy" /\ Score(model, matched[j].name) < Floor)
              => j < i
  BY <1>2, RankedTiers
<1>4. /\ IsList(universal) /\ Distinct(universal)
      /\ \A i \in 1 .. Len(universal) : ~Has(promoted, universal[i].name)
  <2>1. universal = IF mfrs = {} THEN <<>> ELSE AddAll(promoted, local, mfr.universals)
    BY Zenon DEF TheUniversals, universal, mfrs, mfr, promoted
  <2>2. CASE mfrs = {}
    <3>1. universal = <<>> /\ Len(<<>>) = 0 /\ 1 .. 0 = {}
      BY <2>1, <2>2
    <3>2. IsList(<<>>)
      BY DEF IsList
    <3> HIDE DEF universal, promoted
    <3> QED BY <3>1, <3>2 DEF Distinct
  <2>3. CASE mfrs # {}
    <3> DEFINE u == mfr.universals
               offers == [k \in 1 .. Len(u) |->
                            [row |-> Row(u[k], "universal", "manufacturer", 0),
                             take |-> ~Has(promoted, u[k]) /\ Alias(local, u[k]) = 0]]
    <3>1. mfr \in mfrs /\ IsList(mfr.universals)
      BY <2>3, ManufacturerIs
    <3> HIDE DEF mfrs, mfr, promoted, universal
    <3>2. ASSUME NEW k \in 1 .. Len(u), Alias(local, u[k]) # 0
          PROVE  Has(promoted, local[Alias(local, u[k])])
      <4> DEFINE d == local[Alias(local, u[k])]
      <4>1. d \in Range(local) /\ IsAlias(d, u[k])
        BY <3>2, AliasIs
      <4>2. u[k] \in Range(mfr.universals)
        BY <3>1, ListIs
      <4> HIDE DEF d
      <4>3. IsLocalUniversal(mfr, d)
        BY <4>1, <4>2 DEF IsLocalUniversal
      <4>4. Has(promoted, d)
        BY <1>2, <3>1, <4>1, <4>3
      <4> QED BY <4>4 DEF d
    <3>3. Passed(<<>>, offers, Len(u), universal)
      BY <2>1, <2>3, <3>1, <3>2, AddAllIs
    <3>4. \A k \in 1 .. Len(u) : offers[k].take => ~Has(promoted, offers[k].row.name)
      BY DEF Row
    <3> HIDE DEF offers, u
    <3>5. Len(<<>>) = 0 /\ 0 + 1 = 1
      OBVIOUS
    <3>6. \A i \in 1 .. Len(universal) : ~Has(promoted, universal[i].name)
      BY <3>3, <3>4, <3>5 DEF Passed
    <3> QED BY <3>3, <3>6 DEF Passed
  <2> QED BY <2>2, <2>3
<1> HIDE DEF universal, matched, promoted, answer
<1>5. /\ n \in Nat /\ DOMAIN matched = 1 .. n
      /\ Len(universal) \in Nat /\ DOMAIN universal = 1 .. Len(universal)
  BY <1>3, <1>4, ListIs
<1>6. \A i \in 1 .. Len(universal) : \A j \in 1 .. n : universal[i].name # matched[j].name
  BY <1>3, <1>4, <1>5 DEF Has
<1>7. /\ DOMAIN rows = 1 .. n + Len(universal)
      /\ \A k \in 1 .. n + Len(universal) : rows[k] = IF k <= n THEN matched[k] ELSE universal[k - n]
  <2> DEFINE T == Range(matched) \cup Range(universal)
  <2>1. matched \in Seq(Range(matched)) /\ universal \in Seq(Range(universal))
    BY <1>3, <1>4, ListIs
  <2>2. matched \in Seq(T) /\ universal \in Seq(T)
    BY <2>1
  <2> HIDE DEF T
  <2> QED BY <2>2
<1> HIDE DEF rows, n
<1>8. ASSUME NEW i \in DOMAIN rows, NEW j \in DOMAIN rows, rows[i].name = rows[j].name
      PROVE  i = j
  <2> DEFINE b == Len(universal)
  <2>1. i \in 1 .. n + b /\ j \in 1 .. n + b /\ b \in Nat
    BY <1>5, <1>7
  <2>2. /\ i <= n => i \in 1 .. n /\ rows[i] = matched[i]
        /\ ~(i <= n) => i - n \in 1 .. b /\ rows[i] = universal[i - n]
        /\ j <= n => j \in 1 .. n /\ rows[j] = matched[j]
        /\ ~(j <= n) => j - n \in 1 .. b /\ rows[j] = universal[j - n]
    BY <1>5, <1>7, <2>1
  <2> HIDE DEF b
  <2>3. \A x, y \in 1 .. n : matched[x].name = matched[y].name => x = y
    BY <1>3 DEF Distinct, n
  <2>4. \A x, y \in 1 .. b : universal[x].name = universal[y].name => x = y
    BY <1>4 DEF Distinct, b
  <2>5. \A x \in 1 .. b : \A y \in 1 .. n : universal[x].name # matched[y].name
    BY <1>6 DEF b
  <2>6. CASE i <= n /\ j <= n
    BY <1>8, <2>2, <2>3, <2>6
  <2>7. CASE ~(i <= n) /\ ~(j <= n)
    <3>1. i - n = j - n
      BY <1>8, <2>2, <2>4, <2>7
    <3> QED BY <1>5, <2>1, <3>1
  <2>8. CASE i <= n /\ ~(j <= n)
    BY <1>8, <2>2, <2>5, <2>8
  <2>9. CASE ~(i <= n) /\ j <= n
    BY <1>8, <2>2, <2>5, <2>9
  <2> QED BY <2>6, <2>7, <2>8, <2>9
<1>9. ASSUME NEW d \in OnlyUniversal(model, local, manifest) PROVE Has(matched, d)
  BY <1>2, <1>3, <1>9 DEF OnlyUniversal
<1> DEFINE stopgap == {i \in DOMAIN matched : /\ matched[i].confidence = "fuzzy"
                                              /\ Score(model, matched[i].name) < Floor}
<1>10. \A i \in stopgap, j \in DOMAIN matched \ stopgap : j < i
  BY <1>3, <1>5 DEF n
<1>11. UniversalsAreOffered(model, local, known, manifest, answer)
  BY <1>1, <1>8, <1>9, <1>10 DEF UniversalsAreOffered, rows
<1> QED BY <1>11 DEF answer

-----------------------------------------------------------------------------
(* What every answer promises.                                             *)

\* Nothing is asked but what a step asks, and every answer is the code's.
LEMMA Turn ==
  ASSUME [Next]_decision
  PROVE  \/ decision' = decision
         \/ decision' = Nothing
         \/ \E c \in InfCase : decision' = [about |-> "inf", case |-> c,
                answer |-> FindMatching(ParseInf(c.text), Synthesize(c.device))]
         \/ \E c \in RowsCase : decision' = [about |-> "rows", case |-> c,
                answer |-> Resolve(c.device, c.updates)]
         \/ \E c \in IndexCase : decision' = [about |-> "index", case |-> c,
                answer |-> IF Accepts(c.index) THEN FindHits(c.index, c.ids) ELSE <<>>]
         \/ \E c \in PackCase : decision' = [about |-> "pack", case |-> c,
                answer |-> PickCandidate(Enumerate(c.files, c.ids), c.allow)]
         \/ \E c \in ModelCase : decision' = [about |-> "model", case |-> c,
                answer |-> MatchDrivers(c.model, c.local, c.known, c.manifest)]
         \/ \E c \in NameCase : decision' = [about |-> "name", case |-> c,
                answer |-> PickBestName(c.hint, c.staged)]
         \/ \E c \in CidrCase : decision' = [about |-> "cidr", case |-> c, answer |-> Hosts(c)]
         \/ \E c \in ScanCase : decision' = [about |-> "scan", case |-> c,
                answer |-> FullDiscovery(c.net, c.hosts, c.method, c.heard, c.local)]
BY DEF Next, MatchInf, ResolveByCatalog, SearchIndex, PickPack, MatchModel, MatchName,
       ListHosts, Scan, Forget, Decide

\* (inf.rs) The driver taken from an INF is one that it declares for this machine, by the
\* most specific id of the device that it declares, whatever the INF and the device.
THEOREM InfIsMatched == Spec => []InfMatches
<1>1. ASSUME NEW c \in InfCase
      PROVE  MatchIsBest(c.text, c.device, FindMatching(ParseInf(c.text), Synthesize(c.device)))
  BY InfAssumption, MatchIs
<1>2. Init => InfMatches
  BY DEF Init, Nothing, InfMatches, Asked
<1>3. InfMatches /\ [Next]_decision => InfMatches'
  <2> SUFFICES ASSUME InfMatches, [Next]_decision, Asked("inf")', decision' # decision
               PROVE  InfMatches'
    BY DEF InfMatches, Asked
  <2>1. PICK c \in InfCase : decision' = [about |-> "inf", case |-> c,
                 answer |-> FindMatching(ParseInf(c.text), Synthesize(c.device))]
    BY Turn DEF Nothing, Asked
  <2> QED BY <1>1, <2>1 DEF InfMatches
<1> QED BY <1>2, <1>3, PTL DEF Spec

\* (resolver.rs) The newest usable row of a catalog's answer is found, whatever failed
\* before it and however many rows there are.
THEOREM CatalogIsSearched == Spec => []CatalogGoesOn
<1>1. ASSUME NEW c \in RowsCase
      PROVE  ResolverGoesOn(c.device, c.updates, Resolve(c.device, c.updates))
  BY RowsAssumption, ResolveIs
<1>2. Init => CatalogGoesOn
  BY DEF Init, Nothing, CatalogGoesOn, Asked
<1>3. CatalogGoesOn /\ [Next]_decision => CatalogGoesOn'
  <2> SUFFICES ASSUME CatalogGoesOn, [Next]_decision, Asked("rows")', decision' # decision
               PROVE  CatalogGoesOn'
    BY DEF CatalogGoesOn, Asked
  <2>1. PICK c \in RowsCase : decision' = [about |-> "rows", case |-> c,
                 answer |-> Resolve(c.device, c.updates)]
    BY Turn DEF Nothing, Asked
  <2> QED BY <1>1, <2>1 DEF CatalogGoesOn
<1> QED BY <1>2, <1>3, PTL DEF Spec

\* (sdi/index.rs) In an index of any size that passes the checks at the door, every record
\* that is asked for leads to an INF.
THEOREM IndexIsSound == Spec => []IndexAnswers
<1>1. ASSUME NEW c \in IndexCase
      PROVE  EveryRecordAnswers(c.index, c.ids,
                                IF Accepts(c.index) THEN FindHits(c.index, c.ids) ELSE <<>>)
  <2>1. IsIndex(c.index)
    BY IndexAssumption
  <2>2. CASE Accepts(c.index)
    BY <2>1, <2>2, IndexIs
  <2>3. CASE ~Accepts(c.index)
    BY <2>3, Zenon DEF EveryRecordAnswers, Accepts
  <2> QED BY <2>2, <2>3
<1>2. Init => IndexAnswers
  BY DEF Init, Nothing, IndexAnswers, Asked
<1>3. IndexAnswers /\ [Next]_decision => IndexAnswers'
  <2> SUFFICES ASSUME IndexAnswers, [Next]_decision, Asked("index")', decision' # decision
               PROVE  IndexAnswers'
    BY DEF IndexAnswers, Asked
  <2>1. PICK c \in IndexCase : decision' = [about |-> "index", case |-> c,
                 answer |-> IF Accepts(c.index) THEN FindHits(c.index, c.ids) ELSE <<>>]
    BY Turn DEF Nothing, Asked
  <2> QED BY <1>1, <2>1 DEF IndexAnswers
<1> QED BY <1>2, <1>3, PTL DEF Spec

\* (sdi/resolver.rs, add.rs) No unreadable index hides what the others offer, and no
\* download is chosen where a cached pack will do, for any number of indexes.
THEOREM PackIsTheBest == Spec => []PackIsPicked
<1>1. ASSUME NEW c \in PackCase
      PROVE  BadIndexHidesNothing(c.files, c.ids, c.allow, PickCandidate(Enumerate(c.files, c.ids), c.allow))
  BY PackAssumption, PackIs
<1>2. Init => PackIsPicked
  BY DEF Init, Nothing, PackIsPicked, Asked
<1>3. PackIsPicked /\ [Next]_decision => PackIsPicked'
  <2> SUFFICES ASSUME PackIsPicked, [Next]_decision, Asked("pack")', decision' # decision
               PROVE  PackIsPicked'
    BY DEF PackIsPicked, Asked
  <2>1. PICK c \in PackCase : decision' = [about |-> "pack", case |-> c,
                 answer |-> PickCandidate(Enumerate(c.files, c.ids), c.allow)]
    BY Turn DEF Nothing, Asked
  <2> QED BY <1>1, <2>1 DEF PackIsPicked
<1> QED BY <1>2, <1>3, PTL DEF Spec

\* (matcher.rs) Staged universal drivers are offered, once, and behind every driver that
\* fits by its own score, for any driver store, curated list and manifest.
THEOREM ModelIsMatched == Spec => []ModelMatches
<1>1. ASSUME NEW c \in ModelCase
      PROVE  UniversalsAreOffered(c.model, c.local, c.known, c.manifest,
                              MatchDrivers(c.model, c.local, c.known, c.manifest))
  BY ModelAssumption, ModelIs
<1>2. Init => ModelMatches
  BY DEF Init, Nothing, ModelMatches, Asked
<1>3. ModelMatches /\ [Next]_decision => ModelMatches'
  <2> SUFFICES ASSUME ModelMatches, [Next]_decision, Asked("model")', decision' # decision
               PROVE  ModelMatches'
    BY DEF ModelMatches, Asked
  <2>1. PICK c \in ModelCase : decision' = [about |-> "model", case |-> c,
                 answer |-> MatchDrivers(c.model, c.local, c.known, c.manifest)]
    BY Turn DEF Nothing, Asked
  <2> QED BY <1>1, <2>1 DEF ModelMatches
<1> QED BY <1>2, <1>3, PTL DEF Spec

\* (name_match.rs) No staged name shares more words with the hint than the one that is
\* taken, however many are staged.
THEOREM NameIsPicked == Spec => []NameMatches
<1>1. ASSUME NEW c \in NameCase
      PROVE  NameIsClosest(c.hint, c.staged, PickBestName(c.hint, c.staged))
  BY NameAssumption, NameIs
<1>2. Init => NameMatches
  BY DEF Init, Nothing, NameMatches, Asked
<1>3. NameMatches /\ [Next]_decision => NameMatches'
  <2> SUFFICES ASSUME NameMatches, [Next]_decision, Asked("name")', decision' # decision
               PROVE  NameMatches'
    BY DEF NameMatches, Asked
  <2>1. PICK c \in NameCase : decision' = [about |-> "name", case |-> c,
                 answer |-> PickBestName(c.hint, c.staged)]
    BY Turn DEF Nothing, Asked
  <2> QED BY <1>1, <2>1 DEF NameMatches
<1> QED BY <1>2, <1>3, PTL DEF Spec

\* (subnet.rs) For every width of an address, a scan asks exactly the hosts of the network
\* that the address typed belongs to.
THEOREM NetworkIsAsked == Spec => []ScanAsksTheNetwork
<1>1. ASSUME NEW c \in CidrCase PROVE HostsAreTheNetwork(c, Hosts(c))
  <2>1. c # Unknown => c.ip \in Address /\ c.prefix \in Nat
    BY CidrAssumption
  <2> QED BY <2>1, HostsAre
<1>2. Init => ScanAsksTheNetwork
  BY DEF Init, Nothing, ScanAsksTheNetwork, Asked
<1>3. ScanAsksTheNetwork /\ [Next]_decision => ScanAsksTheNetwork'
  <2> SUFFICES ASSUME ScanAsksTheNetwork, [Next]_decision, Asked("cidr")', decision' # decision
               PROVE  ScanAsksTheNetwork'
    BY DEF ScanAsksTheNetwork, Asked
  <2>1. PICK c \in CidrCase : decision' = [about |-> "cidr", case |-> c,
                 answer |-> Hosts(c)]
    BY Turn DEF Nothing, Asked
  <2> QED BY <1>1, <2>1 DEF ScanAsksTheNetwork
<1> QED BY <1>2, <1>3, PTL DEF Spec

\* (discovery) Every address that answers any probe is listed once, with what it was found
\* to be, and every queue whose address does not, for any network and any announcements.
THEOREM AnswersAreListed == Spec => []ScanLists
<1>1. ASSUME NEW c \in ScanCase
      PROVE  EveryAnswerIsListed(c.net, c.hosts, c.method, c.heard, c.local,
                             FullDiscovery(c.net, c.hosts, c.method, c.heard, c.local))
  BY ScanAssumption, ScanIs
<1>2. Init => ScanLists
  BY DEF Init, Nothing, ScanLists, Asked
<1>3. ScanLists /\ [Next]_decision => ScanLists'
  <2> SUFFICES ASSUME ScanLists, [Next]_decision, Asked("scan")', decision' # decision
               PROVE  ScanLists'
    BY DEF ScanLists, Asked
  <2>1. PICK c \in ScanCase : decision' = [about |-> "scan", case |-> c,
                 answer |-> FullDiscovery(c.net, c.hosts, c.method, c.heard, c.local)]
    BY Turn DEF Nothing, Asked
  <2> QED BY <1>1, <2>1 DEF ScanLists
<1> QED BY <1>2, <1>3, PTL DEF Spec

=============================================================================
